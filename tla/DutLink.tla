------------------------------- MODULE DutLink ------------------------------
(* The device over binary UDP: BinaryUdpDut (layer3_hal/dut_driver.py) on    *)
(* one side, the threaded DutServer with its DutLogic (emulators/            *)
(* dut_server.py) on the other, and between them a network that loses,       *)
(* delays, reorders and duplicates datagrams.  Each datagram the server      *)
(* receives runs in a thread of its own, so requests in flight are executed  *)
(* in any order, and one that was given up by the driver still is.           *)
(*                                                                           *)
(* The driver is called by one sequential test engine: between two calls the *)
(* engine may also reprogram the bench (Reprogram), never during one.        *)
EXTENDS Integers, Sequences

CONSTANTS
  Requests,          \* the requests a caller makes, [msg, arg]
  ValidChannels,     \* VALID_CHANNELS of the server
  ValidFactors,      \* the factors in 0.1 .. 10.0
  Unity,             \* the correction 1.0
  Retries,           \* attempts per transaction
  Patience,          \* ticks of timeout_s
  Duplicates,        \* whether the network may duplicate a datagram
  Cuts,              \* whether a datagram may arrive cut short
  MaxTransactions, MaxSockets, MaxWorlds   \* bounds of a run

ReadMsgs == {"REQ_IDENT", "REQ_RELAYS", "REQ_ANALOG"}
ReqMsgs  == ReadMsgs \cup {"REQ_SET_CORRECTION"}
RspMsgs  == {"RSP_IDENT", "RSP_RELAYS", "RSP_ANALOG", "RSP_ACK", "RSP_NACK"}

ASSUME DutLinkAssumption ==
  /\ Requests \subseteq [msg: ReqMsgs \ {"REQ_IDENT"}, arg: Int]
  /\ Unity \in ValidFactors /\ ValidFactors \subseteq Int
  /\ Retries \in Nat \ {0} /\ Patience \in Nat \ {0}
  /\ Duplicates \in BOOLEAN /\ Cuts \in BOOLEAN
  /\ {MaxTransactions, MaxSockets, MaxWorlds} \subseteq Nat

IdentRequest == [msg |-> "REQ_IDENT", arg |-> 0]

VARIABLES
  socket,       \* the driver's socket; 0 when disconnected
  sockets,      \* sockets opened so far
  identified,   \* the driver has the device's identity cached
  calls,        \* the transactions so far; the last one may be pending
  remaining,    \* ticks to the deadline of the current attempt
  answer,       \* the reply that ended the last transaction, or NoReply
  requests,     \* request datagrams in the network or a server thread
  replies,      \* reply datagrams on their way to the driver's socket
  world,        \* which state the bench is in, as far as readings tell
  correction    \* analog_correction of the device

driver == <<socket, sockets, identified, calls, remaining, answer>>
vars   == <<socket, sockets, identified, calls, remaining, answer,
            requests, replies, world, correction>>

-----------------------------------------------------------------------------
(* Types.                                                                    *)

Endings == {"pending", "answered", "refused", "protocol_error", "timeout", "os_error"}

Call == [request: Requests \cup {IdentRequest}, socket: 1..MaxSockets,
         attempts: 1..Retries, ending: Endings]

\* A datagram remembers the call and the attempt that sent it; the program
\* puts neither on the wire.
RequestDatagram == [call: 1..MaxTransactions, attempt: 1..Retries]

Reading == [world: 0..MaxWorlds, correction: ValidFactors]

\* The echo of RSP_ANALOG is a channel; that of ACK and NACK is a message,
\* written here as `about`.
ReplyDatagram == [call: 1..MaxTransactions, attempt: 1..Retries, msg: RspMsgs,
                  echo: Int, about: ReqMsgs, reading: Reading]

NoReply == [call |-> 0]

TypeOK ==
  /\ socket \in 0..MaxSockets /\ sockets \in 0..MaxSockets /\ socket =< sockets
  /\ identified \in BOOLEAN
  /\ calls \in Seq(Call) /\ Len(calls) =< MaxTransactions
  /\ remaining \in 0..Patience
  /\ answer \in ReplyDatagram \cup {NoReply}
  /\ requests \subseteq RequestDatagram
  /\ replies \subseteq ReplyDatagram
  /\ world \in 0..MaxWorlds
  /\ correction \in ValidFactors

Init ==
  /\ socket = 0 /\ sockets = 0 /\ identified = FALSE
  /\ calls = <<>> /\ remaining = 0 /\ answer = NoReply
  /\ requests = {} /\ replies = {}
  /\ world = 0 /\ correction = Unity

-----------------------------------------------------------------------------
(* The device.                                                               *)

NoReading == [world |-> 0, correction |-> Unity]

\* DutLogic.execute: the reply to a request, of the device as it is now.  Only
\* the analog reading is scaled by the correction.
Execute(d, request) ==
  LET reply(msg, echo, reading) ==
        [call |-> d.call, attempt |-> d.attempt, msg |-> msg, echo |-> echo,
         about |-> request.msg, reading |-> reading]
      nack == reply("RSP_NACK", 0, NoReading)
  IN CASE request.msg = "REQ_IDENT"  -> reply("RSP_IDENT", 0, NoReading)
       [] request.msg = "REQ_RELAYS" ->
            reply("RSP_RELAYS", 0, [world |-> world, correction |-> Unity])
       [] request.msg = "REQ_ANALOG" ->
            IF request.arg \in ValidChannels
            THEN reply("RSP_ANALOG", request.arg,
                       [world |-> world, correction |-> correction])
            ELSE nack
       [] request.msg = "REQ_SET_CORRECTION" ->
            IF request.arg \in ValidFactors THEN reply("RSP_ACK", 0, NoReading)
                                            ELSE nack

\* A mutant: the highest factor is acknowledged but not stored.
Corrects_BelowTheTop(request) ==
  /\ request.msg = "REQ_SET_CORRECTION" /\ request.arg \in ValidFactors
  /\ \E f \in ValidFactors : f > request.arg

Corrects(request) ==
  request.msg = "REQ_SET_CORRECTION" /\ request.arg \in ValidFactors

\* A handler thread runs: a reply to a socket the driver has closed is lost.
ServerHandles(d) ==
  LET request == calls[d.call].request
  IN /\ d \in requests
     /\ \/ requests' = requests \ {d}
        \/ Duplicates /\ UNCHANGED requests
     /\ replies' = IF calls[d.call].socket = socket
                   THEN replies \cup {Execute(d, request)} ELSE replies
     /\ correction' = IF Corrects(request) THEN request.arg ELSE correction
     /\ UNCHANGED <<driver, world>>

\* What is left of a request after its message id: only these two have more.
HasPayload(request) == request.msg \in {"REQ_ANALOG", "REQ_SET_CORRECTION"}

\* A request that was cut in its payload is refused for its length, whatever it
\* asked for; one cut earlier is not a frame, and is ignored as a lost one.
ServerHandlesCut(d) ==
  LET request == calls[d.call].request
      nack == [call |-> d.call, attempt |-> d.attempt, msg |-> "RSP_NACK", echo |-> 0,
               about |-> request.msg, reading |-> NoReading]
  IN /\ Cuts /\ d \in requests /\ HasPayload(request)
     /\ requests' = requests \ {d}
     /\ replies' = IF calls[d.call].socket = socket THEN replies \cup {nack} ELSE replies
     /\ UNCHANGED <<driver, world, correction>>

\* The network, a garbled frame or the server's drop_first loses a datagram.
LoseRequest(d) ==
  d \in requests /\ requests' = requests \ {d}
  /\ UNCHANGED <<driver, replies, world, correction>>

LoseReply(r) ==
  r \in replies /\ replies' = replies \ {r}
  /\ UNCHANGED <<driver, requests, world, correction>>

-----------------------------------------------------------------------------
(* The driver.                                                               *)

Expected(request) ==
  CASE request.msg = "REQ_IDENT"          -> "RSP_IDENT"
    [] request.msg = "REQ_RELAYS"         -> "RSP_RELAYS"
    [] request.msg = "REQ_ANALOG"         -> "RSP_ANALOG"
    [] request.msg = "REQ_SET_CORRECTION" -> "RSP_ACK"

Current == calls[Len(calls)]
Waiting == calls # <<>> /\ Current.ending = "pending"
Idle    == ~Waiting

\* Mutants: whatever arrives is the answer; the channel echo is not compared.
Verdict_AnyReply(request, reply) ==
  IF reply.msg = "RSP_NACK" THEN "refused" ELSE "answered"

Verdict_NoChannelEcho(request, reply) ==
  CASE reply.msg = "RSP_NACK" ->
         IF reply.about = request.msg THEN "refused" ELSE "discarded"
    [] reply.msg = Expected(request) -> "answered"
    [] OTHER -> "discarded"

\* What the caller of _transact, and the operation around it, makes of a
\* datagram: the answer, a refusal, a mismatched echo, or nothing at all.
Verdict(request, reply) ==
  CASE reply.msg = "RSP_NACK" ->
         IF reply.about = request.msg THEN "refused" ELSE "discarded"
    [] reply.msg = Expected(request) ->
         IF \/ request.msg = "REQ_ANALOG" /\ reply.echo # request.arg
            \/ request.msg = "REQ_SET_CORRECTION" /\ reply.about # request.msg
         THEN "protocol_error" ELSE "answered"
    [] OTHER -> "discarded"

\* A reply that was cut short: not a frame, or not long enough for its kind.
\* The length of a NACK is looked at before what it is about.
CutVerdicts(request, reply) ==
  {"discarded"} \cup (IF reply.msg \in {"RSP_NACK", Expected(request)} THEN {"protocol_error"} ELSE {})

\* A transaction begins with its first attempt.
Transact(request, on) ==
  /\ Len(calls) < MaxTransactions
  /\ calls' = Append(calls, [request |-> request, socket |-> on,
                             attempts |-> 1, ending |-> "pending"])
  /\ requests' = requests \cup {[call |-> Len(calls) + 1, attempt |-> 1]}
  /\ remaining' = Patience
  /\ answer' = NoReply

\* connect: a new socket, whose port no earlier reply is addressed to, and a
\* transaction that proves the device answers.
Connect ==
  /\ Idle
  /\ sockets < MaxSockets
  /\ sockets' = sockets + 1
  /\ socket' = sockets'
  /\ replies' = {}
  /\ Transact(IdentRequest, socket')
  /\ UNCHANGED <<identified, world, correction>>

Operation(request) ==
  /\ Idle
  /\ socket # 0
  /\ Transact(request, socket)
  /\ UNCHANGED <<socket, sockets, identified, replies, world, correction>>

\* A mutant: connect does not clean up after itself.
Ends_KeepsSocket(ending, reply) ==
  /\ calls' = [calls EXCEPT ![Len(calls)].ending = ending]
  /\ answer' = reply
  /\ remaining' = 0
  /\ identified' = IF Current.request = IdentRequest THEN ending = "answered"
                                                     ELSE identified
  /\ UNCHANGED socket

\* The transaction ends; a failed connect also closes the socket.
Ends(ending, reply) ==
  LET connecting == Current.request = IdentRequest
      failed == connecting /\ ending # "answered"
  IN /\ calls' = [calls EXCEPT ![Len(calls)].ending = ending]
     /\ answer' = reply
     /\ remaining' = 0
     /\ identified' = IF connecting THEN ~failed ELSE identified
     /\ socket' = IF failed THEN 0 ELSE socket

\* A mutant: a discarded reply restarts the timeout.
Receive_ExtendsDeadline(r) ==
  /\ Waiting /\ remaining > 0 /\ r \in replies
  /\ LET verdict == Verdict(Current.request, r)
         left == IF Duplicates THEN {replies, replies \ {r}} ELSE {replies \ {r}}
     IN IF verdict = "discarded"
        THEN /\ replies' \in left /\ remaining' = Patience
             /\ UNCHANGED <<socket, identified, calls, answer>>
        ELSE Ends(verdict, r) /\ replies' \in IF socket' = 0 THEN {{}} ELSE left
  /\ UNCHANGED <<sockets, requests, world, correction>>

Receive(r) ==
  /\ Waiting /\ remaining > 0 /\ r \in replies
  /\ LET verdict == Verdict(Current.request, r)
         left == IF Duplicates THEN {replies, replies \ {r}} ELSE {replies \ {r}}
     IN IF verdict = "discarded"
        THEN replies' \in left /\ UNCHANGED <<socket, identified, calls, answer, remaining>>
        ELSE /\ Ends(verdict, r)
             /\ replies' \in IF socket' = 0 THEN {{}} ELSE left
  /\ UNCHANGED <<sockets, requests, world, correction>>

ReceiveCut(r) ==
  /\ Cuts
  /\ Waiting /\ remaining > 0 /\ r \in replies
  /\ "protocol_error" \in CutVerdicts(Current.request, r)
  /\ Ends("protocol_error", NoReply)
  /\ replies' = IF socket' = 0 THEN {} ELSE replies \ {r}
  /\ UNCHANGED <<sockets, requests, world, correction>>

\* Time passes; nothing that arrives moves the deadline.
Tick ==
  /\ Waiting /\ remaining > 0
  /\ remaining' = remaining - 1
  /\ UNCHANGED <<socket, sockets, identified, calls, answer,
                 requests, replies, world, correction>>

\* A mutant: one attempt too many.
Retry_OneMore ==
  /\ Waiting /\ remaining = 0 /\ Current.attempts =< Retries
  /\ calls' = [calls EXCEPT ![Len(calls)].attempts = @ + 1]
  /\ requests' = requests \cup {[call |-> Len(calls), attempt |-> Current.attempts + 1]}
  /\ remaining' = Patience
  /\ UNCHANGED <<socket, sockets, identified, answer, replies, world, correction>>

Retry ==
  /\ Waiting /\ remaining = 0 /\ Current.attempts < Retries
  /\ calls' = [calls EXCEPT ![Len(calls)].attempts = @ + 1]
  /\ requests' = requests \cup {[call |-> Len(calls), attempt |-> Current.attempts + 1]}
  /\ remaining' = Patience
  /\ UNCHANGED <<socket, sockets, identified, answer, replies, world, correction>>

GiveUp ==
  /\ Waiting /\ remaining = 0 /\ Current.attempts = Retries
  /\ Ends("timeout", NoReply)
  /\ replies' = IF socket' = 0 THEN {} ELSE replies
  /\ UNCHANGED <<sockets, requests, world, correction>>

\* recv or send raises: the peer's port is closed.  No retry catches it.
SocketFails ==
  /\ Waiting
  /\ Ends("os_error", NoReply)
  /\ replies' = IF socket' = 0 THEN {} ELSE replies
  /\ UNCHANGED <<sockets, requests, world, correction>>

Disconnect ==
  /\ Idle /\ socket # 0
  /\ socket' = 0 /\ identified' = FALSE /\ replies' = {}
  /\ UNCHANGED <<sockets, calls, remaining, answer, requests, world, correction>>

\* The engine drives the generator between two calls.
Reprogram ==
  /\ Idle /\ world < MaxWorlds /\ world' = world + 1
  /\ UNCHANGED <<driver, requests, replies, correction>>

Deadline == Tick \/ Retry \/ GiveUp

Next ==
  \/ Connect \/ Disconnect \/ Reprogram
  \/ \E request \in Requests : Operation(request)
  \/ \E r \in replies : Receive(r) \/ ReceiveCut(r) \/ LoseReply(r)
  \/ \E d \in requests : ServerHandles(d) \/ ServerHandlesCut(d) \/ LoseRequest(d)
  \/ Deadline \/ SocketFails

Spec == Init /\ [][Next]_vars

\* The monotonic clock runs, and the driver's thread gets to look at it.
FairSpec == Spec /\ WF_vars(Deadline)

-----------------------------------------------------------------------------
(* Properties.                                                               *)

SetsCorrection(n) == calls[n].request.msg = "REQ_SET_CORRECTION"

\* A call some datagram of which may still be under way when it has ended.
Disturbed(n) ==
  calls[n].attempts > 1 \/ calls[n].ending \in {"timeout", "os_error", "protocol_error"}

\* Whatever the network does, a reply that ends a call was made for a request
\* of that kind which this driver sent on this socket, and an analog reading
\* it returns was taken on the channel the caller asked for.
AnswerFits ==
  answer # NoReply =>
    LET origin == calls[answer.call] IN
    /\ origin.socket = Current.socket
    /\ origin.request.msg = Current.request.msg
    /\ Current.ending = "answered" /\ Current.request.msg = "REQ_ANALOG"
         => origin.request.arg = Current.request.arg

\* A call is ended by the reply to another call only if a call of its kind on
\* the same socket has been retried or given up before: silence is the one
\* way to shift the answers.  (It is stated for networks without duplicates.)
StaleOnlyAfterRetry ==
  answer # NoReply /\ answer.call # Len(calls) =>
    \E n \in 1..answer.call :
      /\ calls[n].socket = Current.socket
      /\ calls[n].request.msg = Current.request.msg
      /\ Disturbed(n)

\* The device works with the last correction it acknowledged, and a correction
\* it refused changes nothing, unless another correction has been retried or
\* given up: only such a one can still arrive late.  Retrying the same
\* correction is harmless - unless a copy of it may be cut: the NACK that gets
\* would refuse the next one, which the device then applies.
AckedCorrectionHolds ==
  \A n \in 1..Len(calls) :
    /\ SetsCorrection(n) /\ calls[n].ending = "answered"
    /\ \A m \in 1..Len(calls) \ {n} : SetsCorrection(m) =>
         /\ ~Disturbed(m)
         /\ m > n => calls[m].ending = "refused" /\ ~(Cuts /\ Disturbed(n))
    => correction = calls[n].request.arg

\* Between calls the driver is connected exactly when it has proved that the
\* device answers: a connect that fails leaves no socket behind.
ConnectedMeansIdentified == Idle => (socket # 0) = identified

\* Every call returns or raises, however many foreign and stale datagrams the
\* network keeps delivering.
EveryCallEnds == Waiting ~> Idle

\* "a naive recv() hands B's caller A's data - a wrong measurement that never
\* raises.  So every reply is checked": a reading returned to the caller is of
\* the bench as it is during the call.
NoWrongMeasurement ==
  [][Waiting /\ Current'.ending = "answered" /\ Current.request.msg \in ReadMsgs \ {"REQ_IDENT"}
       => answer'.reading.world = world]_vars

\* The calls as DutService sees them: requests, and how the last one ended.
CallInProgress == IF Waiting THEN Current.request ELSE [msg |-> "none", arg |-> 0]
LastResult ==
  IF calls = <<>> \/ Waiting THEN [ending |-> "none", reading |-> NoReading]
  ELSE [ending |-> Current.ending,
        reading |-> IF Current.ending = "answered" THEN answer.reading ELSE NoReading]

Asked == {calls[n].request : n \in 1..Len(calls)}

Service ==
  INSTANCE DutService WITH
    connected <- socket # 0,
    call <- CallInProgress,
    asked <- Asked,
    result <- LastResult

\* The driver, with its socket, retries and deadlines, over this network, is a
\* service that answers at least once.
ImplementsService == Service!Spec
=============================================================================
