----------------------------- MODULE DutService -----------------------------
(* What BinaryUdpDut promises its caller (layer3_hal/dut_driver.py), with no *)
(* socket, retry or datagram in it: calls made one at a time, each of which  *)
(* ends once.  DutLink implements it, over any network.                      *)
(*                                                                           *)
(* The promise is at least once, not exactly once.  A correction that was    *)
(* asked for may take effect at any later time, once or often, also after    *)
(* its call was given up and the driver disconnected; and what a read        *)
(* returns is of the device as it is or as it was, never as nobody put it.   *)
EXTENDS Integers

CONSTANTS Requests, IdentRequest, ValidChannels, ValidFactors, Unity, MaxWorlds

VARIABLES
  connected,    \* whether the driver is
  call,         \* the request of the call in progress, or NoCall
  asked,        \* the requests made so far
  result,       \* how the last call ended, and what it read
  world,        \* which state the bench is in
  correction    \* analog_correction of the device

vars == <<connected, call, asked, result, world, correction>>

NoCall    == [msg |-> "none", arg |-> 0]
NoReading == [world |-> 0, correction |-> Unity]
NoResult  == [ending |-> "none", reading |-> NoReading]

Init ==
  /\ connected = FALSE /\ call = NoCall /\ asked = {} /\ result = NoResult
  /\ world = 0 /\ correction = Unity

\* The corrections the device may have been given by now.
Corrections ==
  {f \in ValidFactors : \E q \in asked : q.msg = "REQ_SET_CORRECTION" /\ q.arg = f}

Begin(request) ==
  /\ call = NoCall
  /\ call' = request /\ asked' = asked \cup {request} /\ result' = NoResult
  /\ UNCHANGED <<world, correction>>

Connect == Begin(IdentRequest) /\ connected' = TRUE

Request(request) == connected /\ Begin(request) /\ UNCHANGED connected

\* What a read may return: a reading of the bench now or earlier, and only an
\* analog one is scaled, by a correction the device has, or had.
Readings(request) ==
  CASE request.msg = "REQ_RELAYS" -> [world: 0..world, correction: {Unity}]
    [] request.msg = "REQ_ANALOG" -> [world: 0..world, correction: {Unity} \cup Corrections]
    [] OTHER -> {NoReading}

End(ending, reading) ==
  /\ call # NoCall
  /\ call' = NoCall /\ result' = [ending |-> ending, reading |-> reading]
  /\ connected' = (call = IdentRequest => ending = "answered")
  /\ UNCHANGED <<asked, world, correction>>

\* A channel that does not exist is never read; an ACK says that a correction
\* in range has been applied, though it need not be this one.
Answer ==
  /\ call.msg = "REQ_ANALOG" => call.arg \in ValidChannels
  /\ call.msg = "REQ_SET_CORRECTION" => Corrections # {}
  /\ \E reading \in Readings(call) : End("answered", reading)

\* Identity and relay states are never refused.
Refuse == call.msg \in {"REQ_ANALOG", "REQ_SET_CORRECTION"} /\ End("refused", NoReading)

Fail == \E ending \in {"protocol_error", "timeout", "os_error"} : End(ending, NoReading)

\* The device corrects its readings, when the request gets to it.
Correct ==
  /\ correction' \in Corrections
  /\ UNCHANGED <<connected, call, asked, result, world>>

Disconnect ==
  /\ call = NoCall /\ connected
  /\ connected' = FALSE
  /\ UNCHANGED <<call, asked, result, world, correction>>

Reprogram ==
  /\ call = NoCall /\ world < MaxWorlds /\ world' = world + 1
  /\ UNCHANGED <<connected, call, asked, result, correction>>

Next ==
  \/ Connect \/ Disconnect \/ Correct \/ Reprogram
  \/ \E request \in Requests : Request(request)
  \/ Answer \/ Refuse \/ Fail

Spec == Init /\ [][Next]_vars
=============================================================================
