------------------------------ MODULE LanRack -------------------------------
(* The networked rack: lan_drivers.py over the SCPI emulator and the UDP     *)
(* device, all on one SimulatedBench.  A generator call is a program of SCPI *)
(* commands that the generator session's own server thread executes one by   *)
(* one, some time after they were written; the oscilloscope and the device   *)
(* are other sessions, ordered with it by nothing but sync().                *)
(*                                                                           *)
(* Beside the rack runs its twin: the bench the same calls would have left   *)
(* behind through the in-process drivers.  "Both reports come out identical" *)
(* is then a relation between the two.                                       *)
EXTENDS BenchState, Sequences

CONSTANTS
  NoChannel,       \* a channel number the bench does not have
  Detectors,       \* the traces the oscilloscope can be asked for
  NoDetector,      \* a name it does not have
  StrayReads,      \* whether a late duplicate of a relay request may arrive
  Quantities,      \* what the multimeter can be asked for
  MaxCalls         \* bound of a run

ASSUME LanRackAssumption ==
  /\ NoChannel \notin Channels
  /\ NoDetector \notin Detectors \cup {"nothing", "program", "relays", "meter", "output"}
  /\ Detectors = {"line", "overcurrent", "fast_overcurrent", "harmonic"}
  /\ Quantities \subseteq {"dc_voltage", "line", "current", "harmonic"}
  /\ StrayReads \in BOOLEAN /\ MaxCalls \in Nat

VARIABLES
  bench,        \* the SimulatedBench of the emulator
  inbox,        \* commands written to the generator session, not yet executed
  busy,         \* a call has not returned
  asked,        \* what the call under way, or the last one, is about
  trace,        \* what the scope session's interpreter holds: _trace
  result,       \* what the last call returned or raised
  twin,         \* the in-process bench after the same calls
  twinResult,   \* what the in-process driver would have returned or raised
  stray,        \* the thread of the stray read, and what it has read so far
  torn,         \* the stray read wrote the latch during the last call
  made          \* calls made so far

twins  == <<twin, twinResult>>
thread == <<stray, torn>>
vars   == <<bench, inbox, busy, asked, trace, result, twins, thread, made>>

Verbs == {"FUNC SIN", "FUNC DC", "HARM:CLE", "VOLT", "VOLT:OFFS", "HARM",
          "OUTP", "OUTP:INT", "*OPC?"}

Command(verb, c, value) == [verb |-> verb, channel |-> c, value |-> value]

Callable == Channels \cup {NoChannel}

\* A trace: the line it was taken of, and whether its detector had tripped.
NoTrace == [of |-> NoDetector, tripped |-> FALSE]
Traces  == [of: Detectors, tripped: BOOLEAN] \cup {NoTrace}

Raises(what) == [raises |-> what]
Gives(value) == [raises |-> "None", value |-> value]
Results ==
  [raises: {"None", "KeyError", "ValueError", "TimeoutError"}]
    \cup [raises: {"None"}, value: Traces \cup [Detectors -> BOOLEAN]
                                    \cup [measured: Int] \cup [enabled: BOOLEAN]]

Asks == {"nothing", "program", "relays", "meter", "output"} \cup Detectors \cup {NoDetector}

\* The thread reads one thing after the other; what it has not read is FALSE.
Away   == [at |-> "away", ac |-> FALSE, source |-> "none",
           in |-> FALSE, hold |-> FALSE, latched |-> FALSE]
Gone   == [Away EXCEPT !.at = "gone"]
Strays ==
  [at: {"away", "kind", "level", "latch", "write", "gone"}, ac: BOOLEAN,
   source: {"none", "rms", "offset", "amplitude"},
   in: BOOLEAN, hold: BOOLEAN, latched: BOOLEAN]

TypeOK ==
  /\ {bench, twin} \subseteq SimulatedBench
  /\ \A i \in DOMAIN inbox : inbox[i].verb \in Verbs /\ inbox[i].channel \in Callable
  /\ busy \in BOOLEAN /\ asked \in Asks
  /\ stray \in Strays /\ torn \in BOOLEAN
  /\ trace \in Traces
  /\ result \in Results /\ twinResult \in Results
  /\ made \in 0..MaxCalls

\* The emulator outlives a campaign, and one that raised leaves outputs on.
Init ==
  /\ \E on \in BOOLEAN : bench = SetOutput(InitBench, VoltageChannel, on)
  /\ twin = bench
  /\ inbox = <<>> /\ busy = FALSE /\ asked = "nothing" /\ trace = NoTrace
  /\ stray = Away /\ torn = FALSE
  /\ result = Raises("None") /\ twinResult = Raises("None")
  /\ made = 0

-----------------------------------------------------------------------------
(* The emulator's side of the generator session.                             *)

\* ScpiInterpreter.execute: a KeyError or ValueError of the bench only queues
\* an error, and the client hears nothing of it.
Apply(b, cmd) ==
  LET c == cmd.channel
      state == b.channels[c]
  IN IF cmd.verb = "*OPC?" \/ c \notin Channels THEN b
     ELSE CASE cmd.verb = "FUNC SIN" -> ConfigureSine(b, c, state.amplitude, state.offset)
            [] cmd.verb = "FUNC DC" -> ConfigureDc(b, c, state.amplitude)
            [] cmd.verb = "HARM:CLE" -> ClearHarmonics(b, c)
            [] cmd.verb = "VOLT" -> SetAmplitude(b, c, cmd.value)
            [] cmd.verb = "VOLT:OFFS" -> SetOffset(b, c, cmd.value)
            [] cmd.verb = "HARM" -> AddHarmonic(b, c, cmd.value[1], cmd.value[2])
            [] cmd.verb = "OUTP" -> SetOutput(b, c, cmd.value)
            [] cmd.verb = "OUTP:INT" -> IF cmd.value < 0 THEN b
                                        ELSE InterruptOutput(b, c, cmd.value)

\* A mutant: an exception of the bench ends the handler thread.
ServerExecutes_DiesOnError ==
  /\ inbox # <<>>
  /\ Head(inbox).channel \in Channels \/ Head(inbox).verb = "*OPC?"
  /\ bench' = Apply(bench, Head(inbox))
  /\ inbox' = Tail(inbox)
  /\ UNCHANGED <<busy, asked, trace, result, twins, thread, made>>

\* The thread of a stray read that is adding up harmonics when one is added
\* gets a RuntimeError that nothing catches, and is gone.
ServerExecutes ==
  /\ inbox # <<>>
  /\ bench' = Apply(bench, Head(inbox))
  /\ inbox' = Tail(inbox)
  /\ \/ UNCHANGED stray
     \/ Head(inbox).verb = "HARM" /\ stray.source = "rms" /\ stray.at = "level"
        /\ stray' = Gone
  /\ UNCHANGED <<busy, asked, trace, result, twins, torn, made>>

-----------------------------------------------------------------------------
(* The generator driver.  FREQ is left out with the frequency.               *)

\* A mutant: no *OPC? after the last command.
Sync_Dropped == <<>>

Sync == <<Command("*OPC?", NoChannel, 0)>>

\* A mutant: the offset is not sent.
SineProgram_NoOffset(c, amplitude, offset) ==
  <<Command("FUNC SIN", c, 0), Command("HARM:CLE", c, 0),
    Command("VOLT", c, amplitude)>> \o Sync

SineProgram(c, amplitude, offset) ==
  <<Command("FUNC SIN", c, 0), Command("HARM:CLE", c, 0),
    Command("VOLT", c, amplitude), Command("VOLT:OFFS", c, offset)>> \o Sync

DcProgram(c, level) ==
  <<Command("FUNC DC", c, 0), Command("HARM:CLE", c, 0), Command("VOLT", c, level)>>
    \o Sync

HarmonicProgram(c, order, level) == <<Command("HARM", c, <<order, level>>)>> \o Sync
\* A mutant: channels counted from zero on the wire.
OutputProgram_FromZero(c, on) == <<Command("OUTP", c - 1, on)>> \o Sync

OutputProgram(c, on)    == <<Command("OUTP", c, on)>> \o Sync
InterruptProgram(c, ms) == <<Command("OUTP:INT", c, ms)>> \o Sync

CanCall == ~busy /\ made < MaxCalls

\* The call writes its program.  The twin makes it in one step, to `effect`.
Generate(program, refusal, effect) ==
  /\ CanCall
  /\ made' = made + 1
  /\ inbox' = inbox \o program
  /\ busy' = TRUE /\ asked' = "program" /\ torn' = FALSE
  /\ twinResult' = Raises(refusal)
  /\ twin' = IF refusal = "None" THEN effect ELSE twin
  /\ UNCHANGED <<bench, trace, result, stray>>

KnownChannel(c) == IF c \in Channels THEN "None" ELSE "KeyError"

ConfigureSineCall(c, amplitude, offset) ==
  Generate(SineProgram(c, amplitude, offset), KnownChannel(c),
           ConfigureSine(twin, c, amplitude, offset))

ConfigureDcCall(c, level) ==
  Generate(DcProgram(c, level), KnownChannel(c), ConfigureDc(twin, c, level))

AddHarmonicCall(c, order, level) ==
  Generate(HarmonicProgram(c, order, level), KnownChannel(c),
           AddHarmonic(twin, c, order, level))

OutputCall(c, on) ==
  Generate(OutputProgram(c, on), KnownChannel(c), SetOutput(twin, c, on))

InterruptCall(c, ms) ==
  Generate(InterruptProgram(c, ms),
           IF ms < 0 THEN "ValueError" ELSE KnownChannel(c),
           InterruptOutput(twin, c, ms))

\* sync() returns with the answer to *OPC?; without one nothing is waited for.
GenerateReturns ==
  /\ busy /\ asked = "program"
  /\ \A i \in DOMAIN inbox : inbox[i].verb # "*OPC?"
  /\ busy' = FALSE
  /\ result' = Raises("None")
  /\ UNCHANGED <<bench, inbox, asked, trace, twins, thread, made>>

-----------------------------------------------------------------------------
(* The other instruments.  Each of these calls waits for its own answer, and *)
(* reads nothing that this engine could be changing meanwhile.               *)

Asked(what) ==
  /\ CanCall
  /\ made' = made + 1
  /\ asked' = what /\ torn' = FALSE
  /\ UNCHANGED <<inbox, stray>>

\* line_detected: _settle_line here, and `return self._line_latched` as the
\* call returns.  A DIG:REL the bench refuses leaves the previous trace in
\* place, and that is what WAV:DATA? fetches.
Look(what) ==
  /\ Asked(what)
  /\ busy' = TRUE
  /\ IF what = NoDetector
     THEN /\ twinResult' = Raises("KeyError")
          /\ UNCHANGED <<bench, twin>>
     ELSE /\ bench' = SettleLine(bench)
          /\ twin' = SettleLine(twin)
          /\ twinResult' = Gives(IF what = "relays" THEN RelayStates(twin')
                                 ELSE [of |-> what, tripped |-> RelayStates(twin')[what]])
  /\ UNCHANGED <<trace, result>>

\* get_relay_states over UDP, capture_relay on the session of the scope.
GetRelayStates    == Look("relays")
CaptureRelay(det) == Look(det)

LookReturns ==
  /\ busy /\ asked \in {"relays", NoDetector} \cup Detectors
  /\ busy' = FALSE
  /\ trace' = IF asked \in Detectors
              THEN [of |-> asked, tripped |-> RelayStates(bench)[asked]] ELSE trace
  /\ result' = Gives(IF asked = "relays" THEN RelayStates(bench) ELSE trace')
  /\ UNCHANGED <<bench, inbox, asked, twins, thread, made>>

\* The multimeter only looks: no reading of it settles the latch.
Measure(quantity) ==
  /\ Asked("meter")
  /\ result' = Gives([measured |-> Measured(bench, quantity)])
  /\ twinResult' = Gives([measured |-> Measured(twin, quantity)])
  /\ UNCHANGED <<bench, busy, trace, twin>>

\* OUTP?: of a channel it does not know the emulator says nothing, and the
\* query times out.
OutputState(c) ==
  /\ Asked("output")
  /\ result' = IF c \in Channels THEN Gives([enabled |-> bench.channels[c].enabled])
               ELSE Raises("TimeoutError")
  /\ twinResult' = IF c \in Channels THEN Gives([enabled |-> twin.channels[c].enabled])
                   ELSE Raises("KeyError")
  /\ UNCHANGED <<bench, busy, trace, twin>>

-----------------------------------------------------------------------------
(* A duplicate of a relay request, late in the network, runs in a thread of  *)
(* its own, without any lock: whatever it reads may be changed by a command  *)
(* before it reads on, and it writes the latch when it gets there.           *)
Line == bench.channels[VoltageChannel]

Reads(record) == stray' = record /\ UNCHANGED <<busy, asked, inbox, trace, result, twins, made>>

\* line_kv: is_ac() first ...
StrayReadsAc ==
  /\ StrayReads /\ stray.at = "away"
  /\ Reads([stray EXCEPT !.at = "kind", !.ac = LineIsAc(bench)])
  /\ UNCHANGED <<bench, torn>>

\* ... then rms_v() or dc_v(), each of which looks at the channel again ...
StrayReadsKind ==
  /\ stray.at = "kind"
  /\ Reads([stray EXCEPT
       !.at = "level",
       !.source = IF stray.ac THEN (IF IsSine(Line) THEN "rms" ELSE "none")
                  ELSE IF ~Line.enabled THEN "none"
                  ELSE IF Line.waveform = "SIN" THEN "offset" ELSE "amplitude"])
  /\ UNCHANGED <<bench, torn>>

\* ... and only then takes the numbers.
StrayWithin(low, high) ==
  LET gain == VoltsToKilovolts IN
  CASE stray.source = "none" -> 0 \in low .. high
    [] stray.source = "offset" -> Line.offset * gain \in low .. high
    [] stray.source = "amplitude" -> Line.amplitude * gain \in low .. high
    [] stray.source = "rms" ->
         (Line.amplitude * Line.amplitude + SumSquares(Line.harmonics)) * gain * gain
           \in (8 * low * low) .. (8 * high * high)

StrayReadsLevel ==
  /\ stray.at = "level"
  /\ Reads([stray EXCEPT !.at = "latch", !.in = StrayWithin(LineInLow, LineInHigh),
                         !.hold = StrayWithin(LineOutLow, LineOutHigh)])
  /\ UNCHANGED <<bench, torn>>

\* _settle_line: was, then the drop-out, then the decision.
StrayReadsLatch ==
  /\ stray.at = "latch"
  /\ Reads([stray EXCEPT !.at = "write",
                         !.latched = /\ ~bench.hole_dropped
                                     /\ IF bench.line_latched THEN stray.hold ELSE stray.in])
  /\ UNCHANGED <<bench, torn>>

StrayWrites ==
  /\ stray.at = "write"
  /\ bench' = [bench EXCEPT !.line_latched = stray.latched]
  /\ torn' = busy
  /\ Reads(Gone)

\* What a refused call carries makes no difference.
Next ==
  \/ \E c \in Channels :
       \/ \E amplitude \in Levels, offset \in Offsets :
            ConfigureSineCall(c, amplitude, offset)
       \/ \E level \in Levels : ConfigureDcCall(c, level)
       \/ \E order \in Orders, level \in HarmonicLevels : AddHarmonicCall(c, order, level)
       \/ \E on \in BOOLEAN : OutputCall(c, on)
       \/ \E ms \in Durations : InterruptCall(c, ms)
  \/ ConfigureSineCall(NoChannel, 0, 0) \/ ConfigureDcCall(NoChannel, 0)
  \/ OutputCall(NoChannel, TRUE)
  \/ InterruptCall(NoChannel, LineHoleRide)
  \/ \E order \in Orders : AddHarmonicCall(NoChannel, order, 0)
  \/ GenerateReturns
  \/ ServerExecutes
  \/ GetRelayStates
  \/ \E det \in Detectors \cup {NoDetector} : CaptureRelay(det)
  \/ LookReturns
  \/ \E quantity \in Quantities : Measure(quantity)
  \/ \E c \in Callable : OutputState(c)
  \/ StrayReadsAc \/ StrayReadsKind \/ StrayReadsLevel \/ StrayReadsLatch \/ StrayWrites

Spec == Init /\ [][Next]_vars

\* The handler threads of the sessions are scheduled.
FairSpec ==
  /\ Spec
  /\ WF_vars(ServerExecutes) /\ WF_vars(GenerateReturns) /\ WF_vars(LookReturns)

-----------------------------------------------------------------------------
(* Properties.                                                               *)

\* When no generator call is under way the emulator's bench is, field by field,
\* what the in-process drivers would have made of it: five commands that each
\* pass through a state of their own add up to one configure_sine, and nothing
\* is still to be executed.  A read that strays in between two commands may see
\* such a state and settle the latch on it; it moves nothing else.
Strayed == stray.at # "away"

TransportParity ==
  ~busy => bench = IF Strayed THEN [twin EXCEPT !.line_latched = bench.line_latched]
                   ELSE twin

\* What a call returns over the network is what it returns in process, for the
\* channels and the traces that exist - unless a stray read moved the latch,
\* after which the line detector may tell another story.
SameReadings ==
  ~busy /\ twinResult.raises = "None" =>
    result = twinResult \/ (Strayed /\ asked \in {"relays", "line"})

\* The harm of a stray read heals: however it was cut up by the commands of
\* the generator and whatever it wrote, a look at the line afterwards says what
\* the in-process device says, unless the voltage is in the dead band, where
\* the device goes by its memory - or the write fell into the very look.
StrayHeals ==
  ~busy /\ asked \in {"relays", "line"} /\ ~torn =>
    LET line(r) == IF asked = "relays" THEN r.value.line ELSE r.value.tripped
    IN line(result) = line(twinResult) \/ (InHold(twin) /\ ~InPickUp(twin))

\* Every call returns, whether or not the bench refused it and a thread died.
CallsReturn == busy ~> ~busy

\* "Layer 2 cannot tell them apart": a call that raises in process does not
\* return as if nothing had happened.
SameRefusals == ~busy => (result.raises = "None") = (twinResult.raises = "None")
=============================================================================
