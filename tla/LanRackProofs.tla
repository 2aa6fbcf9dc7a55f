--------------------------- MODULE LanRackProofs ----------------------------
(* Theorems about LanRack: the networked rack stays beside its in-process    *)
(* twin, for all numbers of channels, levels, offsets and windows.  What the *)
(* rack owes is what the commands still in the inbox will make of the bench. *)
EXTENDS LanRack, SequenceTheorems, TLAPS

-----------------------------------------------------------------------------
(* The inductive invariant.                                                  *)

Latched(b, latched) == [b EXCEPT !.line_latched = latched]

\* What the commands of s, at most five, will have made of bench b.
Do(b, s, i) == IF i \in 1..Len(s) THEN Apply(b, s[i]) ELSE b

Outcome(b, s) == Do(Do(Do(Do(Do(b, s, 1), s, 2), s, 3), s, 4), s, 5)

Commands ==
  [verb: {"FUNC SIN", "FUNC DC", "HARM:CLE", "*OPC?"}, channel: Callable, value: {0}]
    \cup [verb: {"VOLT"}, channel: Callable, value: Levels]
    \cup [verb: {"VOLT:OFFS"}, channel: Callable, value: Offsets]
    \cup [verb: {"HARM"}, channel: Callable, value: Orders \X HarmonicLevels]
    \cup [verb: {"OUTP"}, channel: Callable, value: BOOLEAN]
    \cup [verb: {"OUTP:INT"}, channel: Callable, value: Int]

\* Only a generator call has commands to execute, and waits for the last one.
InboxOK ==
  /\ inbox \in Seq(Commands) /\ Len(inbox) =< 5
  /\ inbox # <<>> => /\ busy /\ asked = "program"
                     /\ inbox[Len(inbox)].verb = "*OPC?"

\* The twin is where the bench is going; only a stray read comes between them.
OnCourse ==
  /\ Outcome(bench, inbox) = Latched(twin, bench.line_latched)
  /\ ~Strayed => bench.line_latched = twin.line_latched

DeadBand(b) == InHold(b) /\ ~InPickUp(b)

\* What the in-process driver returns for the call under way.
TwinAnswers ==
  busy =>
    /\ asked \in {"program", "relays", NoDetector} \cup Detectors
    /\ asked = "program" =>
         \E refusal \in {"None", "KeyError", "ValueError"} : twinResult = Raises(refusal)
    /\ asked = NoDetector => twinResult = Raises("KeyError")
    /\ asked = "relays" => twinResult = Gives(RelayStates(twin))
    /\ asked \in Detectors =>
         twinResult = Gives([of |-> asked, tripped |-> RelayStates(twin)[asked]])

\* A look that no stray write has fallen into has settled both lines alike.
LookSettles ==
  /\ torn => stray.at = "gone"
  /\ busy /\ asked \in {"relays", "line"} /\ ~torn =>
       bench.line_latched = twin.line_latched \/ DeadBand(twin)

Inv ==
  /\ TypeOK /\ InboxOK /\ OnCourse /\ TwinAnswers /\ LookSettles
  /\ SameReadings /\ StrayHeals

-----------------------------------------------------------------------------
(* One command and the bench.                                                *)

LEMMA LatchedFields ==
  ASSUME NEW b \in SimulatedBench, NEW l \in BOOLEAN
  PROVE  /\ Latched(b, l) \in SimulatedBench
         /\ Latched(b, l).channels = b.channels
         /\ Latched(b, l).hole_dropped = b.hole_dropped
         /\ Latched(b, l).correction = b.correction
         /\ Latched(b, l).line_latched = l
         /\ Latched(b, b.line_latched) = b
         /\ \A m : Latched(Latched(b, l), m) = Latched(b, m)
  BY DEF Latched, SimulatedBench

\* A bench with one channel programmed: what every generator operation makes.
Programmed(b, c, ch, hole) ==
  [channels |-> [b.channels EXCEPT ![c] = ch], line_latched |-> b.line_latched,
   hole_dropped |-> hole, correction |-> b.correction]

Channel(on, waveform, amplitude, offset, harmonics) ==
  [enabled |-> on, waveform |-> waveform, amplitude |-> amplitude,
   offset |-> offset, harmonics |-> harmonics]

LEMMA ProgrammedFields ==
  ASSUME NEW b \in SimulatedBench, NEW c \in Channels, NEW ch \in ChannelState,
         NEW hole \in BOOLEAN
  PROVE  /\ Programmed(b, c, ch, hole) \in SimulatedBench
         /\ Programmed(b, c, ch, hole).channels[c] = ch
         /\ Programmed(b, c, ch, hole).hole_dropped = hole
         /\ Programmed(b, c, ch, hole).line_latched = b.line_latched
         /\ \A x, h : Programmed(Programmed(b, c, ch, hole), c, x, h) = Programmed(b, c, x, h)
         /\ \A l \in BOOLEAN : Programmed(Latched(b, l), c, ch, hole)
                                  = Latched(Programmed(b, c, ch, hole), l)
  <1> DEFINE P == Programmed(b, c, ch, hole)
  <1>1. b.channels \in [Channels -> ChannelState] /\ b.line_latched \in BOOLEAN
        /\ b.correction \in Corrections
    BY DEF SimulatedBench
  <1>2. [b.channels EXCEPT ![c] = ch] \in [Channels -> ChannelState]
    BY <1>1
  <1>3. P \in SimulatedBench
    BY <1>1, <1>2 DEF Programmed, SimulatedBench
  <1>4. P.channels[c] = ch /\ P.hole_dropped = hole /\ P.line_latched = b.line_latched
    BY <1>1 DEF Programmed
  <1>5. \A x : [[b.channels EXCEPT ![c] = ch] EXCEPT ![c] = x] = [b.channels EXCEPT ![c] = x]
    BY <1>1
  <1>6. \A x, h : Programmed(P, c, x, h) = Programmed(b, c, x, h)
    BY <1>5 DEF Programmed
  <1>7. \A l \in BOOLEAN : Programmed(Latched(b, l), c, ch, hole) = Latched(P, l)
    BY DEF Programmed, Latched, SimulatedBench
  <1> QED BY <1>3, <1>4, <1>6, <1>7

LEMMA SilenceType == Silence \in [Orders -> HarmonicLevels]
  BY BenchAssumption DEF Silence

\* The operations of BenchState, channel by channel.
\* The three ways BenchState writes to a bench.
WithChannel(b, c, x)         == [b EXCEPT !.channels[c] = x]
WithChannelHole(b, c, x, h)  == [b EXCEPT !.channels[c] = x, !.hole_dropped = h]
WithHole(b, h)               == [b EXCEPT !.hole_dropped = h]

LEMMA ExceptShapes ==
  ASSUME NEW b \in SimulatedBench, NEW c \in Channels, NEW x, NEW h
  PROVE  /\ WithChannel(b, c, x) = Programmed(b, c, x, b.hole_dropped)
         /\ WithChannelHole(b, c, x, h) = Programmed(b, c, x, h)
         /\ WithHole(b, h) = [channels |-> b.channels, line_latched |-> b.line_latched,
                              hole_dropped |-> h, correction |-> b.correction]
  <1> DEFINE v == [b.channels EXCEPT ![c] = x]
             w == [b EXCEPT !.channels = v]
  <1>1. b = [channels |-> b.channels, line_latched |-> b.line_latched,
             hole_dropped |-> b.hole_dropped, correction |-> b.correction]
    BY DEF SimulatedBench
  <1>2. WithChannel(b, c, x) = w
    BY DEF WithChannel
  <1>3. WithChannelHole(b, c, x, h) = [w EXCEPT !.hole_dropped = h]
    BY DEF WithChannelHole
  <1>4. \A g : Programmed(b, c, x, g)
                = [channels |-> v, line_latched |-> b.line_latched,
                   hole_dropped |-> g, correction |-> b.correction]
    BY DEF Programmed
  <1> HIDE DEF v
  <1>5. w = [channels |-> v, line_latched |-> b.line_latched,
             hole_dropped |-> b.hole_dropped, correction |-> b.correction]
    BY <1>1
  <1> HIDE DEF w
  <1>6. [w EXCEPT !.hole_dropped = h]
          = [channels |-> v, line_latched |-> b.line_latched,
             hole_dropped |-> h, correction |-> b.correction]
    BY <1>5
  <1>7. WithHole(b, h) = [channels |-> b.channels, line_latched |-> b.line_latched,
                          hole_dropped |-> h, correction |-> b.correction]
    BY <1>1 DEF WithHole
  <1> QED BY <1>2, <1>3, <1>4, <1>5, <1>6, <1>7, Zenon

LEMMA ChannelShapes ==
  ASSUME NEW ch \in ChannelState
  PROVE  /\ \A on : [ch EXCEPT !.enabled = on]
                    = Channel(on, ch.waveform, ch.amplitude, ch.offset, ch.harmonics)
         /\ \A a : [ch EXCEPT !.amplitude = a]
                    = Channel(ch.enabled, ch.waveform, a, ch.offset, ch.harmonics)
         /\ \A o : [ch EXCEPT !.offset = o]
                    = Channel(ch.enabled, ch.waveform, ch.amplitude, o, ch.harmonics)
         /\ \A h : [ch EXCEPT !.harmonics = h]
                    = Channel(ch.enabled, ch.waveform, ch.amplitude, ch.offset, h)
  BY DEF Channel, ChannelState

LEMMA OperationShapes ==
  ASSUME NEW b \in SimulatedBench, NEW c \in Channels
  PROVE  LET ch == b.channels[c]
             hole == b.hole_dropped
         IN /\ \A a, o : ConfigureSine(b, c, a, o)
                           = Programmed(b, c, Channel(ch.enabled, "SIN", a, o, Silence), FALSE)
            /\ \A a : ConfigureDc(b, c, a)
                 = Programmed(b, c, Channel(ch.enabled, "DC", a, ch.offset, Silence), FALSE)
            /\ ClearHarmonics(b, c)
                 = Programmed(b, c, Channel(ch.enabled, ch.waveform, ch.amplitude,
                                            ch.offset, Silence), hole)
            /\ \A a : SetAmplitude(b, c, a)
                 = Programmed(b, c, Channel(ch.enabled, ch.waveform, a, ch.offset,
                                            ch.harmonics), hole)
            /\ \A o : SetOffset(b, c, o)
                 = Programmed(b, c, Channel(ch.enabled, ch.waveform, ch.amplitude, o,
                                            ch.harmonics), hole)
            /\ \A n, h : AddHarmonic(b, c, n, h)
                 = Programmed(b, c, Channel(ch.enabled, ch.waveform, ch.amplitude, ch.offset,
                                            [ch.harmonics EXCEPT ![n] = h]), hole)
            /\ \A on : SetOutput(b, c, on)
                 = Programmed(b, c, Channel(on, ch.waveform, ch.amplitude, ch.offset,
                                            ch.harmonics), FALSE)
            /\ \A ms : InterruptOutput(b, c, ms)
                 = IF ms > LineHoleRide THEN Programmed(b, c, ch, TRUE)
                                        ELSE b
  <1> DEFINE ch == b.channels[c]
  <1>1. b.channels \in [Channels -> ChannelState] /\ ch \in ChannelState
    BY DEF SimulatedBench
  <1>2. ASSUME NEW x, NEW h
        PROVE  /\ WithChannel(b, c, x) = Programmed(b, c, x, b.hole_dropped)
               /\ WithChannelHole(b, c, x, h) = Programmed(b, c, x, h)
               /\ WithHole(b, h) = [channels |-> b.channels, line_latched |-> b.line_latched,
                                    hole_dropped |-> h, correction |-> b.correction]
    BY ExceptShapes
  <1>3. ASSUME NEW a, NEW o
        PROVE  ConfigureSine(b, c, a, o)
                 = Programmed(b, c, Channel(ch.enabled, "SIN", a, o, Silence), FALSE)
    <2>1. ConfigureSine(b, c, a, o)
            = WithChannelHole(b, c, Channel(ch.enabled, "SIN", a, o, Silence), FALSE)
      BY <1>1 DEF ConfigureSine, Channel, SimulatedBench, WithChannelHole
    <2> QED BY <2>1, <1>2, Zenon
  <1>4. ASSUME NEW a
        PROVE  ConfigureDc(b, c, a)
                 = Programmed(b, c, Channel(ch.enabled, "DC", a, ch.offset, Silence), FALSE)
    <2>1. ConfigureDc(b, c, a)
            = WithChannelHole(b, c, Channel(ch.enabled, "DC", a, ch.offset, Silence), FALSE)
      BY <1>1 DEF ConfigureDc, Channel, SimulatedBench, WithChannelHole
    <2> QED BY <2>1, <1>2, Zenon
  <1>5. ClearHarmonics(b, c)
          = Programmed(b, c, Channel(ch.enabled, ch.waveform, ch.amplitude,
                                     ch.offset, Silence), b.hole_dropped)
    <2>1. ClearHarmonics(b, c) = WithChannel(b, c, [ch EXCEPT !.harmonics = Silence])
      BY <1>1 DEF ClearHarmonics, SimulatedBench, WithChannel
    <2> QED BY <2>1, <1>1, <1>2, ChannelShapes, Zenon
  <1>6. ASSUME NEW a
        PROVE  SetAmplitude(b, c, a)
                 = Programmed(b, c, Channel(ch.enabled, ch.waveform, a, ch.offset,
                                            ch.harmonics), b.hole_dropped)
    <2>1. SetAmplitude(b, c, a) = WithChannel(b, c, [ch EXCEPT !.amplitude = a])
      BY <1>1 DEF SetAmplitude, SimulatedBench, WithChannel
    <2> QED BY <2>1, <1>1, <1>2, ChannelShapes, Zenon
  <1>7. ASSUME NEW o
        PROVE  SetOffset(b, c, o)
                 = Programmed(b, c, Channel(ch.enabled, ch.waveform, ch.amplitude, o,
                                            ch.harmonics), b.hole_dropped)
    <2>1. SetOffset(b, c, o) = WithChannel(b, c, [ch EXCEPT !.offset = o])
      BY <1>1 DEF SetOffset, SimulatedBench, WithChannel
    <2> QED BY <2>1, <1>1, <1>2, ChannelShapes, Zenon
  <1>8. ASSUME NEW n, NEW h
        PROVE  AddHarmonic(b, c, n, h)
                 = Programmed(b, c, Channel(ch.enabled, ch.waveform, ch.amplitude, ch.offset,
                                            [ch.harmonics EXCEPT ![n] = h]), b.hole_dropped)
    <2>1. AddHarmonic(b, c, n, h)
            = WithChannel(b, c, [ch EXCEPT !.harmonics = [ch.harmonics EXCEPT ![n] = h]])
      BY <1>1 DEF AddHarmonic, SimulatedBench, ChannelState, WithChannel
    <2> QED BY <2>1, <1>1, <1>2, ChannelShapes, Zenon
  <1>9. ASSUME NEW on
        PROVE  SetOutput(b, c, on)
                 = Programmed(b, c, Channel(on, ch.waveform, ch.amplitude, ch.offset,
                                            ch.harmonics), FALSE)
    <2>1. SetOutput(b, c, on) = WithChannelHole(b, c, [ch EXCEPT !.enabled = on], FALSE)
      BY <1>1 DEF SetOutput, SimulatedBench, WithChannelHole
    <2> QED BY <2>1, <1>1, <1>2, ChannelShapes, Zenon
  <1>10. ASSUME NEW ms
         PROVE  InterruptOutput(b, c, ms)
                  = IF ms > LineHoleRide THEN Programmed(b, c, ch, TRUE) ELSE b
    <2>1. WithHole(b, TRUE) = Programmed(b, c, ch, TRUE)
      <3>1. [b.channels EXCEPT ![c] = ch] = b.channels
        BY <1>1
      <3>2. WithHole(b, TRUE)
              = [channels |-> b.channels, line_latched |-> b.line_latched,
                 hole_dropped |-> TRUE, correction |-> b.correction]
        BY <1>2, Zenon
      <3> HIDE DEF ch
      <3> QED BY <3>1, <3>2 DEF Programmed
    <2> QED BY <2>1 DEF InterruptOutput, WithHole
  <1> HIDE DEF ch
  <1> QED BY <1>3, <1>4, <1>5, <1>6, <1>7, <1>8, <1>9, <1>10 DEF ch

LEMMA ChannelType ==
  ASSUME NEW on \in BOOLEAN, NEW w \in {"DC", "SIN"}, NEW a \in Levels, NEW o \in Offsets,
         NEW h \in [Orders -> HarmonicLevels]
  PROVE  LET ch == Channel(on, w, a, o, h)
         IN /\ ch \in ChannelState
            /\ ch.enabled = on /\ ch.waveform = w /\ ch.amplitude = a
            /\ ch.offset = o /\ ch.harmonics = h
  BY DEF Channel, ChannelState

LEMMA CommandTypes ==
  ASSUME NEW cmd \in Commands
  PROVE  /\ cmd.verb \in Verbs /\ cmd.channel \in Callable
         /\ cmd.verb = "VOLT" => cmd.value \in Levels
         /\ cmd.verb = "VOLT:OFFS" => cmd.value \in Offsets
         /\ cmd.verb = "HARM" => cmd.value[1] \in Orders /\ cmd.value[2] \in HarmonicLevels
         /\ cmd.verb = "OUTP" => cmd.value \in BOOLEAN
         /\ cmd.verb = "OUTP:INT" => cmd.value \in Int
  BY DEF Commands, Verbs

\* What a command makes of the channel it names, and of a drop-out.
Reprogrammed(ch, cmd) ==
  CASE cmd.verb = "FUNC SIN" -> Channel(ch.enabled, "SIN", ch.amplitude, ch.offset, Silence)
    [] cmd.verb = "FUNC DC" -> Channel(ch.enabled, "DC", ch.amplitude, ch.offset, Silence)
    [] cmd.verb = "HARM:CLE" ->
         Channel(ch.enabled, ch.waveform, ch.amplitude, ch.offset, Silence)
    [] cmd.verb = "VOLT" ->
         Channel(ch.enabled, ch.waveform, cmd.value, ch.offset, ch.harmonics)
    [] cmd.verb = "VOLT:OFFS" ->
         Channel(ch.enabled, ch.waveform, ch.amplitude, cmd.value, ch.harmonics)
    [] cmd.verb = "HARM" ->
         Channel(ch.enabled, ch.waveform, ch.amplitude, ch.offset,
                 [ch.harmonics EXCEPT ![cmd.value[1]] = cmd.value[2]])
    [] cmd.verb = "OUTP" ->
         Channel(cmd.value, ch.waveform, ch.amplitude, ch.offset, ch.harmonics)
    [] cmd.verb = "OUTP:INT" -> ch

Ends(cmd)  == cmd.verb \in {"FUNC SIN", "FUNC DC", "OUTP"}
Drops(cmd) == cmd.verb = "OUTP:INT" /\ cmd.value >= 0 /\ cmd.value > LineHoleRide

HoleAfter(hole, cmd) == ~Ends(cmd) /\ (hole \/ Drops(cmd))

Ignored(cmd) == cmd.verb = "*OPC?" \/ cmd.channel \notin Channels

LEMMA ReprogrammedType ==
  ASSUME NEW ch \in ChannelState, NEW cmd \in Commands, ~Ignored(cmd)
  PROVE  Reprogrammed(ch, cmd) \in ChannelState
  <1>1. /\ ch.enabled \in BOOLEAN /\ ch.waveform \in {"DC", "SIN"} /\ ch.amplitude \in Levels
        /\ ch.offset \in Offsets /\ ch.harmonics \in [Orders -> HarmonicLevels]
    BY DEF ChannelState
  <1>2. \A on \in BOOLEAN, w \in {"DC", "SIN"}, a \in Levels, o \in Offsets,
           h \in [Orders -> HarmonicLevels] : Channel(on, w, a, o, h) \in ChannelState
    BY ChannelType
  <1>3. cmd.verb = "HARM" =>
          [ch.harmonics EXCEPT ![cmd.value[1]] = cmd.value[2]] \in [Orders -> HarmonicLevels]
    BY <1>1, CommandTypes
  <1>4. CASE cmd.verb = "FUNC SIN"
    BY <1>1, <1>2, <1>4, SilenceType DEF Reprogrammed
  <1>5. CASE cmd.verb = "FUNC DC"
    BY <1>1, <1>2, <1>5, SilenceType DEF Reprogrammed
  <1>6. CASE cmd.verb = "HARM:CLE"
    BY <1>1, <1>2, <1>6, SilenceType DEF Reprogrammed
  <1>7. CASE cmd.verb = "VOLT"
    BY <1>1, <1>2, <1>7, CommandTypes DEF Reprogrammed
  <1>8. CASE cmd.verb = "VOLT:OFFS"
    BY <1>1, <1>2, <1>8, CommandTypes DEF Reprogrammed
  <1>9. CASE cmd.verb = "HARM"
    BY <1>1, <1>2, <1>3, <1>9 DEF Reprogrammed
  <1>10. CASE cmd.verb = "OUTP"
    BY <1>1, <1>2, <1>10, CommandTypes DEF Reprogrammed
  <1>11. CASE cmd.verb = "OUTP:INT"
    BY <1>11 DEF Reprogrammed
  <1> QED
    BY <1>4, <1>5, <1>6, <1>7, <1>8, <1>9, <1>10, <1>11, CommandTypes DEF Verbs, Ignored

\* A command touches one channel and the drop-out, and never the latch.
LEMMA ApplyShape ==
  ASSUME NEW b \in SimulatedBench, NEW cmd \in Commands
  PROVE  Apply(b, cmd) = IF Ignored(cmd) THEN b
                         ELSE Programmed(b, cmd.channel,
                                         Reprogrammed(b.channels[cmd.channel], cmd),
                                         HoleAfter(b.hole_dropped, cmd))
  <1> DEFINE c == cmd.channel
             ch == b.channels[c]
             new == Programmed(b, c, Reprogrammed(ch, cmd), HoleAfter(b.hole_dropped, cmd))
  <1>1. CASE Ignored(cmd)
    <2>1. Apply(b, cmd) = b
      BY <1>1 DEF Ignored, Apply
    <2> QED BY <1>1, <2>1, Zenon
  <1>2. CASE ~Ignored(cmd)
    <2>1. c \in Channels /\ cmd.verb # "*OPC?" /\ b.hole_dropped \in BOOLEAN
      BY <1>2 DEF Ignored, SimulatedBench
    <2>2. Programmed(b, c, ch, b.hole_dropped) = b
      BY <2>1 DEF Programmed, SimulatedBench
    <2>2a. \A a, o : ConfigureSine(b, c, a, o)
                      = Programmed(b, c, Channel(ch.enabled, "SIN", a, o, Silence), FALSE)
      BY <2>1, OperationShapes
    <2>2b. \A n, h : AddHarmonic(b, c, n, h)
             = Programmed(b, c, Channel(ch.enabled, ch.waveform, ch.amplitude, ch.offset,
                                        [ch.harmonics EXCEPT ![n] = h]), b.hole_dropped)
      BY <2>1, OperationShapes
    <2>3. CASE cmd.verb = "FUNC SIN"
      <3>1. Apply(b, cmd) = ConfigureSine(b, c, ch.amplitude, ch.offset)
        BY <2>1, <2>3 DEF Apply
      <3>2. HoleAfter(b.hole_dropped, cmd) = FALSE
        BY <2>3 DEF HoleAfter, Ends
      <3>3. Reprogrammed(ch, cmd) = Channel(ch.enabled, "SIN", ch.amplitude, ch.offset, Silence)
        BY <2>3 DEF Reprogrammed
      <3>4. ConfigureSine(b, c, ch.amplitude, ch.offset)
              = Programmed(b, c, Channel(ch.enabled, "SIN", ch.amplitude, ch.offset, Silence), FALSE)
        BY <2>2a, Zenon
      <3> QED BY <1>2, <3>1, <3>2, <3>3, <3>4, Zenon
    <2>4. CASE cmd.verb = "FUNC DC"
      <3>1. Apply(b, cmd) = ConfigureDc(b, c, ch.amplitude)
        BY <2>1, <2>4 DEF Apply
      <3>2. HoleAfter(b.hole_dropped, cmd) = FALSE
        BY <2>4 DEF HoleAfter, Ends
      <3> QED BY <1>2, <2>1, <2>4, <3>1, <3>2, OperationShapes DEF Reprogrammed
    <2>5. CASE cmd.verb = "HARM:CLE"
      <3>1. Apply(b, cmd) = ClearHarmonics(b, c)
        BY <2>1, <2>5 DEF Apply
      <3>2. HoleAfter(b.hole_dropped, cmd) = b.hole_dropped
        BY <2>1, <2>5 DEF HoleAfter, Ends, Drops
      <3> QED BY <1>2, <2>1, <2>5, <3>1, <3>2, OperationShapes DEF Reprogrammed
    <2>6. CASE cmd.verb = "VOLT"
      <3>1. Apply(b, cmd) = SetAmplitude(b, c, cmd.value)
        BY <2>1, <2>6 DEF Apply
      <3>2. HoleAfter(b.hole_dropped, cmd) = b.hole_dropped
        BY <2>1, <2>6 DEF HoleAfter, Ends, Drops
      <3> QED BY <1>2, <2>1, <2>6, <3>1, <3>2, OperationShapes DEF Reprogrammed
    <2>7. CASE cmd.verb = "VOLT:OFFS"
      <3>1. Apply(b, cmd) = SetOffset(b, c, cmd.value)
        BY <2>1, <2>7 DEF Apply
      <3>2. HoleAfter(b.hole_dropped, cmd) = b.hole_dropped
        BY <2>1, <2>7 DEF HoleAfter, Ends, Drops
      <3> QED BY <1>2, <2>1, <2>7, <3>1, <3>2, OperationShapes DEF Reprogrammed
    <2>8. CASE cmd.verb = "HARM"
      <3>1. Apply(b, cmd) = AddHarmonic(b, c, cmd.value[1], cmd.value[2])
        BY <2>1, <2>8 DEF Apply
      <3>2. HoleAfter(b.hole_dropped, cmd) = b.hole_dropped
        BY <2>1, <2>8 DEF HoleAfter, Ends, Drops
      <3>3. Reprogrammed(ch, cmd) = Channel(ch.enabled, ch.waveform, ch.amplitude, ch.offset, [ch.harmonics EXCEPT ![cmd.value[1]] = cmd.value[2]])
        BY <2>8 DEF Reprogrammed
      <3>4. AddHarmonic(b, c, cmd.value[1], cmd.value[2])
              = Programmed(b, c, Channel(ch.enabled, ch.waveform, ch.amplitude, ch.offset, [ch.harmonics EXCEPT ![cmd.value[1]] = cmd.value[2]]), b.hole_dropped)
        BY <2>2b, Zenon
      <3> QED BY <1>2, <3>1, <3>2, <3>3, <3>4, Zenon
    <2>9. CASE cmd.verb = "OUTP"
      <3>1. Apply(b, cmd) = SetOutput(b, c, cmd.value)
        BY <2>1, <2>9 DEF Apply
      <3>2. HoleAfter(b.hole_dropped, cmd) = FALSE
        BY <2>9 DEF HoleAfter, Ends
      <3>3. Reprogrammed(ch, cmd) = Channel(cmd.value, ch.waveform, ch.amplitude, ch.offset, ch.harmonics)
        BY <2>9 DEF Reprogrammed
      <3>4. SetOutput(b, c, cmd.value)
              = Programmed(b, c, Channel(cmd.value, ch.waveform, ch.amplitude, ch.offset, ch.harmonics), FALSE)
        BY <2>1, OperationShapes, Zenon
      <3> QED BY <1>2, <3>1, <3>2, <3>3, <3>4, Zenon
    <2>10. CASE cmd.verb = "OUTP:INT"
      <3>1. Apply(b, cmd) = IF cmd.value < 0 THEN b ELSE InterruptOutput(b, c, cmd.value)
        BY <2>1, <2>10 DEF Apply
      <3>2. cmd.value \in Int
        BY <2>10, CommandTypes
      <3>3. InterruptOutput(b, c, cmd.value)
              = IF cmd.value > LineHoleRide THEN Programmed(b, c, ch, TRUE) ELSE b
        BY <2>1, OperationShapes
      <3>4. Reprogrammed(ch, cmd) = ch
        BY <2>10 DEF Reprogrammed
      <3>5. CASE Drops(cmd)
        <4>1. HoleAfter(b.hole_dropped, cmd) = TRUE
          BY <2>10, <3>5 DEF HoleAfter, Ends
        <4>2. ~(cmd.value < 0) /\ cmd.value > LineHoleRide
          BY <3>2, <3>5 DEF Drops
        <4> QED BY <1>2, <3>1, <3>3, <3>4, <4>1, <4>2, Zenon
      <3>6. CASE ~Drops(cmd)
        <4>1. HoleAfter(b.hole_dropped, cmd) = b.hole_dropped
          BY <2>1, <2>10, <3>6 DEF HoleAfter, Ends
        <4>2. LineHoleRide \in Nat
          BY BenchAssumption
        <4>3. cmd.value < 0 \/ ~(cmd.value > LineHoleRide)
          BY <2>10, <3>2, <3>6, <4>2 DEF Drops
        <4>4. Apply(b, cmd) = b
          BY <3>1, <3>3, <4>3, Zenon
        <4> QED BY <1>2, <2>2, <3>4, <4>1, <4>4, Zenon
      <3> QED BY <3>5, <3>6
    <2> HIDE DEF new
    <2> QED
      BY <2>1, <2>3, <2>4, <2>5, <2>6, <2>7, <2>8, <2>9, <2>10, CommandTypes DEF Verbs, Ignored
  <1> QED BY <1>1, <1>2

LEMMA ApplyKeeps ==
  ASSUME NEW b \in SimulatedBench, NEW cmd \in Commands
  PROVE  /\ Apply(b, cmd) \in SimulatedBench
         /\ Apply(b, cmd).line_latched = b.line_latched
         /\ \A l \in BOOLEAN : Apply(Latched(b, l), cmd) = Latched(Apply(b, cmd), l)
  <1>1. CASE Ignored(cmd)
    BY <1>1, ApplyShape, LatchedFields
  <1>2. CASE ~Ignored(cmd)
    <2> DEFINE c == cmd.channel
               ch == Reprogrammed(b.channels[c], cmd)
               hole == HoleAfter(b.hole_dropped, cmd)
    <2>1. c \in Channels /\ b.channels[c] \in ChannelState /\ hole \in BOOLEAN
      BY <1>2 DEF Ignored, SimulatedBench, HoleAfter
    <2>2. ch \in ChannelState
      BY <1>2, <2>1, ReprogrammedType
    <2>3. Apply(b, cmd) = Programmed(b, c, ch, hole)
      BY <1>2, ApplyShape
    <2>4. \A l \in BOOLEAN : Apply(Latched(b, l), cmd) = Programmed(Latched(b, l), c, ch, hole)
      BY <1>2, ApplyShape, LatchedFields
    <2> HIDE DEF c, ch, hole
    <2> QED BY <2>1, <2>2, <2>3, <2>4, ProgrammedFields
  <1> QED BY <1>1, <1>2

-----------------------------------------------------------------------------
(* A sequence of commands.                                                   *)

LEMMA DoKeeps ==
  ASSUME NEW b \in SimulatedBench, NEW s \in Seq(Commands), NEW i \in Nat
  PROVE  /\ Do(b, s, i) \in SimulatedBench
         /\ Do(b, s, i).line_latched = b.line_latched
         /\ \A l \in BOOLEAN : Do(Latched(b, l), s, i) = Latched(Do(b, s, i), l)
  <1>1. CASE i \in 1..Len(s)
    <2>1. s[i] \in Commands
      BY <1>1
    <2> QED BY <1>1, <2>1, ApplyKeeps DEF Do
  <1>2. CASE i \notin 1..Len(s)
    BY <1>2, LatchedFields DEF Do
  <1> QED BY <1>1, <1>2

LEMMA OutcomeKeeps ==
  ASSUME NEW b \in SimulatedBench, NEW s \in Seq(Commands)
  PROVE  /\ Outcome(b, s) \in SimulatedBench
         /\ Outcome(b, s).line_latched = b.line_latched
         /\ \A l \in BOOLEAN : Outcome(Latched(b, l), s) = Latched(Outcome(b, s), l)
  <1> DEFINE b1 == Do(b, s, 1)
             b2 == Do(b1, s, 2)
             b3 == Do(b2, s, 3)
             b4 == Do(b3, s, 4)
             b5 == Do(b4, s, 5)
  <1>1. /\ b1 \in SimulatedBench /\ b1.line_latched = b.line_latched
        /\ \A l \in BOOLEAN : Do(Latched(b, l), s, 1) = Latched(b1, l)
    BY DoKeeps
  <1> HIDE DEF b1
  <1>2. /\ b2 \in SimulatedBench /\ b2.line_latched = b1.line_latched
        /\ \A l \in BOOLEAN : Do(Latched(b1, l), s, 2) = Latched(b2, l)
    BY <1>1, DoKeeps
  <1> HIDE DEF b2
  <1>3. /\ b3 \in SimulatedBench /\ b3.line_latched = b2.line_latched
        /\ \A l \in BOOLEAN : Do(Latched(b2, l), s, 3) = Latched(b3, l)
    BY <1>2, DoKeeps
  <1> HIDE DEF b3
  <1>4. /\ b4 \in SimulatedBench /\ b4.line_latched = b3.line_latched
        /\ \A l \in BOOLEAN : Do(Latched(b3, l), s, 4) = Latched(b4, l)
    BY <1>3, DoKeeps
  <1> HIDE DEF b4
  <1>5. /\ b5 \in SimulatedBench /\ b5.line_latched = b4.line_latched
        /\ \A l \in BOOLEAN : Do(Latched(b4, l), s, 5) = Latched(b5, l)
    BY <1>4, DoKeeps
  <1>6. Outcome(b, s) = b5
    BY DEF Outcome, b1, b2, b3, b4, b5
  <1> HIDE DEF b5
  <1>7. ASSUME NEW l \in BOOLEAN PROVE Outcome(Latched(b, l), s) = Latched(b5, l)
    BY <1>1, <1>2, <1>3, <1>4, <1>5 DEF Outcome
  <1> QED BY <1>1, <1>2, <1>3, <1>4, <1>5, <1>6, <1>7

LEMMA OutcomeOfNothing ==
  ASSUME NEW b PROVE Outcome(b, <<>>) = b
  <1> DEFINE e == <<>>
  <1>1. Len(e) = 0
    OBVIOUS
  <1> HIDE DEF e
  <1>2. ASSUME NEW x, NEW i \in 1..5 PROVE Do(x, e, i) = x
    BY <1>1 DEF Do
  <1>3. \A x : /\ Do(x, e, 1) = x /\ Do(x, e, 2) = x /\ Do(x, e, 3) = x
               /\ Do(x, e, 4) = x /\ Do(x, e, 5) = x
    BY <1>2
  <1>4. Outcome(b, e) = b
    BY <1>3, Zenon DEF Outcome
  <1> QED BY <1>4 DEF e

\* Three, or four, commands in a sequence.
LEMMA ThreeCommands ==
  ASSUME NEW x \in Commands, NEW y \in Commands, NEW z \in Commands
  PROVE  LET s == <<x, y, z>>
         IN s \in Seq(Commands) /\ Len(s) = 3 /\ s[1] = x /\ s[2] = y /\ s[3] = z
  OBVIOUS

LEMMA FourCommands ==
  ASSUME NEW x \in Commands, NEW y \in Commands, NEW z \in Commands, NEW w \in Commands
  PROVE  LET s == <<x, y, z, w>>
         IN /\ s \in Seq(Commands) /\ Len(s) = 4
            /\ s[1] = x /\ s[2] = y /\ s[3] = z /\ s[4] = w
  OBVIOUS

\* The head of the inbox executed, the rest has the same outcome.
LEMMA OutcomeStep ==
  ASSUME NEW b \in SimulatedBench, NEW s \in Seq(Commands), s # <<>>, Len(s) =< 5
  PROVE  Outcome(Apply(b, Head(s)), Tail(s)) = Outcome(b, s)
  <1> DEFINE t == Tail(s)
  <1>1. /\ t \in Seq(Commands) /\ Len(t) = Len(s) - 1 /\ Len(s) \in Nat /\ Len(s) >= 1
        /\ Head(s) = s[1]
        /\ \A i \in 1 .. Len(s) - 1 : t[i] = s[i + 1]
    BY HeadTailProperties
  <1> HIDE DEF t
  <1>2. \A x : Do(x, s, 1) = Apply(x, Head(s))
    BY <1>1 DEF Do
  <1>3. ASSUME NEW x, NEW i \in 1..4 PROVE Do(x, s, i + 1) = Do(x, t, i)
    <2>1. i + 1 \in 1..Len(s) <=> i \in 1..Len(t)
      BY <1>1
    <2>2. i \in 1..Len(t) => t[i] = s[i + 1]
      BY <1>1
    <2> QED BY <2>1, <2>2 DEF Do
  <1>4. \A x : Do(x, t, 5) = x
    BY <1>1 DEF Do
  <1>5. \A x : /\ Do(x, s, 2) = Do(x, t, 1) /\ Do(x, s, 3) = Do(x, t, 2)
               /\ Do(x, s, 4) = Do(x, t, 3) /\ Do(x, s, 5) = Do(x, t, 4)
    BY <1>3
  <1> QED BY <1>2, <1>4, <1>5 DEF Outcome, t

\* A command after another on the same channel.
LEMMA ApplyProgrammed ==
  ASSUME NEW b \in SimulatedBench, NEW c \in Channels, NEW ch \in ChannelState,
         NEW hole \in BOOLEAN, NEW cmd \in Commands, cmd.channel = c, cmd.verb # "*OPC?"
  PROVE  Apply(Programmed(b, c, ch, hole), cmd)
           = Programmed(b, c, Reprogrammed(ch, cmd), HoleAfter(hole, cmd))
  <1> DEFINE p == Programmed(b, c, ch, hole)
  <1>1. /\ p \in SimulatedBench /\ p.channels[c] = ch /\ p.hole_dropped = hole
        /\ \A x, h : Programmed(p, c, x, h) = Programmed(b, c, x, h)
    BY ProgrammedFields
  <1> HIDE DEF p
  <1>2. Apply(p, cmd) = Programmed(p, c, Reprogrammed(ch, cmd), HoleAfter(hole, cmd))
    BY <1>1, ApplyShape DEF Ignored
  <1> QED BY <1>1, <1>2, Zenon DEF p

\* What a program looks like: its commands, and then *OPC?.
LEMMA SyncedShape ==
  ASSUME NEW s \in Seq(Commands)
  PROVE  /\ s \o Sync \in Seq(Commands)
         /\ Len(s \o Sync) = Len(s) + 1
         /\ \A i \in 1..Len(s) : (s \o Sync)[i] = s[i]
         /\ (s \o Sync)[Len(s) + 1] = Command("*OPC?", NoChannel, 0)
  <1>1. Command("*OPC?", NoChannel, 0) \in Commands
    BY DEF Command, Commands, Callable
  <1> DEFINE opc == Command("*OPC?", NoChannel, 0)
             last == <<opc>>
             p == s \o last
  <1> HIDE DEF opc
  <1>2. last \in Seq(Commands) /\ Len(last) = 1 /\ last[1] = opc
    BY <1>1 DEF opc
  <1> HIDE DEF last
  <1>3. /\ p \in Seq(Commands) /\ Len(p) = Len(s) + Len(last)
        /\ \A i \in 1 .. Len(s) + Len(last) :
             p[i] = IF i =< Len(s) THEN s[i] ELSE last[i - Len(s)]
    BY <1>2, ConcatProperties, Zenon
  <1> HIDE DEF p
  <1>4. Len(p) = Len(s) + 1 /\ (\A i \in 1..Len(s) : p[i] = s[i]) /\ p[Len(s) + 1] = opc
    BY <1>2, <1>3
  <1> QED BY <1>3, <1>4 DEF p, opc, last, Sync

\* A program one after another can be sent: it ends with *OPC? and fits.
Sendable(s) ==
  /\ s \in Seq(Commands) /\ Len(s) \in 1..5 /\ s[Len(s)].verb = "*OPC?"

\* Nothing happens to a bench that ignores every command.
LEMMA IgnoredProgram ==
  ASSUME NEW b \in SimulatedBench, NEW s \in Seq(Commands),
         \A i \in 1..Len(s) : Ignored(s[i])
  PROVE  Outcome(b, s) = b
  <1>1. ASSUME NEW x \in SimulatedBench, NEW i \in Nat PROVE Do(x, s, i) = x
    <2>1. CASE i \in 1..Len(s)
      <3>1. s[i] \in Commands /\ Ignored(s[i])
        BY <2>1
      <3>2. Apply(x, s[i]) = x
        BY <3>1, ApplyShape
      <3> QED BY <2>1, <3>2 DEF Do
    <2>2. CASE i \notin 1..Len(s)
      BY <2>2 DEF Do
    <2> QED BY <2>1, <2>2
  <1>2. /\ Do(b, s, 1) = b /\ Do(b, s, 2) = b /\ Do(b, s, 3) = b
        /\ Do(b, s, 4) = b /\ Do(b, s, 5) = b
    BY <1>1
  <1> QED BY <1>2, Zenon DEF Outcome

LEMMA SingleProgram ==
  ASSUME NEW b \in SimulatedBench, NEW cmd \in Commands
  PROVE  /\ Sendable(<<cmd>> \o Sync)
         /\ Outcome(b, <<cmd>> \o Sync) = Apply(b, cmd)
  <1> DEFINE one == <<cmd>>
             p == one \o Sync
             opc == Command("*OPC?", NoChannel, 0)
  <1>1. one \in Seq(Commands) /\ Len(one) = 1 /\ one[1] = cmd
    OBVIOUS
  <1> HIDE DEF one
  <1>2. p \in Seq(Commands) /\ Len(p) = 2 /\ p[1] = cmd /\ p[2] = opc
    <2>1. /\ p \in Seq(Commands) /\ Len(p) = Len(one) + 1
          /\ \A i \in 1..Len(one) : p[i] = one[i]
          /\ p[Len(one) + 1] = opc
      BY <1>1, SyncedShape, Zenon
    <2> HIDE DEF p, opc
    <2> QED BY <1>1, <2>1
  <1>3. opc.verb = "*OPC?"
    BY DEF Command
  <1> HIDE DEF p, opc
  <1>4. Sendable(p)
    BY <1>2, <1>3 DEF Sendable
  <1>5. /\ \A x : Do(x, p, 1) = Apply(x, cmd)
        /\ \A x : Do(x, p, 2) = x
        /\ \A x : Do(x, p, 3) = x
        /\ \A x : Do(x, p, 4) = x
        /\ \A x : Do(x, p, 5) = x
    <2>1. \A x : Apply(x, opc) = x
      BY <1>3 DEF Apply
    <2> QED BY <1>2, <2>1 DEF Do
  <1>6. Outcome(b, p) = Apply(b, cmd)
    BY <1>5, Zenon DEF Outcome
  <1> QED BY <1>4, <1>6 DEF p, one

LEMMA DcProgramShape ==
  ASSUME NEW c \in Callable, NEW level \in Levels
  PROVE  LET p == DcProgram(c, level)
         IN /\ Sendable(p) /\ Len(p) = 4
            /\ p[1] = Command("FUNC DC", c, 0) /\ p[2] = Command("HARM:CLE", c, 0)
            /\ p[3] = Command("VOLT", c, level)
            /\ p[4] = Command("*OPC?", NoChannel, 0)
  <1> DEFINE s == <<Command("FUNC DC", c, 0), Command("HARM:CLE", c, 0),
                    Command("VOLT", c, level)>>
             p == s \o Sync
             opc == Command("*OPC?", NoChannel, 0)
  <1>1. /\ Command("FUNC DC", c, 0) \in Commands /\ Command("HARM:CLE", c, 0) \in Commands
        /\ Command("VOLT", c, level) \in Commands /\ opc.verb = "*OPC?"
    BY DEF Command, Commands
  <1>2. /\ s \in Seq(Commands) /\ Len(s) = 3
        /\ s[1] = Command("FUNC DC", c, 0) /\ s[2] = Command("HARM:CLE", c, 0)
        /\ s[3] = Command("VOLT", c, level)
    BY <1>1, ThreeCommands
  <1>3. p = DcProgram(c, level)
    BY DEF DcProgram
  <1> HIDE DEF s
  <1>4. /\ p \in Seq(Commands) /\ Len(p) = Len(s) + 1
        /\ \A i \in 1..Len(s) : p[i] = s[i]
        /\ p[Len(s) + 1] = opc
    BY <1>2, SyncedShape, Zenon
  <1> HIDE DEF p, opc
  <1>5. Len(p) = 4 /\ p[1] = s[1] /\ p[2] = s[2] /\ p[3] = s[3] /\ p[4] = opc
    <2>1. Len(s) = 3
      BY <1>2
    <2> QED BY <1>4, <2>1
  <1>6. Sendable(p)
    <2>1. opc.verb = "*OPC?" /\ p \in Seq(Commands)
      BY <1>1, <1>4
    <2> QED BY <1>5, <2>1 DEF Sendable
  <1> QED BY <1>2, <1>3, <1>5, <1>6 DEF opc

LEMMA SineProgramShape ==
  ASSUME NEW c \in Callable, NEW amplitude \in Levels, NEW offset \in Offsets
  PROVE  LET p == SineProgram(c, amplitude, offset)
         IN /\ Sendable(p) /\ Len(p) = 5
            /\ p[1] = Command("FUNC SIN", c, 0) /\ p[2] = Command("HARM:CLE", c, 0)
            /\ p[3] = Command("VOLT", c, amplitude) /\ p[4] = Command("VOLT:OFFS", c, offset)
            /\ p[5] = Command("*OPC?", NoChannel, 0)
  <1> DEFINE s == <<Command("FUNC SIN", c, 0), Command("HARM:CLE", c, 0),
                    Command("VOLT", c, amplitude), Command("VOLT:OFFS", c, offset)>>
             p == s \o Sync
             opc == Command("*OPC?", NoChannel, 0)
  <1>1. /\ Command("FUNC SIN", c, 0) \in Commands /\ Command("HARM:CLE", c, 0) \in Commands
        /\ Command("VOLT", c, amplitude) \in Commands
        /\ Command("VOLT:OFFS", c, offset) \in Commands /\ opc.verb = "*OPC?"
    BY DEF Command, Commands
  <1>2. /\ s \in Seq(Commands) /\ Len(s) = 4
        /\ s[1] = Command("FUNC SIN", c, 0) /\ s[2] = Command("HARM:CLE", c, 0)
        /\ s[3] = Command("VOLT", c, amplitude) /\ s[4] = Command("VOLT:OFFS", c, offset)
    BY <1>1, FourCommands
  <1>3. p = SineProgram(c, amplitude, offset)
    BY DEF SineProgram
  <1> HIDE DEF s
  <1>4. /\ p \in Seq(Commands) /\ Len(p) = Len(s) + 1
        /\ \A i \in 1..Len(s) : p[i] = s[i]
        /\ p[Len(s) + 1] = opc
    BY <1>2, SyncedShape, Zenon
  <1> HIDE DEF p, opc
  <1>5. /\ Len(p) = 5 /\ p[1] = s[1] /\ p[2] = s[2] /\ p[3] = s[3] /\ p[4] = s[4]
        /\ p[5] = opc
    <2>1. Len(s) = 4
      BY <1>2
    <2> QED BY <1>4, <2>1
  <1>6. Sendable(p)
    <2>1. opc.verb = "*OPC?" /\ p \in Seq(Commands)
      BY <1>1, <1>4
    <2> QED BY <1>5, <2>1 DEF Sendable
  <1> QED BY <1>2, <1>3, <1>5, <1>6 DEF opc

\* Five commands add up to one configure_sine.
LEMMA SineOutcome ==
  ASSUME NEW b \in SimulatedBench, NEW c \in Channels,
         NEW amplitude \in Levels, NEW offset \in Offsets
  PROVE  Outcome(b, SineProgram(c, amplitude, offset)) = ConfigureSine(b, c, amplitude, offset)
  <1> DEFINE p == SineProgram(c, amplitude, offset)
             ch == b.channels[c]
             ch1 == Channel(ch.enabled, "SIN", ch.amplitude, ch.offset, Silence)
             ch2 == Channel(ch.enabled, "SIN", amplitude, ch.offset, Silence)
             ch3 == Channel(ch.enabled, "SIN", amplitude, offset, Silence)
             to(x) == Programmed(b, c, x, FALSE)
             c1 == Command("FUNC SIN", c, 0)
             c2 == Command("HARM:CLE", c, 0)
             c3 == Command("VOLT", c, amplitude)
             c4 == Command("VOLT:OFFS", c, offset)
             c5 == Command("*OPC?", NoChannel, 0)
  <1>1. /\ c1 \in Commands /\ c1.verb = "FUNC SIN" /\ c1.channel = c
        /\ c2 \in Commands /\ c2.verb = "HARM:CLE" /\ c2.channel = c
        /\ c3 \in Commands /\ c3.verb = "VOLT" /\ c3.channel = c /\ c3.value = amplitude
        /\ c4 \in Commands /\ c4.verb = "VOLT:OFFS" /\ c4.channel = c /\ c4.value = offset
        /\ c5.verb = "*OPC?"
    BY DEF Command, Commands, Callable
  <1>2. /\ Len(p) = 5 /\ p[1] = c1 /\ p[2] = c2 /\ p[3] = c3 /\ p[4] = c4 /\ p[5] = c5
    BY SineProgramShape DEF Callable
  <1> HIDE DEF p, c1, c2, c3, c4, c5
  <1>3. ch \in ChannelState /\ ch.enabled \in BOOLEAN /\ ch.amplitude \in Levels
        /\ ch.offset \in Offsets /\ b.hole_dropped \in BOOLEAN
    BY DEF SimulatedBench, ChannelState
  <1> HIDE DEF ch
  <1>4. /\ ch1 \in ChannelState /\ ch1.enabled = ch.enabled /\ ch1.waveform = "SIN"
        /\ ch1.amplitude = ch.amplitude /\ ch1.offset = ch.offset /\ ch1.harmonics = Silence
    BY <1>3, ChannelType, SilenceType
  <1>5. /\ ch2 \in ChannelState /\ ch2.enabled = ch.enabled /\ ch2.waveform = "SIN"
        /\ ch2.amplitude = amplitude /\ ch2.offset = ch.offset /\ ch2.harmonics = Silence
    BY <1>3, ChannelType, SilenceType
  <1>6. Apply(b, c1) = to(ch1)
    <2>1. Apply(b, c1) = ConfigureSine(b, c, ch.amplitude, ch.offset)
      BY <1>1 DEF Apply, ch
    <2>2. \A a, o : ConfigureSine(b, c, a, o)
                    = Programmed(b, c, Channel(ch.enabled, "SIN", a, o, Silence), FALSE)
      BY OperationShapes DEF ch
    <2> QED BY <2>1, <2>2, Zenon
  <1>7. Apply(to(ch1), c2) = to(ch1)
    <2>1. Reprogrammed(ch1, c2) = Channel(ch1.enabled, ch1.waveform, ch1.amplitude,
                                          ch1.offset, Silence)
      BY <1>1 DEF Reprogrammed
    <2>2. Reprogrammed(ch1, c2) = ch1
      BY <2>1, <1>4
    <2>3. HoleAfter(FALSE, c2) = FALSE
      BY <1>1 DEF HoleAfter, Ends, Drops
    <2> HIDE DEF ch1
    <2> QED BY <1>1, <1>4, <2>2, <2>3, ApplyProgrammed
  <1>8. Apply(to(ch1), c3) = to(ch2)
    <2>1. Reprogrammed(ch1, c3) = Channel(ch1.enabled, ch1.waveform, amplitude,
                                          ch1.offset, ch1.harmonics)
      BY <1>1 DEF Reprogrammed
    <2>2. Reprogrammed(ch1, c3) = ch2
      BY <2>1, <1>4
    <2>3. HoleAfter(FALSE, c3) = FALSE
      BY <1>1 DEF HoleAfter, Ends, Drops
    <2> HIDE DEF ch1, ch2
    <2> QED BY <1>1, <1>4, <2>2, <2>3, ApplyProgrammed
  <1>9. Apply(to(ch2), c4) = to(ch3)
    <2>1. Reprogrammed(ch2, c4) = Channel(ch2.enabled, ch2.waveform, ch2.amplitude,
                                          offset, ch2.harmonics)
      BY <1>1 DEF Reprogrammed
    <2>2. Reprogrammed(ch2, c4) = ch3
      BY <2>1, <1>5
    <2>3. HoleAfter(FALSE, c4) = FALSE
      BY <1>1 DEF HoleAfter, Ends, Drops
    <2> HIDE DEF ch2, ch3
    <2> QED BY <1>1, <1>5, <2>2, <2>3, ApplyProgrammed
  <1>10. ConfigureSine(b, c, amplitude, offset) = to(ch3)
    <2>1. \A a, o : ConfigureSine(b, c, a, o)
                    = Programmed(b, c, Channel(ch.enabled, "SIN", a, o, Silence), FALSE)
      BY OperationShapes DEF ch
    <2> QED BY <2>1, Zenon
  <1>11. /\ \A x : Do(x, p, 1) = Apply(x, c1)
         /\ \A x : Do(x, p, 2) = Apply(x, c2)
         /\ \A x : Do(x, p, 3) = Apply(x, c3)
         /\ \A x : Do(x, p, 4) = Apply(x, c4)
         /\ \A x : Do(x, p, 5) = x
    <2>1. \A x : Apply(x, c5) = x
      BY <1>1 DEF Apply
    <2>2. 1..Len(p) = 1..5
      BY <1>2
    <2> QED BY <1>2, <2>1, <2>2 DEF Do
  <1> HIDE DEF to, ch1, ch2, ch3
  <1>12. Outcome(b, p) = to(ch3)
    <2>1. Do(b, p, 1) = to(ch1)
      BY <1>6, <1>11
    <2>2. Do(to(ch1), p, 2) = to(ch1)
      BY <1>7, <1>11
    <2>3. Do(to(ch1), p, 3) = to(ch2)
      BY <1>8, <1>11
    <2>4. Do(to(ch2), p, 4) = to(ch3)
      BY <1>9, <1>11
    <2>5. Do(to(ch3), p, 5) = to(ch3)
      BY <1>11
    <2> QED BY <2>1, <2>2, <2>3, <2>4, <2>5 DEF Outcome
  <1> QED BY <1>10, <1>12 DEF p

LEMMA DcOutcome ==
  ASSUME NEW b \in SimulatedBench, NEW c \in Channels, NEW level \in Levels
  PROVE  Outcome(b, DcProgram(c, level)) = ConfigureDc(b, c, level)
  <1> DEFINE p == DcProgram(c, level)
             ch == b.channels[c]
             ch1 == Channel(ch.enabled, "DC", ch.amplitude, ch.offset, Silence)
             ch2 == Channel(ch.enabled, "DC", level, ch.offset, Silence)
             to(x) == Programmed(b, c, x, FALSE)
             c1 == Command("FUNC DC", c, 0)
             c2 == Command("HARM:CLE", c, 0)
             c3 == Command("VOLT", c, level)
             c4 == Command("*OPC?", NoChannel, 0)
  <1>1. /\ c1 \in Commands /\ c1.verb = "FUNC DC" /\ c1.channel = c
        /\ c2 \in Commands /\ c2.verb = "HARM:CLE" /\ c2.channel = c
        /\ c3 \in Commands /\ c3.verb = "VOLT" /\ c3.channel = c /\ c3.value = level
        /\ c4.verb = "*OPC?"
    BY DEF Command, Commands, Callable
  <1>2. /\ Len(p) = 4 /\ p[1] = c1 /\ p[2] = c2 /\ p[3] = c3 /\ p[4] = c4
    BY DcProgramShape DEF Callable
  <1> HIDE DEF p, c1, c2, c3, c4
  <1>3. ch \in ChannelState /\ ch.enabled \in BOOLEAN /\ ch.amplitude \in Levels
        /\ ch.offset \in Offsets /\ b.hole_dropped \in BOOLEAN
    BY DEF SimulatedBench, ChannelState
  <1> HIDE DEF ch
  <1>4. /\ ch1 \in ChannelState /\ ch1.enabled = ch.enabled /\ ch1.waveform = "DC"
        /\ ch1.amplitude = ch.amplitude /\ ch1.offset = ch.offset /\ ch1.harmonics = Silence
    BY <1>3, ChannelType, SilenceType
  <1>5. Apply(b, c1) = to(ch1)
    <2>1. Apply(b, c1) = ConfigureDc(b, c, ch.amplitude)
      BY <1>1 DEF Apply, ch
    <2>2. \A a : ConfigureDc(b, c, a)
                 = Programmed(b, c, Channel(ch.enabled, "DC", a, ch.offset, Silence), FALSE)
      BY OperationShapes DEF ch
    <2> QED BY <2>1, <2>2, Zenon
  <1>6. Apply(to(ch1), c2) = to(ch1)
    <2>1. Reprogrammed(ch1, c2) = Channel(ch1.enabled, ch1.waveform, ch1.amplitude,
                                          ch1.offset, Silence)
      BY <1>1 DEF Reprogrammed
    <2>2. Reprogrammed(ch1, c2) = ch1
      BY <2>1, <1>4
    <2>3. HoleAfter(FALSE, c2) = FALSE
      BY <1>1 DEF HoleAfter, Ends, Drops
    <2> HIDE DEF ch1
    <2> QED BY <1>1, <1>4, <2>2, <2>3, ApplyProgrammed
  <1>7. Apply(to(ch1), c3) = to(ch2)
    <2>1. Reprogrammed(ch1, c3) = Channel(ch1.enabled, ch1.waveform, level,
                                          ch1.offset, ch1.harmonics)
      BY <1>1 DEF Reprogrammed
    <2>2. Reprogrammed(ch1, c3) = ch2
      BY <2>1, <1>4
    <2>3. HoleAfter(FALSE, c3) = FALSE
      BY <1>1 DEF HoleAfter, Ends, Drops
    <2> HIDE DEF ch1, ch2
    <2> QED BY <1>1, <1>4, <2>2, <2>3, ApplyProgrammed
  <1>8. ConfigureDc(b, c, level) = to(ch2)
    BY OperationShapes DEF ch
  <1>9. /\ \A x : Do(x, p, 1) = Apply(x, c1)
        /\ \A x : Do(x, p, 2) = Apply(x, c2)
        /\ \A x : Do(x, p, 3) = Apply(x, c3)
        /\ \A x : Do(x, p, 4) = x
        /\ \A x : Do(x, p, 5) = x
    <2>1. \A x : Apply(x, c4) = x
      BY <1>1 DEF Apply
    <2>2. 1..Len(p) = 1..4
      BY <1>2
    <2> QED BY <1>2, <2>1, <2>2 DEF Do
  <1> HIDE DEF to, ch1, ch2
  <1>10. Outcome(b, p) = to(ch2)
    <2>1. Do(b, p, 1) = to(ch1)
      BY <1>5, <1>9
    <2>2. Do(to(ch1), p, 2) = to(ch1)
      BY <1>6, <1>9
    <2>3. Do(to(ch1), p, 3) = to(ch2)
      BY <1>7, <1>9
    <2>4. Do(to(ch2), p, 4) = to(ch2) /\ Do(to(ch2), p, 5) = to(ch2)
      BY <1>9
    <2> QED BY <2>1, <2>2, <2>3, <2>4 DEF Outcome
  <1> QED BY <1>8, <1>10 DEF p

-----------------------------------------------------------------------------
(* Reading the bench.                                                        *)

\* Squares of naturals are ordered like the naturals: what lets an RMS be
\* compared by its square.
LEMMA SquareMonotone ==
  ASSUME NEW x \in Nat, NEW y \in Nat, x =< y
  PROVE  x * x =< y * y
  <1>1. x * x =< x * y  BY SMT
  <1>2. x * y =< y * y  BY SMT
  <1> QED BY <1>1, <1>2, SMT

\* 8 * rms^2 is an integer for every channel the bench can hold.
LEMMA Rms8Type ==
  ASSUME NEW ch \in ChannelState
  PROVE  Rms8(ch) \in Int /\ DcV(ch) \in Int
  <1>1. SumSquares(ch.harmonics) \in Nat
    BY SumAssumption DEF ChannelState
  <1>2. ch.amplitude \in Int /\ ch.offset \in Int
    BY BenchAssumption DEF ChannelState
  <1> QED BY <1>1, <1>2 DEF Rms8, DcV

\* The pick-up window lies inside the hold window, on DC and on AC.
LEMMA PickUpInHold ==
  ASSUME NEW b \in SimulatedBench, InPickUp(b)
  PROVE  InHold(b)
  <1> DEFINE ch == b.channels[VoltageChannel]
             g == VoltsToKilovolts
  <1>1. ch \in ChannelState /\ g \in Nat
    BY BenchAssumption DEF SimulatedBench
  <1>2. Rms8(ch) * g * g \in Int /\ DcV(ch) * g \in Int
    BY <1>1, Rms8Type
  <1>3. /\ LineOutLow \in Nat /\ LineInLow \in Nat /\ LineOutLow =< LineInLow
        /\ LineInHigh \in Nat /\ LineOutHigh \in Nat /\ LineInHigh =< LineOutHigh
    BY WindowAssumption
  <1>4. /\ LineOutLow * LineOutLow =< LineInLow * LineInLow
        /\ LineInHigh * LineInHigh =< LineOutHigh * LineOutHigh
    BY <1>3, SquareMonotone
  <1> HIDE DEF ch, g
  <1>5. CASE IsAc(ch)
    <2> DEFINE x == Rms8(ch) * g * g
               ol == LineOutLow * LineOutLow
               il == LineInLow * LineInLow
               ih == LineInHigh * LineInHigh
               oh == LineOutHigh * LineOutHigh
    <2>1. /\ 8 * LineOutLow * LineOutLow = 8 * ol
          /\ 8 * LineInLow * LineInLow = 8 * il
          /\ 8 * LineInHigh * LineInHigh = 8 * ih
          /\ 8 * LineOutHigh * LineOutHigh = 8 * oh
      BY <1>3
    <2>2. x \in (8 * il) .. (8 * ih)
      BY <1>5, <2>1 DEF InPickUp, LineWithin, ch, g
    <2>3. {ol, il, ih, oh} \subseteq Int /\ x \in Int
      BY <1>2, <1>3
    <2> HIDE DEF x, ol, il, ih, oh
    <2>4. x \in (8 * ol) .. (8 * oh)
      BY <1>4, <2>2, <2>3 DEF ol, il, ih, oh
    <2> QED BY <1>5, <2>1, <2>4 DEF InHold, LineWithin, ch, g, x, ol, oh
  <1>6. CASE ~IsAc(ch)
    <2>1. DcV(ch) * g \in LineInLow .. LineInHigh
      BY <1>6 DEF InPickUp, LineWithin, ch, g
    <2>2. DcV(ch) * g \in LineOutLow .. LineOutHigh
      BY <2>1, <1>2, <1>3
    <2> QED BY <1>6, <2>2 DEF InHold, LineWithin, ch, g
  <1> QED BY <1>5, <1>6

\* The latch is in no reading but its own.
LEMMA LatchReads ==
  ASSUME NEW b \in SimulatedBench, NEW l \in BOOLEAN
  PROVE  LET a == Latched(b, l)
         IN /\ InHold(a) = InHold(b) /\ InPickUp(a) = InPickUp(b)
            /\ OvercurrentTripped(a) = OvercurrentTripped(b)
            /\ FastOvercurrentTripped(a) = FastOvercurrentTripped(b)
            /\ HarmonicTripped(a) = HarmonicTripped(b)
            /\ LineIsAc(a) = LineIsAc(b)
            /\ \A q : Measured(a, q) = Measured(b, q)
            /\ a.line_latched = l
  <1> DEFINE a == Latched(b, l)
  <1>1. a.channels = b.channels /\ a.line_latched = l
    BY LatchedFields
  <1> HIDE DEF a
  <1>2. InHold(a) = InHold(b) /\ InPickUp(a) = InPickUp(b)
    BY <1>1 DEF InHold, InPickUp, LineWithin
  <1>3. /\ OvercurrentTripped(a) = OvercurrentTripped(b)
        /\ FastOvercurrentTripped(a) = FastOvercurrentTripped(b)
        /\ HarmonicTripped(a) = HarmonicTripped(b)
        /\ LineIsAc(a) = LineIsAc(b)
    BY <1>1 DEF OvercurrentTripped, FastOvercurrentTripped, HarmonicTripped, LineIsAc
  <1>4. \A q : Measured(a, q) = Measured(b, q)
    BY <1>1 DEF Measured
  <1> QED BY <1>1, <1>2, <1>3, <1>4 DEF a

\* A look only moves the latch.
SettlesTo(b) == /\ ~b.hole_dropped
                /\ IF b.line_latched THEN InHold(b) ELSE InPickUp(b)

LEMMA SettleShape ==
  ASSUME NEW b \in SimulatedBench
  PROVE  /\ SettlesTo(b) \in BOOLEAN
         /\ SettleLine(b) = Latched(b, SettlesTo(b))
  BY DEF SettlesTo, SettleLine, Latched

\* What a device that is asked for all detectors says of each.
LEMMA ReadingsType ==
  ASSUME NEW b \in SimulatedBench
  PROVE  /\ RelayStates(b) \in [Detectors -> BOOLEAN]
         /\ RelayStates(b).line = b.line_latched
         /\ RelayStates(b)["line"] = b.line_latched
         /\ \A q \in Quantities : Measured(b, q) \in Int
  <1>1. /\ b.line_latched \in BOOLEAN /\ OvercurrentTripped(b) \in BOOLEAN
        /\ FastOvercurrentTripped(b) \in BOOLEAN /\ HarmonicTripped(b) \in BOOLEAN
    BY DEF SimulatedBench, OvercurrentTripped, FastOvercurrentTripped, HarmonicTripped,
           RmsAtLeast
  <1>2. Detectors = {"line", "overcurrent", "fast_overcurrent", "harmonic"}
    BY LanRackAssumption
  <1>3. RelayStates(b) \in [Detectors -> BOOLEAN]
    BY <1>1, <1>2 DEF RelayStates
  <1>4. RelayStates(b).line = b.line_latched /\ RelayStates(b)["line"] = b.line_latched
    BY DEF RelayStates
  <1>5. ASSUME NEW q \in Quantities PROVE Measured(b, q) \in Int
    <2>1. b.channels[VoltageChannel] \in ChannelState
          /\ b.channels[CurrentChannel] \in ChannelState
      BY BenchAssumption DEF SimulatedBench
    <2>2. q \in {"dc_voltage", "line", "current", "harmonic"}
      BY LanRackAssumption
    <2> QED BY <2>1, <2>2, Rms8Type DEF Measured
  <1> QED BY <1>3, <1>4, <1>5

\* Benches that differ in the latch alone differ in the line alone.
LEMMA ReadingsAgree ==
  ASSUME NEW b \in SimulatedBench, NEW l \in BOOLEAN
  PROVE  \A d \in Detectors \ {"line"} : RelayStates(Latched(b, l))[d] = RelayStates(b)[d]
  <1>1. Detectors = {"line", "overcurrent", "fast_overcurrent", "harmonic"}
    BY LanRackAssumption
  <1>2. /\ OvercurrentTripped(Latched(b, l)) = OvercurrentTripped(b)
        /\ FastOvercurrentTripped(Latched(b, l)) = FastOvercurrentTripped(b)
        /\ HarmonicTripped(Latched(b, l)) = HarmonicTripped(b)
    BY LatchReads
  <1> QED BY <1>1, <1>2 DEF RelayStates

LEMMA ResultTypes ==
  /\ \A what \in {"None", "KeyError", "ValueError", "TimeoutError"} : Raises(what) \in Results
  /\ \A b \in SimulatedBench : Gives(RelayStates(b)) \in Results
  /\ \A t \in Traces : Gives(t) \in Results
  /\ \A n \in Int : Gives([measured |-> n]) \in Results
  /\ \A on \in BOOLEAN : Gives([enabled |-> on]) \in Results
  <1>1. \A what \in {"None", "KeyError", "ValueError", "TimeoutError"} : Raises(what) \in Results
    BY DEF Raises, Results
  <1>2. \A b \in SimulatedBench : Gives(RelayStates(b)) \in Results
    BY ReadingsType DEF Gives, Results
  <1>3. \A t \in Traces : Gives(t) \in Results
    BY DEF Gives, Results
  <1>4. \A n \in Int : Gives([measured |-> n]) \in Results
    BY DEF Gives, Results
  <1>5. \A on \in BOOLEAN : Gives([enabled |-> on]) \in Results
    BY DEF Gives, Results
  <1> QED BY <1>1, <1>2, <1>3, <1>4, <1>5

-----------------------------------------------------------------------------
(* The steps of the rack.                                                    *)

\* A call writes its program to an empty inbox, and the twin has the outcome.
LEMMA GenerateStep ==
  ASSUME Inv, NEW program, NEW refusal \in {"None", "KeyError", "ValueError"}, NEW effect,
         Sendable(program), Generate(program, refusal, effect),
         Outcome(twin, program) = IF refusal = "None" THEN effect ELSE twin
  PROVE  Inv'
  <1>1. /\ ~busy /\ made < MaxCalls /\ made' = made + 1 /\ inbox' = inbox \o program
        /\ busy' = TRUE /\ asked' = "program" /\ torn' = FALSE
        /\ twinResult' = Raises(refusal)
        /\ twin' = IF refusal = "None" THEN effect ELSE twin
        /\ bench' = bench /\ trace' = trace /\ result' = result /\ stray' = stray
    BY DEF Generate, CanCall
  <1>2. inbox = <<>>
    BY <1>1 DEF Inv, InboxOK
  <1>3. program \in Seq(Commands) /\ Len(program) \in 1..5
        /\ program[Len(program)].verb = "*OPC?"
    BY DEF Sendable
  <1>4. inbox' = program
    BY <1>1, <1>2, <1>3
  <1>5. bench \in SimulatedBench /\ twin \in SimulatedBench /\ bench.line_latched \in BOOLEAN
    BY DEF Inv, TypeOK, SimulatedBench
  <1>6. twin' = Outcome(twin, program)
    BY <1>1
  <1>7. twin' \in SimulatedBench /\ twin'.line_latched = twin.line_latched
    BY <1>3, <1>5, <1>6, OutcomeKeeps
  <1>8. InboxOK'
    BY <1>1, <1>3, <1>4 DEF InboxOK
  <1>9. OnCourse'
    <2>1. bench = Latched(twin, bench.line_latched)
      BY <1>2, OutcomeOfNothing DEF Inv, OnCourse
    <2>2. Outcome(Latched(twin, bench.line_latched), program)
            = Latched(Outcome(twin, program), bench.line_latched)
      BY <1>3, <1>5, OutcomeKeeps
    <2>3. Outcome(bench, program) = Latched(twin', bench.line_latched)
      BY <2>1, <2>2, <1>6
    <2>4. ~Strayed => bench.line_latched = twin'.line_latched
      BY <1>7 DEF Inv, OnCourse
    <2> QED BY <1>1, <1>4, <2>3, <2>4 DEF OnCourse, Strayed
  <1>10. TwinAnswers'
    <2>1. "program" \notin Detectors /\ NoDetector # "program"
      BY LanRackAssumption
    <2> QED BY <1>1, <2>1 DEF TwinAnswers
  <1>11. LookSettles'
    BY <1>1 DEF LookSettles
  <1>12. TypeOK'
    <2>1. \A i \in DOMAIN program : program[i] \in Commands
      BY <1>3
    <2>2. \A i \in DOMAIN program : program[i].verb \in Verbs /\ program[i].channel \in Callable
      BY <2>1, CommandTypes
    <2>3. made' \in 0..MaxCalls
      BY <1>1, LanRackAssumption DEF Inv, TypeOK
    <2>4. twinResult' \in Results
      BY <1>1, ResultTypes
    <2> QED
      BY <1>1, <1>4, <1>5, <1>7, <2>2, <2>3, <2>4 DEF Inv, TypeOK, Asks
  <1>13. SameReadings' /\ StrayHeals'
    BY <1>1 DEF SameReadings, StrayHeals
  <1> QED BY <1>8, <1>9, <1>10, <1>11, <1>12, <1>13 DEF Inv

LEMMA IgnoredByAll ==
  ASSUME NEW s \in Seq(Commands), NEW c, c \notin Channels,
         \A i \in 1..Len(s) : s[i].channel = c \/ s[i].verb = "*OPC?"
  PROVE  \A b \in SimulatedBench : Outcome(b, s) = b
  BY IgnoredProgram DEF Ignored

LEMMA SineCallStep ==
  ASSUME Inv, NEW c \in Callable, NEW amplitude \in Levels, NEW offset \in Offsets,
         ConfigureSineCall(c, amplitude, offset)
  PROVE  Inv'
  <1> DEFINE p == SineProgram(c, amplitude, offset)
  <1>1. twin \in SimulatedBench
    BY DEF Inv, TypeOK
  <1>2. /\ Sendable(p) /\ Len(p) = 5 /\ p \in Seq(Commands)
        /\ p[1].channel = c /\ p[2].channel = c /\ p[3].channel = c /\ p[4].channel = c
        /\ p[5].verb = "*OPC?"
    <2>1. /\ Sendable(p) /\ Len(p) = 5
          /\ p[1] = Command("FUNC SIN", c, 0) /\ p[2] = Command("HARM:CLE", c, 0)
          /\ p[3] = Command("VOLT", c, amplitude) /\ p[4] = Command("VOLT:OFFS", c, offset)
          /\ p[5] = Command("*OPC?", NoChannel, 0)
      BY SineProgramShape
    <2>2. /\ Command("FUNC SIN", c, 0).channel = c /\ Command("HARM:CLE", c, 0).channel = c
          /\ Command("VOLT", c, amplitude).channel = c
          /\ Command("VOLT:OFFS", c, offset).channel = c
          /\ Command("*OPC?", NoChannel, 0).verb = "*OPC?"
      BY DEF Command
    <2> HIDE DEF p
    <2>3. p \in Seq(Commands)
      BY <2>1, Zenon DEF Sendable
    <2> QED BY <2>1, <2>2, <2>3, Zenon
  <1>3. CASE c \in Channels
    BY <1>1, <1>2, <1>3, SineOutcome, GenerateStep DEF ConfigureSineCall, KnownChannel
  <1>4. CASE c \notin Channels
    <2> HIDE DEF p
    <2>1. \A i \in 1..Len(p) : p[i].channel = c \/ p[i].verb = "*OPC?"
      BY <1>2
    <2>2. Outcome(twin, p) = twin
      BY <1>1, <1>2, <1>4, <2>1, IgnoredByAll
    <2> QED BY <1>2, <1>4, <2>2, GenerateStep DEF ConfigureSineCall, KnownChannel, p
  <1> QED BY <1>3, <1>4

LEMMA DcCallStep ==
  ASSUME Inv, NEW c \in Callable, NEW level \in Levels, ConfigureDcCall(c, level)
  PROVE  Inv'
  <1> DEFINE p == DcProgram(c, level)
  <1>1. twin \in SimulatedBench
    BY DEF Inv, TypeOK
  <1>2. /\ Sendable(p) /\ Len(p) = 4 /\ p \in Seq(Commands)
        /\ p[1].channel = c /\ p[2].channel = c /\ p[3].channel = c
        /\ p[4].verb = "*OPC?"
    <2>1. /\ Sendable(p) /\ Len(p) = 4
          /\ p[1] = Command("FUNC DC", c, 0) /\ p[2] = Command("HARM:CLE", c, 0)
          /\ p[3] = Command("VOLT", c, level) /\ p[4] = Command("*OPC?", NoChannel, 0)
      BY DcProgramShape
    <2>2. /\ Command("FUNC DC", c, 0).channel = c /\ Command("HARM:CLE", c, 0).channel = c
          /\ Command("VOLT", c, level).channel = c
          /\ Command("*OPC?", NoChannel, 0).verb = "*OPC?"
      BY DEF Command
    <2> HIDE DEF p
    <2>3. p \in Seq(Commands)
      BY <2>1, Zenon DEF Sendable
    <2> QED BY <2>1, <2>2, <2>3, Zenon
  <1>3. CASE c \in Channels
    BY <1>1, <1>2, <1>3, DcOutcome, GenerateStep DEF ConfigureDcCall, KnownChannel
  <1>4. CASE c \notin Channels
    <2> HIDE DEF p
    <2>1. \A i \in 1..Len(p) : p[i].channel = c \/ p[i].verb = "*OPC?"
      BY <1>2
    <2>2. Outcome(twin, p) = twin
      BY <1>1, <1>2, <1>4, <2>1, IgnoredByAll
    <2> QED BY <1>2, <1>4, <2>2, GenerateStep DEF ConfigureDcCall, KnownChannel, p
  <1> QED BY <1>3, <1>4

LEMMA HarmonicCallStep ==
  ASSUME Inv, NEW c \in Callable, NEW order \in Orders, NEW level \in HarmonicLevels,
         AddHarmonicCall(c, order, level)
  PROVE  Inv'
  <1> DEFINE cmd == Command("HARM", c, <<order, level>>)
             p == HarmonicProgram(c, order, level)
  <1>1. twin \in SimulatedBench
    BY DEF Inv, TypeOK
  <1>2. cmd \in Commands
    BY DEF Command, Commands
  <1>3. p = <<cmd>> \o Sync
    BY DEF HarmonicProgram
  <1>4. Sendable(p) /\ Outcome(twin, p) = Apply(twin, cmd)
    BY <1>1, <1>2, <1>3, SingleProgram
  <1>5. Apply(twin, cmd) = IF c \in Channels THEN AddHarmonic(twin, c, order, level) ELSE twin
    BY DEF Apply, Command
  <1> HIDE DEF cmd
  <1> QED BY <1>4, <1>5, GenerateStep DEF AddHarmonicCall, KnownChannel

LEMMA OutputCallStep ==
  ASSUME Inv, NEW c \in Callable, NEW on \in BOOLEAN, OutputCall(c, on)
  PROVE  Inv'
  <1> DEFINE cmd == Command("OUTP", c, on)
             p == OutputProgram(c, on)
  <1>1. twin \in SimulatedBench
    BY DEF Inv, TypeOK
  <1>2. cmd \in Commands
    BY DEF Command, Commands
  <1>3. p = <<cmd>> \o Sync
    BY DEF OutputProgram
  <1>4. Sendable(p) /\ Outcome(twin, p) = Apply(twin, cmd)
    BY <1>1, <1>2, <1>3, SingleProgram
  <1>5. Apply(twin, cmd) = IF c \in Channels THEN SetOutput(twin, c, on) ELSE twin
    BY DEF Apply, Command
  <1> HIDE DEF cmd
  <1> QED BY <1>4, <1>5, GenerateStep DEF OutputCall, KnownChannel

LEMMA InterruptCallStep ==
  ASSUME Inv, NEW c \in Callable, NEW ms \in Int, InterruptCall(c, ms)
  PROVE  Inv'
  <1> DEFINE cmd == Command("OUTP:INT", c, ms)
             p == InterruptProgram(c, ms)
  <1>1. twin \in SimulatedBench
    BY DEF Inv, TypeOK
  <1>2. cmd \in Commands
    BY DEF Command, Commands
  <1>3. p = <<cmd>> \o Sync
    BY DEF InterruptProgram
  <1>4. Sendable(p) /\ Outcome(twin, p) = Apply(twin, cmd)
    BY <1>1, <1>2, <1>3, SingleProgram
  <1>5. Apply(twin, cmd) = IF c \notin Channels \/ ms < 0 THEN twin
                           ELSE InterruptOutput(twin, c, ms)
    BY DEF Apply, Command
  <1> HIDE DEF cmd
  <1> QED BY <1>4, <1>5, GenerateStep DEF InterruptCall, KnownChannel

\* sync() has the answer to *OPC?, so the inbox is empty: bench and twin agree.
LEMMA GenerateReturnsStep == Inv /\ GenerateReturns => Inv'
  <1> SUFFICES ASSUME Inv, GenerateReturns PROVE Inv'
    OBVIOUS
  <1>1. /\ busy /\ asked = "program" /\ (\A i \in DOMAIN inbox : inbox[i].verb # "*OPC?")
        /\ busy' = FALSE /\ result' = Raises("None")
        /\ bench' = bench /\ inbox' = inbox /\ asked' = asked /\ trace' = trace
        /\ twin' = twin /\ twinResult' = twinResult
        /\ stray' = stray /\ torn' = torn /\ made' = made
    BY DEF GenerateReturns, twins, thread
  <1>2. inbox = <<>>
    <2>1. inbox \in Seq(Commands) /\ (inbox # <<>> => inbox[Len(inbox)].verb = "*OPC?")
      BY DEF Inv, InboxOK
    <2>2. inbox # <<>> => Len(inbox) \in DOMAIN inbox
      BY <2>1
    <2> QED BY <1>1, <2>1, <2>2
  <1>3. TypeOK'
    BY <1>1, ResultTypes DEF Inv, TypeOK
  <1>4. InboxOK' /\ OnCourse' /\ TwinAnswers' /\ LookSettles'
    BY <1>1, <1>2 DEF Inv, InboxOK, OnCourse, Strayed, TwinAnswers, LookSettles
  <1>5. SameReadings'
    BY <1>1 DEF Inv, TwinAnswers, SameReadings, Raises
  <1>6. StrayHeals'
    BY <1>1 DEF StrayHeals
  <1> QED BY <1>3, <1>4, <1>5, <1>6 DEF Inv

LEMMA ServerExecutesStep == Inv /\ ServerExecutes => Inv'
  <1> SUFFICES ASSUME Inv, ServerExecutes PROVE Inv'
    OBVIOUS
  <1>1. /\ inbox # <<>> /\ bench' = Apply(bench, Head(inbox)) /\ inbox' = Tail(inbox)
        /\ busy' = busy /\ asked' = asked /\ trace' = trace /\ result' = result
        /\ twin' = twin /\ twinResult' = twinResult /\ torn' = torn /\ made' = made
        /\ stray' = stray \/ (stray.at = "level" /\ stray' = Gone)
    BY DEF ServerExecutes, twins
  <1>2. /\ inbox \in Seq(Commands) /\ Len(inbox) =< 5 /\ busy /\ asked = "program"
        /\ inbox[Len(inbox)].verb = "*OPC?"
    BY <1>1 DEF Inv, InboxOK
  <1>3. /\ Head(inbox) \in Commands /\ Tail(inbox) \in Seq(Commands)
        /\ Len(Tail(inbox)) = Len(inbox) - 1
        /\ \A i \in 1 .. Len(inbox) - 1 : Tail(inbox)[i] = inbox[i + 1]
    BY <1>1, <1>2, HeadTailProperties
  <1>4. bench \in SimulatedBench /\ twin \in SimulatedBench
    BY DEF Inv, TypeOK
  <1>5. bench' \in SimulatedBench /\ bench'.line_latched = bench.line_latched
    BY <1>1, <1>3, <1>4, ApplyKeeps
  <1>6. stray' \in Strays /\ (stray.at # "away" => stray'.at # "away")
        /\ (stray.at = "gone" => stray'.at = "gone")
        /\ (stray'.at = "away" => stray.at = "away")
    BY <1>1 DEF Inv, TypeOK, Strays, Gone, Away
  <1>7. InboxOK'
    <2>1. inbox' \in Seq(Commands) /\ Len(inbox') =< 5 /\ busy' /\ asked' = "program"
      BY <1>1, <1>2, <1>3
    <2>2. ASSUME inbox' # <<>> PROVE inbox'[Len(inbox')].verb = "*OPC?"
      <3>1. Len(inbox') \in 1 .. Len(inbox) - 1 /\ Len(inbox') + 1 = Len(inbox)
        BY <1>1, <1>2, <1>3, <2>2
      <3>2. inbox'[Len(inbox')] = inbox[Len(inbox)]
        BY <1>1, <1>3, <3>1
      <3> QED BY <1>2, <3>2
    <2> QED BY <2>1, <2>2 DEF InboxOK
  <1>8. OnCourse'
    <2>1. Outcome(bench', inbox') = Outcome(bench, inbox)
      BY <1>1, <1>2, <1>4, OutcomeStep
    <2> QED BY <1>1, <1>5, <1>6, <2>1 DEF Inv, OnCourse, Strayed
  <1>9. TypeOK'
    <2>1. \A i \in DOMAIN inbox' : inbox'[i] \in Commands
      BY <1>1, <1>3
    <2>2. \A i \in DOMAIN inbox' : inbox'[i].verb \in Verbs /\ inbox'[i].channel \in Callable
      BY <2>1, CommandTypes
    <2> QED BY <1>1, <1>4, <1>5, <1>6, <2>2 DEF Inv, TypeOK
  <1>10. TwinAnswers' /\ LookSettles'
    <2>1. asked \notin {"relays", "line"}
      BY <1>2
    <2> QED BY <1>1, <1>6, <2>1 DEF Inv, TwinAnswers, LookSettles
  <1>11. SameReadings' /\ StrayHeals'
    BY <1>1, <1>2 DEF SameReadings, StrayHeals
  <1> QED BY <1>7, <1>8, <1>9, <1>10, <1>11 DEF Inv

\* Two benches that differ in the latch alone settle to the same line, or the
\* voltage is in the dead band.
LEMMA SettleAlike ==
  ASSUME NEW t \in SimulatedBench, NEW l \in BOOLEAN
  PROVE  LET b == Latched(t, l)
         IN /\ SettlesTo(b) = SettlesTo(t) \/ DeadBand(t)
            /\ l = t.line_latched => SettlesTo(b) = SettlesTo(t)
  <1> DEFINE b == Latched(t, l)
  <1>1. /\ b.hole_dropped = t.hole_dropped /\ b.line_latched = l
        /\ InHold(b) = InHold(t) /\ InPickUp(b) = InPickUp(t)
    BY LatchedFields, LatchReads
  <1> HIDE DEF b
  <1>2. InPickUp(t) => InHold(t)
    BY PickUpInHold
  <1>3. l \in BOOLEAN /\ t.line_latched \in BOOLEAN
    BY DEF SimulatedBench
  <1>4. SettlesTo(b) = SettlesTo(t) \/ DeadBand(t)
    BY <1>1, <1>2, <1>3 DEF SettlesTo, DeadBand
  <1>5. l = t.line_latched => SettlesTo(b) = SettlesTo(t)
    BY <1>1 DEF SettlesTo
  <1> QED BY <1>4, <1>5 DEF b

\* A look settles both benches at once.
LEMMA LookStep ==
  ASSUME Inv, NEW what \in {"relays", NoDetector} \cup Detectors, Look(what)
  PROVE  Inv'
  <1>1. /\ ~busy /\ made < MaxCalls /\ made' = made + 1 /\ asked' = what /\ torn' = FALSE
        /\ inbox' = inbox /\ stray' = stray /\ busy' = TRUE
        /\ trace' = trace /\ result' = result
    BY DEF Look, Asked, CanCall
  <1>2. /\ what = NoDetector => /\ twinResult' = Raises("KeyError")
                                /\ bench' = bench /\ twin' = twin
        /\ what # NoDetector =>
             /\ bench' = SettleLine(bench) /\ twin' = SettleLine(twin)
             /\ twinResult' = Gives(IF what = "relays" THEN RelayStates(twin')
                                    ELSE [of |-> what, tripped |-> RelayStates(twin')[what]])
    BY DEF Look
  <1>3. bench \in SimulatedBench /\ twin \in SimulatedBench /\ bench.line_latched \in BOOLEAN
        /\ twin.line_latched \in BOOLEAN
    BY DEF Inv, TypeOK, SimulatedBench
  <1>4. inbox = <<>> /\ bench = Latched(twin, bench.line_latched)
    BY <1>1, OutcomeOfNothing DEF Inv, InboxOK, OnCourse
  <1>5. what # NoDetector =>
          /\ bench' = Latched(bench, SettlesTo(bench)) /\ twin' = Latched(twin, SettlesTo(twin))
          /\ SettlesTo(bench) \in BOOLEAN /\ SettlesTo(twin) \in BOOLEAN
    BY <1>2, <1>3, SettleShape
  <1>6. bench' \in SimulatedBench /\ twin' \in SimulatedBench
    BY <1>2, <1>3, <1>5, LatchedFields
  <1>7. bench' = Latched(twin', bench'.line_latched)
    <2>1. CASE what = NoDetector
      BY <1>2, <1>4, <2>1
    <2>2. CASE what # NoDetector
      <3>1. bench'.line_latched = SettlesTo(bench)
        BY <1>3, <1>5, <2>2, LatchedFields
      <3>2. Latched(twin', SettlesTo(bench)) = Latched(twin, SettlesTo(bench))
        BY <1>3, <1>5, <2>2, LatchedFields
      <3>3. Latched(Latched(twin, bench.line_latched), SettlesTo(bench))
              = Latched(twin, SettlesTo(bench))
        BY <1>3, LatchedFields
      <3>4. bench' = Latched(twin, SettlesTo(bench))
        BY <1>4, <1>5, <2>2, <3>3
      <3> QED BY <3>1, <3>2, <3>4
    <2> QED BY <2>1, <2>2
  <1>8. ~Strayed => bench'.line_latched = twin'.line_latched
    <2> SUFFICES ASSUME ~Strayed PROVE bench'.line_latched = twin'.line_latched
      OBVIOUS
    <2>1. bench.line_latched = twin.line_latched
      BY DEF Inv, OnCourse
    <2>2. bench = twin
      BY <1>3, <1>4, <2>1, LatchedFields
    <2> QED BY <1>2, <2>2
  <1>9. what # NoDetector => bench'.line_latched = twin'.line_latched \/ DeadBand(twin')
    <2> SUFFICES ASSUME what # NoDetector
                 PROVE  bench'.line_latched = twin'.line_latched \/ DeadBand(twin')
      OBVIOUS
    <2>1. bench'.line_latched = SettlesTo(bench) /\ twin'.line_latched = SettlesTo(twin)
      BY <1>3, <1>5, LatchedFields
    <2>2. SettlesTo(bench) = SettlesTo(twin) \/ DeadBand(twin)
      BY <1>3, <1>4, SettleAlike
    <2>3. DeadBand(twin') = DeadBand(twin)
      BY <1>3, <1>5, LatchReads DEF DeadBand
    <2> QED BY <2>1, <2>2, <2>3
  <1>10. OnCourse'
    BY <1>1, <1>4, <1>7, <1>8, OutcomeOfNothing DEF OnCourse, Strayed
  <1>11. InboxOK'
    BY <1>1, <1>4 DEF InboxOK
  <1>12. TwinAnswers'
    <2>1. NoDetector \notin Detectors /\ NoDetector # "relays" /\ NoDetector # "program"
          /\ "program" \notin Detectors /\ "relays" \notin Detectors
      BY LanRackAssumption
    <2> QED BY <1>1, <1>2, <2>1 DEF TwinAnswers
  <1>13. LookSettles'
    <2>1. NoDetector # "relays" /\ NoDetector # "line"
      BY LanRackAssumption
    <2> QED BY <1>1, <1>9, <2>1 DEF LookSettles
  <1>14. TypeOK'
    <2>1. made' \in 0..MaxCalls
      BY <1>1, LanRackAssumption DEF Inv, TypeOK
    <2>2. twinResult' \in Results
      <3>1. CASE what = NoDetector
        BY <1>2, <3>1, ResultTypes
      <3>2. CASE what = "relays" /\ what # NoDetector
        BY <1>2, <1>6, <3>2, ResultTypes
      <3>3. CASE what \in Detectors
        <4>1. what # NoDetector /\ what # "relays"
          BY <3>3, LanRackAssumption
        <4>2. RelayStates(twin')[what] \in BOOLEAN
          BY <1>6, <3>3, ReadingsType
        <4>3. [of |-> what, tripped |-> RelayStates(twin')[what]] \in Traces
          BY <3>3, <4>2 DEF Traces
        <4> QED BY <1>2, <4>1, <4>3, ResultTypes
      <3> QED BY <3>1, <3>2, <3>3
    <2>3. asked' \in Asks
      BY <1>1 DEF Asks
    <2> QED BY <1>1, <1>4, <1>6, <2>1, <2>2, <2>3 DEF Inv, TypeOK
  <1>15. SameReadings' /\ StrayHeals'
    BY <1>1 DEF SameReadings, StrayHeals
  <1> QED BY <1>10, <1>11, <1>12, <1>13, <1>14, <1>15 DEF Inv

LEMMA LookReturnsStep == Inv /\ LookReturns => Inv'
  <1> SUFFICES ASSUME Inv, LookReturns PROVE Inv'
    OBVIOUS
  <1>1. /\ busy /\ asked \in {"relays", NoDetector} \cup Detectors /\ busy' = FALSE
        /\ trace' = IF asked \in Detectors
                    THEN [of |-> asked, tripped |-> RelayStates(bench)[asked]] ELSE trace
        /\ result' = Gives(IF asked = "relays" THEN RelayStates(bench) ELSE trace')
        /\ bench' = bench /\ inbox' = inbox /\ asked' = asked
        /\ twin' = twin /\ twinResult' = twinResult
        /\ stray' = stray /\ torn' = torn /\ made' = made
    BY DEF LookReturns, twins, thread
  <1>2. /\ NoDetector \notin Detectors /\ NoDetector # "relays" /\ NoDetector # "program"
        /\ "program" \notin Detectors /\ "relays" \notin Detectors /\ "line" \in Detectors
    BY LanRackAssumption
  <1>3. inbox = <<>>
    BY <1>1, <1>2 DEF Inv, InboxOK
  <1>4. bench \in SimulatedBench /\ twin \in SimulatedBench /\ bench.line_latched \in BOOLEAN
        /\ twin.line_latched \in BOOLEAN
    BY DEF Inv, TypeOK, SimulatedBench
  <1>5. bench = Latched(twin, bench.line_latched)
    BY <1>3, OutcomeOfNothing DEF Inv, OnCourse
  <1>6. trace' \in Traces
    <2>1. CASE asked \in Detectors
      <3>1. RelayStates(bench)[asked] \in BOOLEAN
        BY <1>4, <2>1, ReadingsType
      <3> QED BY <1>1, <2>1, <3>1 DEF Traces
    <2>2. CASE asked \notin Detectors
      BY <1>1, <2>2 DEF Inv, TypeOK
    <2> QED BY <2>1, <2>2
  <1>7. TypeOK'
    <2>1. result' \in Results
      BY <1>1, <1>4, <1>6, ResultTypes
    <2> QED BY <1>1, <1>6, <2>1 DEF Inv, TypeOK
  <1>8. InboxOK' /\ OnCourse' /\ TwinAnswers' /\ LookSettles'
    BY <1>1, <1>3 DEF Inv, InboxOK, OnCourse, Strayed, TwinAnswers, LookSettles
  <1>9. SameReadings'
    <2>1. CASE asked = NoDetector
      BY <1>1, <2>1 DEF Inv, TwinAnswers, SameReadings, Raises
    <2>2. CASE asked \in {"relays", "line"} /\ Strayed
      BY <1>1, <2>2 DEF SameReadings, Strayed
    <2>3. CASE asked = "relays" /\ ~Strayed
      <3>1. bench = twin
        BY <1>4, <1>5, <2>3, LatchedFields DEF Inv, OnCourse
      <3> QED BY <1>1, <2>3, <3>1 DEF Inv, TwinAnswers, SameReadings
    <2>4. CASE asked \in Detectors /\ (asked = "line" => ~Strayed)
      <3>1. RelayStates(bench)[asked] = RelayStates(twin)[asked]
        <4>1. CASE asked = "line"
          <5>1. bench = twin
            BY <1>4, <1>5, <2>4, <4>1, LatchedFields DEF Inv, OnCourse
          <5> QED BY <5>1
        <4>2. CASE asked # "line"
          BY <1>4, <1>5, <2>4, <4>2, ReadingsAgree
        <4> QED BY <4>1, <4>2
      <3>2. result' = Gives([of |-> asked, tripped |-> RelayStates(twin)[asked]])
        BY <1>1, <1>2, <2>4, <3>1
      <3> QED BY <1>1, <2>4, <3>2 DEF Inv, TwinAnswers, SameReadings
    <2> QED BY <1>1, <2>1, <2>2, <2>3, <2>4
  <1>10. StrayHeals'
    <2> SUFFICES ASSUME asked \in {"relays", "line"}, ~torn
                 PROVE  LET line(r) == IF asked = "relays" THEN r.value.line ELSE r.value.tripped
                        IN line(result') = line(twinResult) \/ DeadBand(twin)
      BY <1>1 DEF StrayHeals, DeadBand
    <2>1. bench.line_latched = twin.line_latched \/ DeadBand(twin)
      BY <1>1 DEF Inv, LookSettles
    <2>2. /\ RelayStates(bench).line = bench.line_latched
          /\ RelayStates(bench)["line"] = bench.line_latched
          /\ RelayStates(twin).line = twin.line_latched
          /\ RelayStates(twin)["line"] = twin.line_latched
      BY <1>4, ReadingsType
    <2>3. CASE asked = "relays"
      <3>1. result' = Gives(RelayStates(bench)) /\ twinResult = Gives(RelayStates(twin))
        BY <1>1, <2>3 DEF Inv, TwinAnswers
      <3> QED BY <2>1, <2>2, <2>3, <3>1 DEF Gives
    <2>4. CASE asked = "line"
      <3>1. /\ result' = Gives([of |-> "line", tripped |-> RelayStates(bench)["line"]])
            /\ twinResult = Gives([of |-> "line", tripped |-> RelayStates(twin)["line"]])
        BY <1>1, <1>2, <2>4 DEF Inv, TwinAnswers
      <3> QED BY <2>1, <2>2, <2>4, <3>1 DEF Gives
    <2> QED BY <2>3, <2>4
  <1> QED BY <1>7, <1>8, <1>9, <1>10 DEF Inv

\* What the multimeter and OUTP? report does not depend on the latch.
LEMMA AskStep ==
  ASSUME Inv, NEW what \in {"meter", "output"}, Asked(what),
         UNCHANGED <<bench, busy, trace, twin>>,
         result' \in Results, twinResult' \in Results,
         twinResult'.raises = "None" => result' = twinResult'
  PROVE  Inv'
  <1>1. /\ ~busy /\ made < MaxCalls /\ made' = made + 1 /\ asked' = what /\ torn' = FALSE
        /\ inbox' = inbox /\ stray' = stray /\ bench' = bench /\ busy' = busy
        /\ trace' = trace /\ twin' = twin
    BY DEF Asked, CanCall
  <1>2. inbox = <<>>
    BY <1>1 DEF Inv, InboxOK
  <1>3. TypeOK'
    <2>1. made' \in 0..MaxCalls
      BY <1>1, LanRackAssumption DEF Inv, TypeOK
    <2>2. asked' \in Asks
      BY <1>1 DEF Asks
    <2> QED BY <1>1, <2>1, <2>2 DEF Inv, TypeOK
  <1>4. InboxOK' /\ OnCourse' /\ TwinAnswers' /\ LookSettles'
    BY <1>1, <1>2 DEF Inv, InboxOK, OnCourse, Strayed, TwinAnswers, LookSettles
  <1>5. SameReadings' /\ StrayHeals'
    BY <1>1 DEF SameReadings, StrayHeals
  <1> QED BY <1>3, <1>4, <1>5 DEF Inv

LEMMA BenchesAgree ==
  ASSUME Inv, ~busy
  PROVE  /\ bench \in SimulatedBench /\ twin \in SimulatedBench
         /\ bench = Latched(twin, bench.line_latched)
         /\ bench.channels = twin.channels
         /\ \A q : Measured(bench, q) = Measured(twin, q)
  <1>1. bench \in SimulatedBench /\ twin \in SimulatedBench /\ bench.line_latched \in BOOLEAN
    BY DEF Inv, TypeOK, SimulatedBench
  <1>2. bench = Latched(twin, bench.line_latched)
    BY OutcomeOfNothing DEF Inv, InboxOK, OnCourse
  <1> DEFINE l == bench.line_latched
  <1>3. Latched(twin, l).channels = twin.channels
    BY <1>1, LatchedFields
  <1>4. \A q : Measured(Latched(twin, l), q) = Measured(twin, q)
    BY <1>1, LatchReads
  <1> QED BY <1>1, <1>2, <1>3, <1>4

LEMMA MeasureStep ==
  ASSUME Inv, NEW quantity \in Quantities, Measure(quantity)
  PROVE  Inv'
  <1>1. /\ Asked("meter") /\ UNCHANGED <<bench, busy, trace, twin>>
        /\ result' = Gives([measured |-> Measured(bench, quantity)])
        /\ twinResult' = Gives([measured |-> Measured(twin, quantity)])
    BY DEF Measure
  <1>2. ~busy
    BY <1>1 DEF Asked, CanCall
  <1>3. Measured(bench, quantity) = Measured(twin, quantity) /\ Measured(bench, quantity) \in Int
    BY <1>2, BenchesAgree, ReadingsType
  <1>4. result' \in Results /\ twinResult' = result'
    BY <1>1, <1>3, ResultTypes
  <1> QED BY <1>1, <1>4, AskStep

LEMMA OutputStateStep ==
  ASSUME Inv, NEW c \in Callable, OutputState(c)
  PROVE  Inv'
  <1>1. /\ Asked("output") /\ UNCHANGED <<bench, busy, trace, twin>>
        /\ result' = IF c \in Channels THEN Gives([enabled |-> bench.channels[c].enabled])
                     ELSE Raises("TimeoutError")
        /\ twinResult' = IF c \in Channels THEN Gives([enabled |-> twin.channels[c].enabled])
                         ELSE Raises("KeyError")
    BY DEF OutputState
  <1>2. ~busy
    BY <1>1 DEF Asked, CanCall
  <1>3. CASE c \in Channels
    <2>1. bench.channels[c].enabled = twin.channels[c].enabled
          /\ bench.channels[c].enabled \in BOOLEAN
      BY <1>2, <1>3, BenchesAgree DEF SimulatedBench, ChannelState
    <2>2. result' \in Results /\ twinResult' = result'
      BY <1>1, <1>3, <2>1, ResultTypes
    <2> QED BY <1>1, <2>2, AskStep
  <1>4. CASE c \notin Channels
    <2>1. result' \in Results /\ twinResult' \in Results /\ twinResult'.raises = "KeyError"
      BY <1>1, <1>4, ResultTypes DEF Raises
    <2> QED BY <1>1, <2>1, AskStep
  <1> QED BY <1>3, <1>4

-----------------------------------------------------------------------------
(* The stray read.                                                           *)

\* It reads on: nothing but its own record changes, and it has set out.
LEMMA StrayReadStep ==
  ASSUME Inv, stray' \in Strays, stray'.at # "away", stray.at # "gone",
         UNCHANGED <<busy, asked, inbox, trace, result, twins, made, bench, torn>>
  PROVE  Inv'
  <1>1. /\ busy' = busy /\ asked' = asked /\ inbox' = inbox /\ trace' = trace
        /\ result' = result /\ twin' = twin /\ twinResult' = twinResult /\ made' = made
        /\ bench' = bench /\ torn' = torn
    BY DEF twins
  <1>2. TypeOK'
    BY <1>1 DEF Inv, TypeOK
  <1>3. InboxOK' /\ OnCourse' /\ TwinAnswers' /\ LookSettles'
    BY <1>1 DEF Inv, InboxOK, OnCourse, Strayed, TwinAnswers, LookSettles
  <1>4. SameReadings' /\ StrayHeals'
    BY <1>1 DEF Inv, SameReadings, StrayHeals, Strayed
  <1> QED BY <1>2, <1>3, <1>4 DEF Inv

LEMMA StrayReadsSteps ==
  ASSUME Inv, StrayReadsAc \/ StrayReadsKind \/ StrayReadsLevel \/ StrayReadsLatch
  PROVE  Inv'
  <1>1. /\ stray \in Strays /\ bench \in SimulatedBench
        /\ bench.line_latched \in BOOLEAN /\ bench.hole_dropped \in BOOLEAN
    BY DEF Inv, TypeOK, SimulatedBench
  <1>2. CASE StrayReadsAc
    <2>1. LineIsAc(bench) \in BOOLEAN
      BY DEF LineIsAc, IsAc
    <2>2. stray' \in Strays /\ stray'.at = "kind"
      BY <1>1, <1>2, <2>1 DEF StrayReadsAc, Reads, Strays
    <2> QED BY <1>2, <2>2, StrayReadStep DEF StrayReadsAc, Reads
  <1>3. CASE StrayReadsKind
    <2>1. stray' \in Strays /\ stray'.at = "level"
      BY <1>1, <1>3 DEF StrayReadsKind, Reads, Strays
    <2> QED BY <1>3, <2>1, StrayReadStep DEF StrayReadsKind, Reads
  <1>4. CASE StrayReadsLevel
    <2>1. stray.source \in {"none", "rms", "offset", "amplitude"}
      BY <1>1 DEF Strays
    <2>2. ASSUME NEW low, NEW high PROVE StrayWithin(low, high) \in BOOLEAN
      <3>1. CASE stray.source = "none"
        BY <3>1 DEF StrayWithin
      <3>2. CASE stray.source = "offset"
        BY <3>2 DEF StrayWithin
      <3>3. CASE stray.source = "amplitude"
        BY <3>3 DEF StrayWithin
      <3>4. CASE stray.source = "rms"
        BY <3>4 DEF StrayWithin
      <3> QED BY <2>1, <3>1, <3>2, <3>3, <3>4
    <2>3. stray' \in Strays /\ stray'.at = "latch"
      BY <1>1, <1>4, <2>2 DEF StrayReadsLevel, Reads, Strays
    <2> QED BY <1>4, <2>3, StrayReadStep DEF StrayReadsLevel, Reads
  <1>5. CASE StrayReadsLatch
    <2>1. stray.hold \in BOOLEAN /\ stray.in \in BOOLEAN
      BY <1>1 DEF Strays
    <2>2. (/\ ~bench.hole_dropped
           /\ IF bench.line_latched THEN stray.hold ELSE stray.in) \in BOOLEAN
      BY <1>1, <2>1
    <2>3. stray' \in Strays /\ stray'.at = "write"
      BY <1>1, <1>5, <2>2 DEF StrayReadsLatch, Reads, Strays
    <2> QED BY <1>5, <2>3, StrayReadStep DEF StrayReadsLatch, Reads
  <1> QED BY <1>2, <1>3, <1>4, <1>5

\* The write is to the latch and nothing else, between commands or after them.
LEMMA StrayWritesStep == Inv /\ StrayWrites => Inv'
  <1> SUFFICES ASSUME Inv, StrayWrites PROVE Inv'
    OBVIOUS
  <1>1. /\ stray.at = "write" /\ bench' = Latched(bench, stray.latched) /\ torn' = busy
        /\ stray' = Gone
        /\ busy' = busy /\ asked' = asked /\ inbox' = inbox /\ trace' = trace
        /\ result' = result /\ twin' = twin /\ twinResult' = twinResult /\ made' = made
    BY DEF StrayWrites, Reads, Latched, twins
  <1>2. bench \in SimulatedBench /\ twin \in SimulatedBench /\ stray.latched \in BOOLEAN
        /\ bench.line_latched \in BOOLEAN
    BY DEF Inv, TypeOK, Strays, SimulatedBench
  <1>3. stray' \in Strays /\ stray'.at = "gone" /\ busy \in BOOLEAN
    BY <1>1 DEF Gone, Away, Strays, Inv, TypeOK
  <1>4. bench' \in SimulatedBench /\ bench'.line_latched = stray.latched
    BY <1>1, <1>2, LatchedFields
  <1>5. TypeOK'
    BY <1>1, <1>3, <1>4 DEF Inv, TypeOK
  <1>6. OnCourse'
    <2>1. Outcome(bench', inbox) = Latched(Outcome(bench, inbox), stray.latched)
      BY <1>1, <1>2, OutcomeKeeps DEF Inv, InboxOK
    <2>2. Latched(Latched(twin, bench.line_latched), stray.latched)
            = Latched(twin, stray.latched)
      BY <1>2, LatchedFields
    <2>3. Outcome(bench, inbox) = Latched(twin, bench.line_latched)
      BY DEF Inv, OnCourse
    <2> QED BY <1>1, <1>3, <1>4, <2>1, <2>2, <2>3 DEF OnCourse, Strayed
  <1>7. InboxOK' /\ TwinAnswers'
    BY <1>1 DEF Inv, InboxOK, TwinAnswers
  <1>8. LookSettles'
    BY <1>1, <1>3 DEF LookSettles
  <1>9. SameReadings'
    BY <1>1, <1>3 DEF Inv, SameReadings, Strayed
  <1>10. StrayHeals'
    <2>1. ~torn
      BY <1>1 DEF Inv, LookSettles
    <2> QED BY <1>1, <2>1 DEF Inv, StrayHeals
  <1> QED BY <1>5, <1>6, <1>7, <1>8, <1>9, <1>10 DEF Inv

-----------------------------------------------------------------------------
(* The theorems.                                                             *)

LEMMA InvInit == Init => Inv
  <1> SUFFICES ASSUME Init PROVE Inv
    OBVIOUS
  <1>1. InitBench \in SimulatedBench
    BY BenchAssumption
    DEF InitBench, IdleChannel, Silence, SimulatedBench, ChannelState
  <1>2. PICK on \in BOOLEAN : bench = SetOutput(InitBench, VoltageChannel, on)
    BY DEF Init
  <1>3. SetOutput(InitBench, VoltageChannel, on) \in SimulatedBench
    <2> DEFINE cmd == Command("OUTP", VoltageChannel, on)
    <2>1. cmd \in Commands /\ VoltageChannel \in Channels
      BY BenchAssumption DEF Command, Commands, Callable
    <2>2. Apply(InitBench, cmd) = SetOutput(InitBench, VoltageChannel, on)
      BY <2>1 DEF Apply, Command
    <2> QED BY <1>1, <2>1, <2>2, ApplyKeeps
  <1>4. bench \in SimulatedBench /\ twin = bench
    BY <1>2, <1>3 DEF Init
  <1>5. /\ inbox = <<>> /\ busy = FALSE /\ asked = "nothing" /\ trace = NoTrace
        /\ stray = Away /\ torn = FALSE /\ made = 0
        /\ result = Raises("None") /\ twinResult = Raises("None")
    BY DEF Init
  <1>6. TypeOK
    <2>1. trace \in Traces /\ asked \in Asks /\ stray \in Strays
      BY <1>5 DEF Traces, Asks, Strays, Away
    <2>2. result \in Results /\ twinResult \in Results
      BY <1>5, ResultTypes
    <2>3. made \in 0..MaxCalls
      BY <1>5, LanRackAssumption
    <2>4. \A i \in DOMAIN inbox : inbox[i].verb \in Verbs /\ inbox[i].channel \in Callable
      <3>1. DOMAIN inbox = {}
        BY <1>5
      <3> QED BY <3>1
    <2> QED BY <1>4, <1>5, <2>1, <2>2, <2>3, <2>4 DEF TypeOK
  <1>7. OnCourse
    <2>1. Latched(bench, bench.line_latched) = bench
      BY <1>4, LatchedFields DEF SimulatedBench
    <2> QED BY <1>4, <1>5, <2>1, OutcomeOfNothing DEF OnCourse
  <1>8. InboxOK /\ TwinAnswers /\ LookSettles
    BY <1>5 DEF InboxOK, TwinAnswers, LookSettles
  <1>9. SameReadings /\ StrayHeals
    BY <1>5 DEF SameReadings, StrayHeals
  <1> QED BY <1>6, <1>7, <1>8, <1>9 DEF Inv

LEMMA InvNext == Inv /\ Next => Inv'
  <1> SUFFICES ASSUME Inv, Next PROVE Inv'
    OBVIOUS
  <1>1. /\ 0 \in Levels /\ 0 \in Offsets /\ 0 \in HarmonicLevels /\ LineHoleRide \in Int
        /\ Durations \subseteq Int /\ NoChannel \in Callable /\ Channels \subseteq Callable
    BY BenchAssumption DEF Callable
  <1>2. ASSUME NEW c \in Callable, NEW amplitude \in Levels, NEW offset \in Offsets,
               ConfigureSineCall(c, amplitude, offset)
        PROVE  Inv'
    BY <1>2, SineCallStep
  <1>3. ASSUME NEW c \in Callable, NEW level \in Levels, ConfigureDcCall(c, level)
        PROVE  Inv'
    BY <1>3, DcCallStep
  <1>4. ASSUME NEW c \in Callable, NEW order \in Orders, NEW level \in HarmonicLevels,
               AddHarmonicCall(c, order, level)
        PROVE  Inv'
    BY <1>4, HarmonicCallStep
  <1>5. ASSUME NEW c \in Callable, NEW on \in BOOLEAN, OutputCall(c, on)
        PROVE  Inv'
    BY <1>5, OutputCallStep
  <1>6. ASSUME NEW c \in Callable, NEW ms \in Int, InterruptCall(c, ms)
        PROVE  Inv'
    BY <1>6, InterruptCallStep
  <1>7. CASE GetRelayStates
    BY <1>7, LookStep DEF GetRelayStates
  <1>8. ASSUME NEW det \in Detectors \cup {NoDetector}, CaptureRelay(det) PROVE Inv'
    BY <1>8, LookStep DEF CaptureRelay
  <1>9. ASSUME NEW quantity \in Quantities, Measure(quantity) PROVE Inv'
    BY <1>9, MeasureStep
  <1>10. ASSUME NEW c \in Callable, OutputState(c) PROVE Inv'
    BY <1>10, OutputStateStep
  <1>11. CASE GenerateReturns \/ ServerExecutes \/ LookReturns
    BY <1>11, GenerateReturnsStep, ServerExecutesStep, LookReturnsStep
  <1>12. CASE StrayReadsAc \/ StrayReadsKind \/ StrayReadsLevel \/ StrayReadsLatch
    BY <1>12, StrayReadsSteps
  <1>13. CASE StrayWrites
    BY <1>13, StrayWritesStep
  <1> QED
    BY <1>1, <1>2, <1>3, <1>4, <1>5, <1>6, <1>7, <1>8, <1>9, <1>10, <1>11, <1>12, <1>13
    DEF Next

LEMMA Invariance == Spec => []Inv
  <1>1. Inv /\ UNCHANGED vars => Inv'
    <2> SUFFICES ASSUME Inv, UNCHANGED vars PROVE Inv'
      OBVIOUS
    <2>1. /\ busy' = busy /\ asked' = asked /\ inbox' = inbox /\ trace' = trace
          /\ result' = result /\ twin' = twin /\ twinResult' = twinResult /\ made' = made
          /\ bench' = bench /\ torn' = torn /\ stray' = stray
      BY DEF vars, twins, thread
    <2> QED
      BY <2>1
      DEF Inv, TypeOK, InboxOK, OnCourse, Strayed, TwinAnswers, LookSettles,
          SameReadings, StrayHeals
  <1> QED BY InvInit, InvNext, <1>1, PTL DEF Spec

\* Benches, inbox, results and the stray thread keep their types, whatever is
\* called on whatever channel.
THEOREM RackTypeCorrect == Spec => []TypeOK
  BY Invariance, PTL DEF Inv

\* Between the calls of the generator driver the emulator's bench is what the
\* in-process drivers would have made of it; only a stray read moves the latch.
THEOREM NetworkKeepsParity == Spec => []TransportParity
  <1>1. Inv => TransportParity
    <2> SUFFICES ASSUME Inv, ~busy
                 PROVE  bench = IF Strayed THEN [twin EXCEPT !.line_latched = bench.line_latched]
                                ELSE twin
      BY DEF TransportParity
    <2>1. bench = Latched(twin, bench.line_latched) /\ twin \in SimulatedBench
      BY BenchesAgree
    <2>2. ~Strayed => bench = twin
      BY <2>1, LatchedFields DEF Inv, OnCourse, SimulatedBench
    <2> QED BY <2>1, <2>2 DEF Latched
  <1> QED BY <1>1, Invariance, PTL

\* A call that succeeds in process returns the same over the network, but for a
\* line a stray read has come near.
THEOREM NetworkReadsAlike == Spec => []SameReadings
  BY Invariance, PTL DEF Inv

\* Whatever a stray read wrote between two commands, the next look at the line
\* tells what the in-process device tells, outside the dead band.
THEOREM StrayReadsHeal == Spec => []StrayHeals
  BY Invariance, PTL DEF Inv
=============================================================================
