# A model of the HIL test framework

A verification project for `hiltf`, a hardware-in-the-loop test framework: a
signal generator, a multimeter, an oscilloscope and a device under test, four
test cases, and three ways to reach the instruments (in process, raw sockets,
PyVISA). TLA+ modules model its parts, TLC checks them on small instances, and
TLAPS proves the theorems of eight `...Proofs` modules for every value of the
constants. `PROJECT.json` links every definition to the source lines it models.

## 1. The system

| Component | State | Operations | Talks to |
|---|---|---|---|
| Simulated bench and device, `layer3_hal/simulation.py` | per channel: output, waveform, amplitude, offset, harmonics; the line latch; the drop-out after a long hole; the analog correction | configure DC or sine, harmonics, output on/off, interrupt, reset; every reading of the relays also settles the latch | called by the in-process drivers, and by both emulators from their server threads, without a lock |
| In-process drivers, `sim_drivers.py`, `base_driver.py` | the bench, a connected flag | the HAL contract, one call each | bench |
| UDP device driver, `dut_driver.py` | socket, cached identity; per transaction the attempt and the deadline | connect, disconnect, relay states, analog reading, correction, identity | device emulator, by datagrams |
| Binary codecs, `dut_protocol.py` | none | encode and decode a frame, a request, each reply | driver and emulator |
| Device emulator, `emulators/dut_server.py` | the bench; losses still to inject | one thread per datagram: execute, reply, or NACK | bench |
| SCPI session, `scpi_socket.py` | socket, receive buffer | write, query, query a block, sync, safe query, drain | SCPI emulator, by a byte stream |
| SCPI emulator, `emulators/scpi_server.py` | per session: error queue, last trace; shared: the bench | one thread per connection, commands in order | bench |
| LAN drivers, `lan_drivers.py`, vocabulary `scpi_commands.py` | a session each | a HAL call is a program of commands closed by `sync()` | three independent sessions |
| PyVISA drivers, `visa_drivers.py` | resource manager, instrument | open, close, query, query a block, device clear; the same programs | PyVISA |
| Instrument controller, `instrument_controller.py` | the four drivers | connect all or none, disconnect all, `with` | drivers |
| Test-case engine, `keywords.py`; plan, `plan.py` | none of its own | four cases: calibrate, stimulate, ask, judge, publish | controller, bus |
| Event bus and recorder, `event_bus.py`, `report_recorder.py` | rows by (suite, case), the steps of each | publish, outcome, all passed, render | - |
| Robot library and suites, `layer1_suites/`; `examples/run_all.py` | the controller | open, run all cases, verdict, report, close | everything above |
| Config loader, `config_loader.py`; registry and factory, `layer3_hal/factory.py` | none | a file becomes a configuration, a configuration four drivers and perhaps a bench, or an exception | opened by the library and the script |
| Emulator process, static site | - | - | not modelled, see section 7 |

What is hard about it, and what makes each part correct:

* **The latch is driven by reads.** The device declares the line inside a pick-up
  window, holds it inside a wider one, and drops out after a supply hole longer
  than its ride-through. Settling happens in whichever call reads first, so the
  number and the order of reads must not matter.
* **The three transports must be one.** `configure_sine` is one method in process
  and six SCPI commands over the wire, executed by another thread, and the reader
  of the result sits on another session. Only `sync()` orders them.
* **Datagrams are lost, late, reordered and duplicated**, and a reply carries no
  number that says which request it answers. A call must end, with a fitting
  answer or an error.
* **A TCP stream keeps bytes in order but not in pieces**, and an answer that
  comes after its timeout is still in the stream when the next query reads. A
  connection may break under a call, and be opened anew.
* **The emulator locks nothing.** A request that arrives late reads the bench in
  several steps in a thread of its own, between the commands of a program, and
  writes the latch when it gets there.
* **A configuration is text**: what is missing, misspelt or not a number must be
  refused before anything is connected, and what is not refused must be a rack
  that measures one device.
* **A test case is a protocol on a device with memory.** It brackets, sweeps and
  compares; what a PASS says of the device is not what a step says of a reading.
* **Anything may raise**: a connect after other drivers have connected, an
  instrument between switching an output on and off, a close, the report.
  A green verdict must still mean that everything ran and passed.
* **Times are read off sampled traces of a finite gate.** An edge is found to the
  sample, a pulse may be cut off at the end of the gate, and no edge is infinite.

`PROJECT.json` lists these as hazards at their lines, with the properties aimed
at each.

## 2. The modules

| Module | Models | Over |
|---|---|---|
| `BenchState` | the bench as a value, its calls as operators | - |
| `Bench` | the in-process drivers on one bench | `BenchState` |
| `HystereticLine` | abstract specification: what the device promises about the line | - |
| `DutLink` | UDP driver, network, device emulator | `DutService` (as its abstraction) |
| `DutService` | abstract specification: what the device driver promises its caller | - |
| `DutCodec` | the binary protocol, byte by byte | - |
| `DutWire` | `DutLink` with the bytes of every datagram, whole or cut short | `DutLink`, `DutCodec` |
| `ScpiSession` | a SCPI session, raw socket or PyVISA: client, stream, handler thread | - |
| `LanRack` | LAN drivers, SCPI emulator and device on one bench, beside an in-process twin | `BenchState` |
| `RackConfig` | config loader, registry, context | - |
| `Campaign` | controller, cases, recorder, suites and script | `RackConfig` |
| `Timing` | rendering, edges, gates and timing verdicts | - |
| `Cases` | the four cases against a device of any thresholds | `Timing` |
| `BenchProofs`, `DutLinkProofs`, `DutHistoryProofs`, `DutWireProofs`, `ScpiSessionProofs`, `LanRackProofs`, `CampaignProofs`, `CasesProofs` | theorems, section 4 | their module, TLAPS |
| `MC...` | values of the constants for TLC | the module they are named after |

### Bench

`bench` is the `SimulatedBench`: `channels`, `line_latched`, `hole_dropped` and
`correction` are its fields. One action per HAL operation; a call on a channel
that does not exist raises `KeyError` and a negative interruption `ValueError`
before anything is touched. `GetRelayStates` stands for `get_relay_states` and
for every capture of a detector trace: both go through `_settle_line`, and no
write does. Levels are integers. An RMS is only ever compared with a threshold,
so it is compared by its square (`Rms8`), exactly. The generator frequency
changes nothing that is read here and is left out.

`history` records what a reader of the log knows (the last reading, whether the
voltage has left the hold window since, whether a long hole is unanswered). No
operation reads it.

`HystereticLine` forgets channels and waveforms: a zone, a drop-out, a
declaration. `Bench` implements it under `zone <- LineZone`.

### DutLink, DutService, DutCodec, DutWire

`calls` is the sequence of transactions; the last may be pending. A datagram
names the call and the attempt that sent it; the program puts neither on the
wire, and no action of the driver looks at them: `Verdict` compares what
`_transact` and the operation compare (message id, NACK echo, channel echo).
`Tick` moves the deadline of an attempt, `Retry` sends again, `GiveUp` raises.
Each request datagram is handled by a thread of its own, in any order and as
late as the network likes, also after the driver has given it up; a reply to a
socket that was closed is lost. With `Cuts` a datagram may arrive short: a
request is then refused for its length (`ServerHandlesCut`), a reply is a
`ProtocolError` or not a frame at all (`ReceiveCut`). `Reprogram` is the test
engine between two calls; `world` counts it, so that a reading says of which
bench it is.

`DutService` has no socket, retry or datagram: a call begins, and ends once, with
an answer, a refusal or an error. It promises at least once. A correction that
was asked for may take effect at any later time, once or often, and a reading is
of the device as it is or was, scaled by a correction somebody asked for.
`DutLink` implements it under the mapping at the end of the module.

`DutCodec` is `dut_protocol.py`: little-endian fields, the frame check, each
encoder and each decoder with its length checks. `DutWire` puts the frame of every
datagram under way on the wire and says that both ends make of the bytes, and of
any prefix of them, what `DutLink` says they do.

### ScpiSession

`transport` chooses `ScpiSocket` or `VisaSession`. A byte is a token: what it
looks like (`text`, `nl`, `hash`, `digit`, `count`, `byte`) and, seen by no
parser, the command it answers. `stream` holds what the server has sent, `buf`
is `ScpiSocket._buf`, or the buffer PyVISA keeps; `Fill` is one `recv`, of any
part of the stream. `ReadLine`, `ReadHeader` and `ReadPayload` cut the buffer as
`scpi_socket.py` does; `ReadBinary` and `ReadTerminator` are `query_binary` of
`visa_drivers.py`, which reads by count and waits for the terminator.
`ReadTimesOut` may happen whenever the buffer does not hold what is being read.
`safe_query` then drains what has arrived and sends `*CLS` (`Drain`), or over
VISA clears the device (`Clear`); any other read raises and leaves its answer to
come. `ServerCloses` ends the connection in any state; reads and writes then
raise (`FillFails`, `WriteFails`) and `Reconnect` is `close` followed by `open`,
with a new interpreter at the other end. `shifted` is a history variable: why
bytes of an earlier answer may still be read.

### LanRack

A generator call appends its program (`SineProgram`, ...) to the session's
`inbox`; the handler thread executes one command at a time with the same
`BenchState` operators; the call returns when `*OPC?` has been answered. A
command the bench refuses only queues an error that the drivers never read.
`Look` is a relay reading or a trace capture, `Measure` the meter, `OutputState`
the query of an output. `twin` is the bench the same calls would have left in
process, `twinResult` what they would have returned or raised: "the reports come
out identical" becomes a relation between the two halves of a state.

`stray` is a late duplicate of a relay request (see `DutLink`) in a thread of its
own. It goes through `_settle_line` read by read: whether the line is AC, which
number to take, the number, the latch, and then the write; a command of a
program may be executed between any two. A thread that adds up harmonics while
one is being added gets a `RuntimeError` and is gone.

### RackConfig and Campaign

A configuration is what can be wrong with one: the file, its blocks, the roles,
and for each driver its keys and whether a value is a number, a text, or a
`${VAR}` of one kind or another. `Refused` collects the checks of `load_config`,
`build_context`, `_spec` and the builders; of a configuration that passes,
`Fits` says whether the driver named for a role has the interface of the role
(nothing compares them) and `BenchOf` which bench it reaches.

`Campaign` is the life of a suite: `connect`, `unwind`, `cases`, `report`,
`disconnect`. A refused configuration raises before `self.controller` is
assigned. The four cases are sequences of what they do in the order of
`keywords.py`: ask an instrument, switch an output, probe (measure, and switch
off in a `finally`), publish evidence, judge. Any call may raise, and a call that
switches an output may raise before or after the switch. `suite` is chosen in
`Init` from `Suites`: a Robot suite (setup, test, teardown that reports and then
closes) or `run_all.py` (a `with` block, then the report), the configurations it
opens, the rows of the plan, and whether the bench outside the process was left
energised by an earlier run. `handles` are the sockets, resource managers and
instruments the process holds open, with the bench they belong to. A VISA
session that does not open may leave its manager, or manager and instrument
(`KeptByAFailedOpen`: `open_resource` raises, or a terminator or the timeout
cannot be set); one whose close raises may keep its manager (`KeptByAClose`: the
`finally` lets go of the instrument, nothing does of the manager). `log` is
history. What a step judges is a free choice here, except that nothing passes
which needs a stimulus that cannot reach it (`Dead`).

### Cases and Timing

`Cases` runs each case as a protocol on a device with thresholds, a ride-through
and gains of its own, wired or not, with a latch an earlier case may have left
set. The levels are the ones the code computes: the bracket, the two sweeps of
`SweepSteps` steps with their rounded readings, the hole, the analog points. A
level that is meant to equal a threshold goes through text and floats and may
land on either side of it; `dut.edge` says which, for the device, the plan, the
reading and the output. An analog point compares two rounded figures: the meter's
(`Applied`, to 1 V) and the loop current inverted (`Equivalent`, to 1 uA, which is
`digit` units of voltage); a unit is 1/16000 kV, so that 1 V is 16 units, and an
error of no applied voltage is infinite.

`Timing` holds the actions that time a detection: the pin and the contact are
rendered as samples of a gate, edges and widths are read off them, and the steps
published. Time is in ticks and a sample is taken every `Sample` ticks, so an
event may fall between two samples. The threshold of a two-level trace lies
between the levels: a sample is high or low. A latched detector publishes
`detection`, `relay set`, `total` and `hold`; a line case publishes `relay set` and
`line-in`, which shows the edge of the contact and has the outcome of the edge of
the pin, as `keywords.py:712-720` does. `Cases` calls these actions where the
procedures do.

## 3. The runs

Every run but the two named below checks safety only, under `Spec` without
fairness. Deadlock is not checked where a run ends by its own bounds (all calls
made, the suite over); `bench` never stops and does check it.

| Run | What it shows | Bounds, and why they suffice |
|---|---|---|
| `bench` | types; looking twice tells what looking once told (`ReadIdempotent`); a declared line is held (`LineIsHeld`); the bench implements `HystereticLine` | two channels; levels below, in the dead bands of, inside and above both windows, on DC and on AC; holes shorter, as long as and longer than the ride-through; the state space is exhausted, with no bound on the number of calls |
| `dut_link` | an answer fits the request (`AnswerFits`), is stale only after a retry or a call given up (`StaleOnlyAfterRetry`), an acknowledged correction holds (`AckedCorrectionHolds`), a failed connect leaves no socket (`ConnectedMeansIdentified`), all of it is an at-least-once service (`ImplementsService`) | two attempts, three transactions on two sockets: connect, a call that goes wrong and the one it disturbs, or a reconnect in between; a channel and one that does not exist, two factors; datagrams lost, late, reordered and cut |
| `dut_duplicates` | with datagrams delivered any number of times an answer still fits, every datagram, whole or cut after any byte, means at the other end what it should (`RepliesSurviveTheWire`, `RequestsSurviveTheWire`), and every call ends (`EveryCallEnds`) | one connect and one operation, two ticks to an attempt, so that a deadline that moved would show; every kind of request, a channel and a factor out of range, one change of the bench |
| `scpi` | over either transport a query or block returns its own bytes (`AnswersInStep`), an unknown header leaves no error (`SilenceLeavesNoError`), `sync()` means executed (`SyncMeansExecuted`) | four commands of all kinds in any order; a payload whose first byte looks like a terminator; every way to cut the stream; any answer later than its timeout, any break, any number of reconnects |
| `lan_rack` | the rack and its twin have equal benches whenever no call is under way (`TransportParity`) and equal results (`SameReadings`), but for the latch after a stray read; a look at the line heals that (`StrayHeals`); every call returns (`CallsReturn`) | three calls: programme, switch on, read, with levels in and out of the windows; one stray read, at any point of any of them |
| `campaign` | a green verdict was earned (`GreenIsEarned`), on one bench with fitting drivers (`GreenIsMeasured`), and agrees with the report (`ReportAgreesWithVerdict`); unwinding and closing leave nothing open but what is named below (`UnwindsCleanly`, `NoDriverIsStranded`); cases switch off what they switched on (`CasesSwitchOff`) | the three racks of `config/`, ten configurations that are refused, one for each reason, opened first or second; six racks that mix benches, roles or channels; Robot and script, the script over raw sockets and over VISA; all four cases, two rows of one name in different plans, an empty plan, a bench opened twice |
| `cases` | what a PASS says: a timing is true to the sample (`PassIsTrue`), the trip point is in its bracket (`BracketPinsTripPoint`), the line thresholds, the hold and the ride-through are what the row says (`LinePassMeans`), gain and offset errors are bounded, but for the rounding (`AnalogPointsSeparate`), a dead path judges nothing (`DeadPathNeverGreen`); a good device passes (`GoodDutPasses`, `GoodDevicePasses`) and a late one is measured (`LateIsMeasured`) | devices with thresholds on, beside and between the ends of every window, comparing RMS or peak, latched or not; 200 sweep steps as in the code, on rows whose spans are and are not multiples of them; for a trip case and a line case, two ticks to a sample and every combination of the times and limits, with a relay that follows within the margin of the gate and one that does not |
| `bench_hole`, `dut_stale`, `scpi_block`, `lan_refusals`, `campaign_outputs` | where the program does not do what it says of itself: section 5 | small instances of the same modules |

**Fairness.** `EveryCallEnds` assumes `WF(Deadline)`: the deadline is compared
with a monotonic clock before every `recv`, whose own timeout is what is left of
it, so time passing always brings the retry or the end. Nothing is assumed of
the network or the device. `CallsReturn` assumes `WF(ServerExecutes)`,
`WF(GenerateReturns)` and `WF(LookReturns)`: the handler threads, which do nothing
but read commands in a loop, and the caller blocked on the answer are scheduled;
TCP loses nothing while the connection lives. The thread of a stray read is under
no fairness: it may stop anywhere.

**What the guards of the properties say.** `StaleOnlyAfterRetry`,
`AckedCorrectionHolds`, `AnswersInStep` and `SyncMeansExecuted` carry an
exception each, and it is the strongest statement the code satisfies: a datagram
of a call that was retried or given up may arrive later, and so may the answer
to a query that timed out. `AckedCorrectionHolds` excepts one thing more, which
the model found: a retried correction of which one copy is cut is acknowledged,
and its NACK may then refuse the next correction, which the device applies.
`SilenceLeavesNoError` is about the raw socket: a device clear of a `::SOCKET`
resource leaves the error queue alone. `StrayHeals` excepts the dead band, where
the device goes by its memory, and a write into the very look. `UnwindsCleanly`
excepts what a `VisaSession` that does not open may leave, a resource manager and
perhaps an instrument (`visa_drivers.py:139-145`): the driver is not connected, so
the unwinding passes it by. It also excepts managers whose own close raised
(`visa_drivers.py:154`). `NoDriverIsStranded` excepts the same two at the end: the
managers only under a failed verdict, and what the unopened driver left only
after a script, where `with` is not entered when `__enter__` raises and nobody
closes it, as the teardown of a Robot suite does. `GreenIsMeasured` lets a bench that an earlier run left energised
count as measured (`leftOn`): a mixed rack may go green on it. `GoodDevicePasses`
excepts plans with no detection ceiling when the device trips later than twice
the floor: the gate (`keywords.py:181-193`) then ends before the hold does. It
also asks that the relay follow within the margin of that gate, for everything
that is read off the contact. `PassIsTrue` takes a passed `line-in` for what was
judged, the edge of the pin, and `LateIsMeasured` for what was shown, the edge of
the contact. `AnalogPointsSeparate` widens both bounds by `RoundingSlack`, half a digit
of the applied voltage and half a digit of the loop current at each point. It
takes the applied voltage for the one the generator is told, the live zero for a
multiple of 1 uA and the points for not negative: `keywords.py:843` divides by the
signed voltage, so a negative point passes whatever the output is.
`LinePassMeans` speaks to the resolution of a sweep
step and a rounded reading. It and `GoodDutPasses` are about rows the two sweeps
reach (`SweepsReach`): a tolerance of 30 % at most, since the sweeps go no
further, and a pick-up voltage of more than 2.5 V, or else the level a sweep
starts at could be read as one. A line row whose sweep spans nothing is left out
of the plans: `_sweep_threshold` raises (`keywords.py:787`). `LineInside` asks a good device for what the sweep
and the reading cannot resolve, and for letting go at half the pick-up voltage:
the first step of the case demands it of any device.

`PROJECT.json` names for each property a mutant, a plausible bug in the code
(a dropped check, an off-by-one, a missing reset) with which TLC finds the
property violated under the same configuration.

## 4. What is proved

Checked by TLAPS, for every value of the constants and runs of any length, from
the named assumptions of the modules, which TLC evaluates in the runs.

### BenchProofs

| Theorem | Statement |
|---|---|
| `TypeCorrect` | `Spec => []TypeOK` |
| `ReadsAreIdempotent` | `Spec => []ReadIdempotent` |
| `DeclaredLineIsHeld` | `Spec => []LineIsHeld` |
| `BenchImplementsHystereticLine` | `Spec => Line!Spec`, the refinement |

They rest on `WindowAssumption` (the hold window contains the pick-up window;
the comment on `SimConfig` says so, and `SimConfig.from_mapping` does not verify
it), `BenchAssumption` (types of the constants), `SumAssumption` (the sum of
integer harmonics is an integer: an induction over data the provers lack) and
`NoChannelAssumption`.

The argument. `LineIsHeld` speaks of the next look and is not inductive: nothing
in it says where the voltage is. `LatchStandsOnVoltage` is: the latch is what
the last look said, and a latch with no excursion since stands on a voltage
inside the hold window with no drop-out. A look establishes it because the
pick-up window lies inside the hold window (`PickUpInHold`, by monotonicity of
squares on AC and of order on DC); a generator call records an excursion
whenever it leaves the window; a short hole changes nothing. The same lemma
gives idempotence: a latch that was just picked up is also held. The refinement
needs only types and that no call but a look moves the latch
(`CallsKeepLatch`).

### DutLinkProofs

On a network with or without duplicates, from `DutLinkAssumption` (types of the
constants):

| Theorem | Statement |
|---|---|
| `LinkTypeCorrect` | `Spec => []TypeOK` |
| `AnswersFit` | `Spec => []AnswerFits` |
| `ConnectedIsIdentified` | `Spec => []ConnectedMeansIdentified` |
| `LinkImplementsService` | `Spec => Service!Spec`, the refinement |

`AnswerFits` speaks of a reply once it has ended a call. The inductive invariant
`Inv` also says where every datagram under way comes from: a request names a call
that was made (`Sent`), a reply is what the device makes of the request of its
call, and that call was made on the present socket (`Delivered`, because a new
socket receives nothing sent to an old one), and a pending call waits on the
present socket (`PendingHere`). `VerdictFits` is the heart of it: two requests
with one expected reply are of one kind, a NACK echoes the kind it refuses, and
the channel echo is compared last; so what the driver accepts fits, although
nothing on the wire names the request. `PendingHere` also carries
`ConnectedMeansIdentified` through the calls.

For the refinement, `ServiceInv` adds to `Inv` what a datagram under way is worth: a reply tells a
reading that the service may give (`Genuine`), and the correction is one that was
asked for (`Asking`). Both grow with time, since what was asked for and what the
bench has been are never taken back, so a reply that is late stays true of the
past. Every step is then a step of the service (a call begins, a correction takes
effect, the bench changes, the call ends with one of its results) or invisible
to it.

### DutHistoryProofs

Without duplicates (`ASSUME ~Duplicates`), with losses, delays, reordering and
cuts:

| Theorem | Statement |
|---|---|
| `StaleAnswersFollowRetries` | `Spec => []StaleOnlyAfterRetry` |
| `AcknowledgedCorrectionsHold` | `Spec => []AckedCorrectionHolds` |

Each step is first put in one of five kinds (`StepKinds`): nothing is sent, a
request is served, a call begins, the pending call sends again, it ends. Then
every attempt has one datagram under way at most, request or reply (`Unique`),
so a call that was sent once and ended by its own reply has none left (`Gone`);
and one that ended otherwise is preceded by a disturbed call of its kind on its
socket (`Excused`). `Settled` says that of all calls; it is inductive where
`StaleOnlyAfterRetry` is not, because a stale answer may itself be what ends the
next call.

For the corrections, `Latest(n)` is the guard of `AckedCorrectionHolds` while the
calls after `n` are still pending. Under it every reply that ends a correction
is its own (`OwnAnswer`, `OwnRefusal`), the refused ones are gone
(`RefusedIsGone`), and the device works with `n` as long as a later one has not
been executed or has been refused (`Holds`). A factor in range is refused only
for a cut (`RefusedForCause`), which is where the exception about cuts comes in.

### DutWireProofs

From `DutLinkAssumption` and `DutWireAssumption`, with or without duplicates and
cuts:

| Theorem | Statement |
|---|---|
| `RequestBytesMeanRequests` | `Spec => []RequestsSurviveTheWire` |
| `ReplyBytesMeanReplies` | `Spec => []RepliesSurviveTheWire` |

`DutWireAssumption` says that the identity of the device and the channels asked
for fit their fields: `encode_ident_response` and `encode_analog_request` raise
otherwise, and nothing is sent. From `DutLinkProofs` comes what is under way at
all: requests of calls that were made, replies of their types.

Two ideas carry both theorems. A frame cut after `n` bytes is either no frame
(`n < 2`) or a frame of the same kind with a payload cut short (`Frames`), so each
end need only be asked what it makes of short payloads (`DeviceCuts`,
`DriverCuts`). And no decoder accepts a proper prefix of what its encoder makes:
by its length, for the fields of fixed width; by the length byte of the name, for
the identity (`IdentCut`); and by the count and the name lengths, for the relay
list, whose loop ends inside an entry wherever the bytes end (`RelaysCut`). The
relay list is read by a recursive function; for the two relays of the device its
three values are written down and shown to be the function (`DecodesTwo`). Whole
payloads are read back field by field, the serial number through its four bytes
(`SerialSurvives`), and a refusal is told from another's by its echo, since the
message ids differ (`Kinds`).

### CampaignProofs

From `CampaignAssumption` (types of suites: plans without a row twice, one
configuration to a script), for any plan, any racks, either caller, and any call
raising at any time:

| Theorem | Statement |
|---|---|
| `CampaignTypeCorrect` | `Spec => []TypeOK` |
| `GreenVerdictsAreEarned` | `Spec => []GreenIsEarned` |
| `GreenVerdictsAreMeasured` | `Spec => []GreenIsMeasured` |
| `ReportsAgree` | `Spec => []ReportAgreesWithVerdict` |
| `FailedConnectsUnwind` | `Spec => []UnwindsCleanly` |
| `NothingElseStaysOpen` | `Spec => []NoDriverIsStranded` |
| `CasesAreSwitchedOff` | `Spec => []CasesSwitchOff` |

Two halves. The first is about the four procedures as sequences of steps
(`ScriptsAreProcedures`): each publishes evidence, calls every instrument it
judges, judges (or probes, in a calibration) every instrument it uses but the
generator, and ends with both outputs off. What a part has the whole has
(`StepsJoin`), so each follows from a few parts. The second is the invariant
`Inv`: how far the suite is and what that leaves of its verdict (`Progress`),
what is recorded (`Evidence`), which outputs are on (`Stimulus`, the last `on` of
each in the steps that are behind), what the steps behind have shown
(`Measured`), and what is open between two drivers (`Built`, `Open`). The
properties speak of the end of a suite only; the invariant says what is true on
the way, in every phase an exception may end.

### ScpiSessionProofs

From `ScpiSessionAssumption` (types of the constants), over either transport, for any
commands in any number, any fragmentation, break or timeout:

| Theorem | Statement |
|---|---|
| `SessionTypeCorrect` | `Spec => []TypeOK` |
| `AnswersStayInStep` | `Spec => []AnswersInStep` |
| `UnknownHeadersLeaveNoError` | `Spec => []SilenceLeavesNoError` |
| `SyncWaitsForAll` | `Spec => []SyncMeansExecuted` |

The properties speak of a read that has returned. The invariant says where the
bytes are before that: as long as nothing has shifted the session, what is in
the buffer and the stream together is the part of the newest answer that has not
been read, and no command that is still to be executed answers anything, but the
one that is being waited for. `safe_query` restores this with a drain or a
device clear, and a reconnect with a new stream.

### LanRackProofs

From `LanRackAssumption` and the assumptions of `BenchState`, for any programs of
commands in any interleaving with one stray thread:

| Theorem | Statement |
|---|---|
| `RackTypeCorrect` | `Spec => []TypeOK` |
| `NetworkKeepsParity` | `Spec => []TransportParity` |
| `NetworkReadsAlike` | `Spec => []SameReadings` |
| `StrayReadsHeal` | `Spec => []StrayHeals` |

Between two calls the benches are equal; within one they are not, and the
invariant says by how much: the bench the inbox will have made of this one, when
all its commands are executed, is the twin, but for the latch. A stray thread
writes nothing but the latch, and a look that no such write falls into settles
both latches alike, unless the voltage is in the dead band, where the device goes
by its memory.

### CasesProofs

From `TimingAssumption` and `CasesAssumption` (types; a plan's times are shorter
than the infinite one by a margin), for every row, device, wiring, number of
sweep steps and sampling interval:

| Theorem | Statement |
|---|---|
| `CasesTypeCorrect` | `Spec => []TypeOK` |
| `PassesAreTrue` | `Spec => []PassIsTrue` |
| `GoodDevicesPass` | `Spec => []GoodDevicePasses` |
| `LateDevicesAreMeasured` | `Spec => []LateIsMeasured` |
| `TripPointPinned` | `Spec => []BracketPinsTripPoint` |
| `LinePassesMean` | `Spec => []LinePassMeans` |
| `GoodDutsPass` | `Spec => []GoodDutPasses` |
| `GainAndOffsetSeparate` | `Spec => []AnalogPointsSeparate` |
| `DeadPathsRaise` | `Spec => []DeadPathNeverGreen` |

Timing: a captured trace is flat or one pulse of whole samples (`IsPulse`), so
the edges and the width that are read off it are those of the pulse, and a
whole number of samples is a time to within one sample (`SamplesBound`). `Inv`
says that every trace captured is the device's own and every outcome published
is the one the code computes from it; the three timing properties are then
arithmetic about single outcomes (`TrueOutcomes`, `GoodOutcomes`,
`LateOutcome`).

Bracket, paths and points: `Inv` also says what each outcome published compares
(`BracketOK`), that no case leaves its calibration without its paths
(`PathsOK`), and that the points of an analog case are judged once each and in
their order (`PointsOK`). Two points that are both ok bound the gain by their
distance (`GainBound`) and the offset by extrapolation to zero (`ShiftBound`).
What the code compares are rounded figures (`RoundedNear`); `PointJudged` turns an
outcome about them into one about the signal, with `RoundingSlack`.

Line: the level of a sweep moves by at most a stride from step to step and ends
where it should, also when the span is no multiple of the steps (`NextLevel`,
`ShareOfSum`); the level a sweep stops at is the first at which the device
changed its mind (`SweepFinds`), so the threshold lies between it and the one
before (`Crossing`). What the latch is when a sweep begins depends on all steps
before. `LineOK` carries it: while every outcome so far is ok, the latch is known
at every step and each step has shown its threshold; and for a device inside its
limits every outcome so far is ok.

Two of these properties were corrected by their proofs. `GoodDevicePasses` did
not ask the relay to follow within the margin of the gate for `total`, and
`AnalogPointsSeparate` rounded a hundredth of the lowest point down, too little
for a point that is no multiple of a hundred; TLC found neither, on the instances
it had, and shows the first now that `Sets` has a value beyond the margin. `LineInside` left
out the half unit a reading is rounded by and the upper ends of the windows.

### Only model-checked

* Relay lists of any length: `DutWire` and its theorems are about the two relays of
  the device. That the loop of `decode_relay_response` reads back a list of any
  length is an induction over data.
* Liveness (`EveryCallEnds`, `CallsReturn`): fairness and ENABLED are out of the
  prover's reach.
* `SumAssumption`: that the sum of integer harmonics is an integer is an
  induction over data. It is an assumption of `BenchProofs` and `LanRackProofs`,
  evaluated by TLC.

## 5. Where the program differs from what it says

Each is a run that violates one property, with the line quoted in `PROJECT.json`.

* `bench_hole`, `PicksUpFromScratch`: after a long hole, a generator call on the
  other channel clears the drop-out, so the device declares the line again with
  nothing applied to the voltage channel since.
* `dut_stale`, `NoWrongMeasurement`: a reply is matched by kind, not by request;
  the late answer to a retried call is returned as the new measurement.
* `scpi_block`, `AnswersAreOwn`: a block's terminator is consumed only if it is
  already buffered; otherwise the next query reads an empty line, and every one
  after it its predecessor's answer. No read need time out. (Over PyVISA the
  terminator is waited for, and this cannot happen.)
* `lan_refusals`, `SameRefusals`: what raises in process is silent over SCPI.
* `campaign_outputs`, `OutputsOffOnTheWayOut`: leaving the controller closes
  sessions and switches nothing off.

Others were met while modelling; the properties state them as exceptions or
bounds:

* An answer that comes after its timeout lets the next `sync()` return early.
* A VISA session that fails to open leaves its resource manager, or manager and
  instrument; one whose manager cannot be closed keeps it.
* The hold cut off by the gate of a plan without a ceiling (`keywords.py:175-176`
  says the gate is chosen to allow it).
* A line case publishes "Line-in time (stimulus -> contact)" with the edge of the
  contact against the window of the detection, and judges the edge of the pin
  (`keywords.py:712-720`). With a pin inside the window and a contact outside it, a
  PASS stands beside a time that is out of the window printed next to it.
  `PassIsTrue` states what such a PASS is true of; a check of the label itself
  fails.
* `keywords.py:508` says that the trip above the window "pins the trip point
  inside it"; the two steps pin it between 5 % below the window and 5 % above.
* A line detector with a single threshold in both tolerance windows passes every
  step of the line case: a sweep stops a step beyond the threshold, so the
  drop-out comes out below the pick-up with no hysteresis at all.
* The columns `in_high_kv` and `out_high_kv` of the line plan are read by nothing:
  no case looks at the upper ends of the two windows.
* `examples/run_all.py` says it runs every test type; it runs three of the four
  plans.
* With no case recorded `all()` is true, so a plan with no enabled row is green.
* A case cut short by an exception keeps the outcome of the steps it published,
  so its row of the report may say PASS in a suite that failed.
* The VISA device clear leaves the error queue of a `::SOCKET` instrument alone.

## 6. Plan

1. *(done)* `BenchState`, `Bench`, `HystereticLine`, `BenchProofs`: the device is
   what every case asks.
2. *(done)* `DutLink`, `ScpiSession`: the two wires, with broken connections, cut
   datagrams, and both kinds of session.
3. *(done)* `LanRack`: the drivers over the wire against the bench, and unlocked
   access by a stray thread.
4. *(done)* `Campaign`, `RackConfig`, `Timing`, `Cases`: the engine's control flow,
   the racks it is given, its arithmetic of time and of levels.
5. *(done)* `DutCodec`, `DutWire`: the bytes; `DutService`: what a transaction
   promises, and the refinement.
6. *(done)* Proofs about `DutLink`: types, `ConnectedMeansIdentified`,
   `AnswerFits`, the refinement, `StaleOnlyAfterRetry`, `AckedCorrectionHolds`;
   and about `Campaign`: every property of its run.
7. *(done)* Proofs about `ScpiSession`, `LanRack`, `Cases` and `Timing`: every
   safety property of their runs.
8. *(done)* Proofs about `DutWire`: what either end makes of the bytes, whole or
   cut short. With them every safety property of a passing run is a theorem.
9. What is left is liveness (`EveryCallEnds`, `CallsReturn`), which stays with TLC.

## 7. Not modelled, and why

* The emulator process, its health check and packaging: sockets, signals and
  threads of the standard library.
* The text of CSV and YAML files and of numbers in commands, Markdown, identity
  texts, error texts: no property is about them. Levels are integers, and Layer 2
  rounds them to what the text carries.
* `*RST` over the wire and query forms that no driver sends.
* The message exchange inside PyVISA, and `pyvisa-sim`, behind which no bench
  changes: libraries.
* The static site under `docs/`, with its copy of the framework for the browser.
