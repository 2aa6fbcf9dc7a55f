------------------------------ MODULE Campaign ------------------------------
(* One suite from the first Open Bench to the report: a configuration is     *)
(* refused or becomes an InstrumentController, which connects and            *)
(* disconnects the four drivers, run_all_cases walks the rows of a plan, a   *)
(* case calls its instruments and publishes its steps, the recorder files    *)
(* them.  Any call on an instrument may raise, in every phase.               *)
(*                                                                           *)
(* Two callers of the engine: a Robot suite (HiltfLibrary with its setup and *)
(* teardown) and examples/run_all.py, a `with InstrumentController` block.   *)
EXTENDS Sequences, FiniteSets, Naturals, SequencesExt, RackConfig

CONSTANTS
  Suites  \* the suites a run looks at: [caller, configs, plan, leftOn], the
          \* configurations in the order they are opened; leftOn: the bench
          \* outside the process still carries the stimulus of an earlier run

\* InstrumentController.drivers, in the order they are connected.
Drivers == <<"signal_generator", "multimeter", "oscilloscope", "dut">>

ASSUME CampaignAssumption ==
  \A s \in Suites :
    /\ s.caller \in {"robot", "script"} /\ s.leftOn \in BOOLEAN
    /\ DOMAIN s.configs = 1 .. Len(s.configs) /\ Len(s.configs) \in Nat \ {0}
    /\ \A i \in DOMAIN s.configs : s.configs[i].channels \in Nat
    /\ s.caller = "script" => Len(s.configs) = 1
    /\ s.plan \in Seq([kind: {"overcurrent", "harmonic", "line_detection", "analog_output"},
                       name: STRING])
    /\ IsInjective(s.plan)   \* load_plan sees to it

VARIABLES
  suite,     \* the suite being run
  phase,     \* where the suite is
  at,        \* the driver being connected or disconnected
  opened,    \* Open Bench calls so far
  controller, \* self.controller: the call that built it, 0 for None
  handles,   \* _sock, _rm and _inst of every session: [bench, driver, what]
  live,      \* outputs the generator has switched on
  row, pc,   \* the case of the plan, and the step of it
  cases,     \* the recorder: (suite, case) -> the outcomes published
  verdict,   \* of the Robot test, or of the script
  report,    \* the outcome of each case as the report was written
  log        \* what really happened; no operation depends on it.  unopened:
             \* the driver whose connect raised; stuck: the managers of
             \* which the last close raised

vars == <<suite, phase, at, opened, controller, handles, live, row, pc, cases,
          verdict, report, log>>

built     == <<opened, controller>>
lifecycle == <<suite, phase, at, built, handles>>
campaign  == <<suite, row, pc, cases>>

Caller == suite.caller
Plan   == suite.plan         \* the enabled rows of all plans run: [kind, name]
Config == suite.configs[controller]

Transport(d) == TransportOf(Config, d)

Phases == {"start", "connect", "unwind", "cases", "report", "disconnect", "over"}
Outputs == {"voltage", "current"}
Keys == ToSet(Plan)    \* (suite, case): the kind and the name of a row

-----------------------------------------------------------------------------
(* What a case does, in the order it does it: the instruments a step uses,   *)
(* and the generator channel it is about.  An `ask` is every call that       *)
(* neither switches an output nor publishes.                                 *)
Step(do, uses, output) == <<[do |-> do, uses |-> uses, output |-> output]>>

Generate(c) == Step("ask", {"signal_generator"}, c)
On(c)       == Step("on", {"signal_generator"}, c)
Off(c)      == Step("off", {"signal_generator"}, c)
Measure(c)  == Step("ask", {"multimeter"}, c)
Probe(c)    == Step("probe", {"multimeter"}, c)    \* try: measure  finally: output_off
Look        == Step("ask", {"dut"}, "current")     \* every relay, so both channels
ReadOutput  == Step("ask", {"dut"}, "voltage")
Capture     == Step("ask", {"oscilloscope"}, "current")
Note        == Step("note", {}, "voltage")         \* evidence, always PASS
\* PASS or FAIL; FAIL for sure if one of these shows a bench without stimulus.
Judge(alive) == Step("judge", alive, "voltage")

Calibrate(c) == Generate(c) \o On(c) \o Probe(c)
EnergiseLine == Generate("voltage") \o On("voltage") \o Measure("voltage")
BothOff      == Off("current") \o Off("voltage")
Timed        == Capture \o Judge({"oscilloscope"})

RunOvercurrentCase ==
  Calibrate("voltage") \o Calibrate("current") \o Note \o EnergiseLine
  \o Generate("current") \o On("current") \o Measure("current") \o Look \o Judge({})
  \o Generate("current") \o Measure("current") \o Look \o Judge({"dut"})
  \o Generate("current") \o Measure("current") \o Note \o Timed \o BothOff

RunHarmonicCase ==
  Calibrate("voltage") \o Calibrate("current") \o Note
  \o EnergiseLine \o Judge({"multimeter"})
  \o Generate("current") \o On("current") \o Look \o Measure("current") \o Judge({})
  \o Generate("current") \o Measure("current") \o Look \o Judge({"dut"})
  \o Generate("current") \o Timed \o BothOff

Sweep == Generate("voltage") \o Look \o Measure("voltage") \o Judge({"dut"})

LineDetectionSteps ==
  Calibrate("voltage") \o Note
  \o Generate("voltage") \o On("voltage") \o Measure("voltage") \o Look \o Judge({})
  \o Sweep
  \o Generate("voltage") \o Look \o Measure("voltage") \o Judge({"dut"})
  \o Sweep
  \o Off("voltage") \o EnergiseLine \o Timed
  \o Generate("voltage") \o Look \o Judge({"dut"})

\* A mutant: the release is timed without removing the supply.
RunLineDetectionCase_LeftOn == LineDetectionSteps \o Capture \o Judge({})

RunLineDetectionCase == LineDetectionSteps \o Off("voltage") \o Capture \o Judge({})

\* One point of the analog output, as often as the plan says; two here.
AnalogPoint == EnergiseLine \o ReadOutput \o Judge({"multimeter", "dut"})

RunAnalogOutputCase ==
  Calibrate("voltage") \o Note \o AnalogPoint \o AnalogPoint \o Off("voltage") \o Measure("voltage")

Runners ==
  [overcurrent |-> RunOvercurrentCase, harmonic |-> RunHarmonicCase,
   line_detection |-> RunLineDetectionCase, analog_output |-> RunAnalogOutputCase]

\* A mutant: the recorder looks for the name of the case alone.
Key_NameOnly == Plan[CHOOSE i \in DOMAIN Plan : Plan[i].name = Plan[row].name]

Key    == Plan[row]
Script == Runners[Plan[row].kind]

\* A mutant: one good step makes a good case.
CaseOutcome_AnyPass(published) == IF "PASS" \in published THEN "PASS" ELSE "FAIL"

\* CaseResult.outcome: the worst of the steps, and PASS when there is none.
CaseOutcome(published) == IF "FAIL" \in published THEN "FAIL" ELSE "PASS"

AllPassed == \A k \in DOMAIN cases : CaseOutcome(cases[k]) # "FAIL"

-----------------------------------------------------------------------------
TypeOK ==
  /\ suite \in Suites
  /\ phase \in Phases
  /\ at \in 0 .. Len(Drivers) + 1
  /\ opened \in 0 .. Len(suite.configs) /\ controller \in 0 .. opened
  /\ handles \subseteq [bench: 1 .. opened, driver: ToSet(Drivers),
                        what: {"socket", "manager", "instrument"}]
  /\ live \subseteq Outputs
  /\ row \in 1 .. Len(Plan) + 1 /\ pc \in Nat \ {0}
  /\ DOMAIN cases \subseteq Keys
  /\ \A k \in DOMAIN cases : cases[k] # {} /\ cases[k] \subseteq {"PASS", "FAIL"}
  /\ verdict \in {"none", "pass", "fail"}
  /\ report = <<>> \/ DOMAIN report \subseteq Keys
  /\ log \in [finished: SUBSET (DOMAIN Plan), failed: SUBSET Keys, raised: BOOLEAN,
              unopened: ToSet(Drivers) \cup {"none"}, stuck: SUBSET handles]

Init ==
  /\ suite \in Suites
  /\ phase = "start" /\ at = 0 /\ opened = 0 /\ controller = 0 /\ handles = {} /\ live = {}
  /\ row = 1 /\ pc = 1 /\ cases = <<>> /\ verdict = "none" /\ report = <<>>
  /\ log = [finished |-> {}, failed |-> {}, raised |-> FALSE, unopened |-> "none", stuck |-> {}]

-----------------------------------------------------------------------------
(* The controller.                                                           *)

\* What a connected driver holds.
Holds(d) ==
  LET of(whats) == {[bench |-> controller, driver |-> d, what |-> w] : w \in whats}
  IN CASE Transport(d) = "simulated" -> {}
       [] Transport(d) \in {"lan", "udp"} -> of({"socket"})
       [] Transport(d) = "visa" -> of({"manager", "instrument"})

Managers(held) == {h \in held : h.what = "manager"}

\* What a driver that fails to connect may leave: ScpiSocket and UdpDut
\* nothing; VisaSession nothing, the manager if open_resource raised, and both
\* if the terminators or the timeout could not be set on the instrument.
KeptByAFailedOpen(d) ==
  IF Transport(d) = "visa" THEN {{}, Managers(Holds(d)), Holds(d)} ELSE {{}}

\* Open Bench, also over a bench that is already open.  A configuration that
\* is refused raises before self.controller is assigned; the new controller
\* replaces the old one before it connects.
OpenBench ==
  /\ \/ phase = "start"
     \/ phase = "cases" /\ Caller = "robot" /\ row = 1 /\ pc = 1
  /\ opened < Len(suite.configs)
  /\ opened' = opened + 1
  /\ at' = 1
  /\ IF Refused(suite.configs[opened'])
     THEN /\ phase' = (IF Caller = "robot" THEN "report" ELSE "over")
          /\ verdict' = "fail"
          /\ log' = [log EXCEPT !.raised = TRUE]
          /\ UNCHANGED controller
     ELSE /\ phase' = "connect"
          /\ controller' = opened'
          /\ UNCHANGED <<verdict, log>>
  /\ UNCHANGED <<handles, live, campaign, report>>

Connect ==
  /\ phase = "connect" /\ at =< Len(Drivers)
  /\ \/ /\ handles' = handles \cup Holds(Drivers[at])
        /\ at' = at + 1
        /\ UNCHANGED <<phase, log>>
     \/ /\ Transport(Drivers[at]) # "simulated"
        /\ \E kept \in KeptByAFailedOpen(Drivers[at]) : handles' = handles \cup kept
        /\ log' = [log EXCEPT !.unopened = Drivers[at]]
        /\ at' = at - 1
        /\ phase' = "unwind"
  /\ UNCHANGED <<built, live, campaign, verdict, report>>

Connected ==
  /\ phase = "connect" /\ at > Len(Drivers)
  /\ phase' = "cases"
  /\ UNCHANGED <<at, built, handles, live, campaign, verdict, report, log>>

\* Where an exception of the body lands: a failed setup or test goes to the
\* suite teardown, which reports and then closes; `with` goes to __exit__.
Aborts == phase' = (IF Caller = "robot" THEN "report" ELSE "disconnect")

Held(d) == {h \in handles : h.bench = controller /\ h.driver = d}

\* What a disconnect may leave: the socket and the instrument are let go of
\* even if closing them raises (try/finally), the manager only if its own
\* close returns.
KeptByAClose(d) == {{}, Managers(Held(d))}

\* disconnect() of a driver; it keeps the managers `stuck`, and has raised if
\* there is one.
Close(d, stuck) ==
  /\ handles' = (handles \ Held(d)) \cup stuck
  /\ log' = [log EXCEPT !.stuck = (@ \ Held(d)) \cup stuck]

\* A mutant: the drivers are walked and not disconnected.
Unwind_NoneReleased ==
  /\ phase = "unwind" /\ at > 0
  /\ at' = at - 1
  /\ UNCHANGED <<phase, built, handles, live, campaign, verdict, report, log>>

\* The except branch of connect_all: in reverse, ignoring every failure.
Unwind ==
  /\ phase = "unwind" /\ at > 0
  /\ \E stuck \in KeptByAClose(Drivers[at]) : Close(Drivers[at], stuck)
  /\ at' = at - 1
  /\ UNCHANGED <<phase, built, live, campaign, verdict, report>>

\* connect_all raises: the suite fails and tears down; a `with` block is never
\* entered, so the script ends here.
Unwound ==
  /\ phase = "unwind" /\ at = 0
  /\ phase' = (IF Caller = "robot" THEN "report" ELSE "over")
  /\ verdict' = "fail"
  /\ log' = [log EXCEPT !.raised = TRUE]
  /\ UNCHANGED <<at, built, handles, live, campaign, report>>

\* A mutant: the first driver that cannot be closed ends the loop.
Disconnect_FirstErrorRaises ==
  /\ phase = "disconnect" /\ controller > 0 /\ at =< Len(Drivers)
  /\ \/ Close(Drivers[at], {}) /\ at' = at + 1 /\ UNCHANGED verdict
     \/ \E stuck \in KeptByAClose(Drivers[at]) :
          /\ Held(Drivers[at]) # {}
          /\ Close(Drivers[at], stuck)
          /\ at' = Len(Drivers) + 1 /\ verdict' = "fail"
  /\ UNCHANGED <<phase, built, live, campaign, report>>

\* disconnect_all: one driver after the other, errors gathered and raised at
\* the end.  A teardown that raises fails the tests of the suite with it.
Disconnect ==
  /\ phase = "disconnect" /\ controller > 0 /\ at =< Len(Drivers)
  /\ \E stuck \in KeptByAClose(Drivers[at]) :
       /\ Close(Drivers[at], stuck)
       /\ \/ stuck = {} /\ UNCHANGED verdict
          \/ Held(Drivers[at]) # {} /\ verdict' = "fail"
  /\ at' = at + 1
  /\ UNCHANGED <<phase, built, live, campaign, report>>

\* Close Bench does nothing when no controller was built.
\* The script reports after its `with` block, unless that raised.
Disconnected ==
  /\ phase = "disconnect" /\ (at > Len(Drivers) \/ controller = 0)
  /\ phase' = (IF Caller = "script" /\ verdict = "none" THEN "report" ELSE "over")
  /\ UNCHANGED <<at, built, handles, live, campaign, verdict, report, log>>

-----------------------------------------------------------------------------
(* The cases.                                                                *)
InCase(do) == phase = "cases" /\ row =< Len(Plan) /\ pc =< Len(Script)
              /\ Script[pc].do = do

\* The channels of an in-process bench are numbered from the voltage channel.
HasChannel(d, output) ==
  Transport(d) = "simulated" =>
    n_channels(Config) >= (IF output = "voltage" THEN 1 ELSE 2)

\* The driver has the method, and its bench the channel; otherwise the call
\* is an AttributeError or a KeyError.
CanAnswer ==
  \A d \in Script[pc].uses : Fits(Config, d) /\ HasChannel(d, Script[pc].output)

\* No stimulus reaches the bench this driver is on: it is another one than
\* the generator's, and nobody left it switched on.
Dead(d) ==
  /\ BenchOf(Config, d) # BenchOf(Config, "signal_generator")
  /\ BenchOf(Config, d) = "outside" => ~suite.leftOn

\* A call raises in the middle of a case: nothing below it runs, nor does any
\* further row.  An output the call was switching may be in either state.
Raises(outputs) ==
  /\ live' \in outputs
  /\ verdict' = "fail"
  /\ log' = [log EXCEPT !.raised = TRUE]
  /\ Aborts
  /\ at' = 1
  /\ UNCHANGED <<built, handles, campaign, report>>

Proceeds(outputs) ==
  /\ live' = outputs
  /\ pc' = pc + 1
  /\ UNCHANGED <<lifecycle, row, cases, verdict, report, log>>

AskInstrument ==
  /\ InCase("ask")
  /\ \/ CanAnswer /\ Proceeds(live)
     \/ Raises({live})

SwitchOn ==
  /\ InCase("on")
  /\ LET after == live \cup {Script[pc].output}
     IN \/ CanAnswer /\ Proceeds(after)
        \/ Raises(IF CanAnswer THEN {live, after} ELSE {live})

SwitchOff ==
  /\ InCase("off")
  /\ LET after == live \ {Script[pc].output}
     IN \/ CanAnswer /\ Proceeds(after)
        \/ Raises(IF CanAnswer THEN {live, after} ELSE {live})

\* A mutant: the ratio is taken as the meter gives it, zero included.
CalibrationProbe_AnyRatio ==
  /\ InCase("probe")
  /\ LET after == live \ {Script[pc].output}
     IN \/ CanAnswer /\ Proceeds(after)
        \/ Raises({live, after})

\* The measurement of a calibration: the output goes off whether or not it
\* raised, unless switching it off fails too.  A ratio that is not positive is
\* a CalibrationError.
CalibrationProbe ==
  /\ InCase("probe")
  /\ LET after == live \ {Script[pc].output}
     IN \/ CanAnswer /\ ~Dead("multimeter") /\ Proceeds(after)
        \/ Raises({live, after})

\* A mutant: a new row of the recorder is created without its first step.
Publish_FirstStepLost(outcome) ==
  /\ cases' = [k \in DOMAIN cases \cup {Key} |->
                 IF k \notin DOMAIN cases THEN {}
                 ELSE cases[k] \cup (IF k = Key THEN {outcome} ELSE {})]
  /\ pc' = pc + 1
  /\ log' = IF outcome = "FAIL" THEN [log EXCEPT !.failed = @ \cup {Key}] ELSE log
  /\ UNCHANGED <<lifecycle, live, row, verdict, report>>

Publish(outcome) ==
  /\ cases' = [k \in DOMAIN cases \cup {Key} |->
                 (IF k \in DOMAIN cases THEN cases[k] ELSE {})
                 \cup (IF k = Key THEN {outcome} ELSE {})]
  /\ pc' = pc + 1
  /\ log' = IF outcome = "FAIL" THEN [log EXCEPT !.failed = @ \cup {Key}] ELSE log
  /\ UNCHANGED <<lifecycle, live, row, verdict, report>>

PublishStep ==
  \/ InCase("note") /\ Publish("PASS")
  \/ /\ InCase("judge")
     /\ \E outcome \in {"PASS", "FAIL"} :
          /\ outcome = "PASS" => \A d \in Script[pc].uses : ~Dead(d)
          /\ Publish(outcome)

NextCase ==
  /\ phase = "cases" /\ row =< Len(Plan) /\ pc > Len(Script)
  /\ row' = row + 1 /\ pc' = 1
  /\ log' = [log EXCEPT !.finished = @ \cup {row}]
  /\ UNCHANGED <<lifecycle, live, cases, verdict, report>>

\* The end of the loop: All Cases Passed, or the end of the `with` block.
EndOfPlan ==
  /\ phase = "cases" /\ row > Len(Plan)
  /\ IF Caller = "robot" THEN verdict' = (IF AllPassed THEN "pass" ELSE "fail")
                         ELSE UNCHANGED verdict
  /\ Aborts /\ at' = 1
  /\ UNCHANGED <<built, handles, live, campaign, report, log>>

\* Write Report is the first keyword of the teardown: it runs after a failed
\* setup and an aborted case as well, and Close Bench runs even if it raises.
\* The script writes its report last, and then reads recorder.all_passed.
WriteReport ==
  /\ phase = "report"
  /\ phase' = (IF Caller = "robot" THEN "disconnect" ELSE "over") /\ at' = 1
  /\ \/ /\ report' = [k \in DOMAIN cases |-> CaseOutcome(cases[k])]
        /\ verdict' = (IF Caller = "robot" THEN verdict
                       ELSE IF AllPassed THEN "pass" ELSE "fail")
        /\ UNCHANGED log
     \/ /\ verdict' = "fail"
        /\ log' = [log EXCEPT !.raised = TRUE]
        /\ UNCHANGED report
  /\ UNCHANGED <<built, handles, live, campaign>>

Next ==
  \/ OpenBench \/ Connect \/ Connected \/ Unwind \/ Unwound
  \/ AskInstrument \/ SwitchOn \/ SwitchOff \/ CalibrationProbe
  \/ PublishStep \/ NextCase \/ EndOfPlan
  \/ WriteReport \/ Disconnect \/ Disconnected

Spec == Init /\ [][Next]_vars

-----------------------------------------------------------------------------
(* Properties.                                                               *)

\* A green verdict is earned: every enabled row ran to its last call, none of
\* its steps was judged FAIL, and nothing raised anywhere.
GreenIsEarned ==
  verdict = "pass" =>
    /\ log.finished = DOMAIN Plan
    /\ log.failed = {}
    /\ ~log.raised

\* A green verdict was measured: every instrument a case of the plan uses has
\* the interface it is used by, and none of them was on a bench that no
\* stimulus reached - though nothing in the configuration loader or the
\* registry refuses a rack of several benches, or a driver in a foreign role.
\* (An outside bench left energised by an earlier run does pass; and a plan
\* with no enabled row is green with nothing measured.)
GreenIsMeasured ==
  verdict = "pass" =>
    \A k \in Keys : \A i \in DOMAIN Runners[k.kind] :
      \A d \in Runners[k.kind][i].uses :
        /\ Fits(Config, d)
        /\ HasChannel(d, Runners[k.kind][i].output)
        /\ ~Dead(d)

\* A green verdict comes with a report that has a row for every enabled case
\* of the plan, all of them passed: rows of two kinds may have one name, and
\* still are two cases.
ReportAgreesWithVerdict ==
  phase = "over" /\ verdict = "pass" =>
    /\ DOMAIN report = Keys
    /\ \A k \in Keys : report[k] = "PASS"

\* A failed connect_all has closed every driver that had connected: all that
\* is left of the bench it was building are managers whose own close raised,
\* and what the one driver that did not open has left, which is never a socket.
UnwindsCleanly ==
  phase = "unwind" /\ at = 0 =>
    \A h \in handles \ log.stuck :
      h.bench = controller => h.driver = log.unopened /\ h.what # "socket"

\* disconnect_all strands nobody: what a finished suite still holds belongs to
\* a bench that a second Open Bench replaced, or is a manager whose close
\* raised, and then the verdict says so, or is what the driver left that kept a
\* script from entering its `with`.  (A Robot suite closes that in its teardown.)
NoDriverIsStranded ==
  phase = "over" => \A h \in handles :
    \/ h.bench < controller
    \/ h \in log.stuck /\ h.what = "manager" /\ verdict = "fail"
    \/ Caller = "script" /\ h.driver = log.unopened /\ h.what # "socket"

\* Every case switches off what it switched on: as long as nothing raised, no
\* output is live between two cases or after the last one.
CasesSwitchOff ==
  ~log.raised /\ (phase # "cases" \/ pc = 1) => live = {}

\* The controller's promise to "disconnect on the way out (including when a
\* keyword raised, which is when you most want the outputs turned off)".
OutputsOffOnTheWayOut == phase = "over" => live = {}
=============================================================================
