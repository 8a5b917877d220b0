------------------------------- MODULE DeviceBridge -------------------------------
(* The runtime bridge (src/runtime_bridge.cpp): commands that look for a device,   *)
(* ask whether an app can be launched on it, launch it, or provision an input      *)
(* method.  Each is a sequence of shell commands, and between any two of them the  *)
(* device or the compat root may change under it.  A user runs a script of such    *)
(* commands (src/main.cpp), one process after the other, about one app.            *)
(*                                                                               *)
(* Left out: the model, release and ABI of a target, the text of the outputs, and  *)
(* arguments that are refused before the first command.                            *)
EXTENDS Integers, Sequences

CONSTANTS
  Scripts,        \* sequences of requests
  Worlds,         \* devices and compat roots a script may start with
  DeviceStates,   \* what an adb device may change to
  StagedStates,   \* what the app's place in the compat root may change to
  AppClasses,     \* classes of the app, for the ART fixtures
  MaxChanges      \* bound: changes of the world during a script

Chain == INSTANCE ArtChain WITH Classes <- AppClasses

(* What a user may ask for; "none" stands for the empty string, here and below.     *)
Requests ==
  [command : {"discover-runtime", "preflight-runtime", "inspect-package",
              "launch-package", "launch-activity", "provision-ime", "adb-ime-status"},
   backend : {"attached-adb", "waydroid", "native"},
   serial : STRING, component : STRING, package : BOOLEAN, matches : BOOLEAN,
   settings : BOOLEAN, override_allowed : BOOLEAN]

(* An adb device: how it is connected, how far the input method has come on it.    *)
Devices == [link : {"device", "offline", "absent"}, setup : 0 .. 4, launcher : STRING]

(* Commands put to the adb device they name.                                        *)
AsksDevice(r) ==
  \/ r.command \in {"provision-ime", "adb-ime-status"}
  \/ r.command = "inspect-package" /\ r.backend # "native"
  \/ r.command \in {"launch-package", "launch-activity"} /\ r.backend = "attached-adb"

(* A script asks at least once, and a device it names and nobody has is an absent    *)
(* one.  Packages are not inspected on Waydroid: that is refused at once.           *)
ASSUME DeviceAssumption ==
  /\ DeviceStates \subseteq Devices
  /\ MaxChanges \in Nat
  /\ \A s \in Scripts :
       /\ s \in Seq(Requests) /\ s # << >>
       /\ \A k \in DOMAIN s : s[k].command = "inspect-package" => s[k].backend # "waydroid"
  /\ \A w \in Worlds :
       /\ w = [adb |-> w.adb, waydroid |-> w.waydroid, staged |-> w.staged]
       /\ w.adb \in [DOMAIN w.adb -> Devices]
       /\ "none" \notin DOMAIN w.adb
       /\ \A s \in Scripts : \A k \in DOMAIN s :
            AsksDevice(s[k]) => s[k].serial \in DOMAIN w.adb

VARIABLES
  script, world,
  changes,    \* how often the world has changed
  answers,    \* reports of the finished commands
  step,       \* the shell command the running one has come to
  answer,     \* report of the running command
  calm        \* history: nothing has changed, failed or timed out so far

deviceVars == <<script, world, changes, answers, step, answer, calm>>

--------------------------------------------------------------------------------
(* The world, as the commands see it.  An adb device is [link, setup, launcher]:   *)
(* `setup` counts how far the input method has come, and each stage needs the one  *)
(* before it.  The compat root is [installed, launcher, facts].                    *)

StageOf == [package |-> 1, registered |-> 2, enabled |-> 3, default |-> 4]
NativeSerial == "linuxoid-native"
WaydroidSerial == "waydroid"

Listed == {s \in DOMAIN world.adb : world.adb[s].link # "absent"}
Reachable(s) == s \in DOMAIN world.adb /\ world.adb[s].link = "device"

(* An exit code of 124 is `timeout`'s.  pclose returns a wait status, and the      *)
(* bridge takes that for the exit code.                                          *)
Timeout == 124
PcloseStatus(exit) == exit * 256
TimedOut(exit) == PcloseStatus(exit) = Timeout

(* What a command sent to a device may come back with, with and without `timeout`. *)
Exits(s)        == IF Reachable(s) THEN {0, 1} ELSE {1}
BoundedExits(s) == Exits(s) \cup {Timeout}

--------------------------------------------------------------------------------
(* Going through a script.                                                       *)

Blank ==
  [targets |-> << >>, serial |-> "none", notes |-> "none", component |-> "none",
   visible |-> FALSE, component_ready |-> FALSE, probe_ready |-> FALSE,
   planned |-> FALSE, ready |-> FALSE, launch_ok |-> FALSE,
   install_ok |-> FALSE, enable_ok |-> FALSE, set_ok |-> FALSE,
   asked |-> 0, seen |-> {}, readback_ok |-> FALSE, settings_ok |-> FALSE,
   usable |-> FALSE]   \* history: all was set up when the last question was answered

Request == script[Len(answers) + 1]
Is(commands) == step # "over" /\ Request.command \in commands
OnAdb == Request.backend = "attached-adb"
OnNative == Request.backend = "native"

FirstStep(r) ==
  IF r.command \in {"discover-runtime", "preflight-runtime"} THEN "discover"
  ELSE IF r.command = "provision-ime" THEN "install"
  ELSE IF r.command = "adb-ime-status" THEN "query"
  ELSE IF r.backend = "native" THEN "lookup"
  ELSE IF r.command = "inspect-package" THEN "visible"
  ELSE IF r.backend = "attached-adb" /\ r.component = "none" THEN "launcher"
  ELSE "start"
FirstAnswer(r) ==
  [Blank EXCEPT
     !.serial = IF r.backend = "native" /\ r.command # "preflight-runtime"
                  THEN NativeSerial ELSE r.serial,
     !.component = r.component]

DeviceInit ==
  /\ script \in Scripts /\ world \in Worlds
  /\ changes = 0 /\ answers = << >> /\ calm = TRUE
  /\ step = FirstStep(script[1]) /\ answer = FirstAnswer(script[1])

Go(next, a) == step' = next /\ answer' = a /\ UNCHANGED answers
Finish(a) ==
  /\ answers' = Append(answers, a)
  /\ IF Len(answers') < Len(script)
       THEN /\ step' = FirstStep(script[Len(answers') + 1])
            /\ answer' = FirstAnswer(script[Len(answers') + 1])
       ELSE step' = "over" /\ answer' = Blank
StaysCalm(ok) == calm' = (calm /\ ok)
Alone == UNCHANGED <<script, world, changes>>

--------------------------------------------------------------------------------
(* Discovery and the choice of a target.                                          *)

Online(targets) == {s \in DOMAIN targets : targets[s] = "online"}

(* Why no target is chosen; "none" if one is.                                        *)
SelectionNote(available, targets) ==
  IF ~available THEN "backend_unavailable"
  ELSE IF DOMAIN targets = {} THEN "no_targets"
  ELSE IF Request.serial # "none" /\ Request.serial \notin DOMAIN targets THEN "serial_unknown"
  ELSE IF Request.serial # "none" /\ targets[Request.serial] # "online" THEN "target_offline"
  ELSE IF Request.serial # "none" THEN "none"
  ELSE IF Online(targets) = {} THEN "none_online"
  ELSE IF \E s, t \in Online(targets) : s # t THEN "several_online"
  ELSE "none"

Selected(targets) ==
  [answer EXCEPT
     !.targets = targets,
     !.serial = IF Request.serial # "none" THEN @ ELSE CHOOSE s \in Online(targets) : TRUE,
     !.notes = IF Request.serial # "none" THEN "none" ELSE "auto_selected"]

(* The verdict a preflight ends with once a target is chosen.                      *)
Verdict(a) ==
  [a EXCEPT
     !.notes = IF @ = "none" THEN "looks_ready" ELSE @,
     !.ready = /\ a.visible /\ a.component_ready
               /\ OnNative /\ Request.package => a.probe_ready /\ a.planned]

(* Only an app on adb or in the compat root is looked at any further.              *)
Chosen(a) ==
  IF Request.package /\ OnAdb THEN Go("visible", a)
  ELSE IF Request.package /\ OnNative THEN Go("lookup", a)
  ELSE Finish(Verdict([a EXCEPT !.visible = TRUE, !.component_ready = TRUE]))

Discovered(available, targets) ==
  IF Request.command = "discover-runtime"
    THEN Finish([answer EXCEPT !.targets = targets])
  ELSE IF SelectionNote(available, targets) # "none"
    THEN Finish([answer EXCEPT !.targets = targets,
                               !.notes = SelectionNote(available, targets)])
  ELSE Chosen(Selected(targets))

DiscoverAdb ==
  /\ step = "discover" /\ OnAdb
  /\ \E exit \in {0, 1, Timeout} :
       /\ Discovered(exit = 0,
            IF exit # 0 THEN << >>
            ELSE [s \in Listed |-> IF Reachable(s) THEN "online" ELSE "offline"])
       /\ StaysCalm(exit = 0)
  /\ Alone

DiscoverWaydroid ==
  /\ step = "discover" /\ Request.backend = "waydroid"
  /\ \E exit \in IF world.waydroid = "missing" THEN {1} ELSE {0, 1} :
       /\ Discovered(exit = 0,
            IF exit # 0 THEN << >>
            ELSE [s \in {WaydroidSerial} |->
                    IF world.waydroid = "running" THEN "online" ELSE "offline"])
       /\ StaysCalm(exit = 0)
  /\ Alone

DiscoverNative ==
  /\ step = "discover" /\ OnNative
  /\ Discovered(TRUE, [s \in {NativeSerial} |-> "online"])
  /\ Alone /\ UNCHANGED calm

--------------------------------------------------------------------------------
(* Questions about an app on an adb device.                                        *)

(* A note that is there already is kept, except for the one of a timeout.          *)
NoteIfNone(a, note) == IF a.notes = "none" THEN note ELSE a.notes

CheckVisible ==
  /\ step = "visible"
  /\ \E exit \in BoundedExits(answer.serial) :
       LET visible == exit = 0 /\ world.adb[answer.serial].setup > 0
           checked == [answer EXCEPT
             !.visible = visible,
             !.notes = IF TimedOut(exit) THEN "visibility_timeout"
                       ELSE IF visible THEN @
                       ELSE NoteIfNone(answer, "package_invisible")] IN
       /\ StaysCalm(exit = 0)
       /\ IF Is({"inspect-package"})
            THEN IF visible THEN Go("launcher", checked) ELSE Finish(checked)
          ELSE IF visible /\ Request.component = "none" THEN Go("launcher", checked)
          ELSE Finish(Verdict([checked EXCEPT !.component_ready = visible]))
  /\ Alone

(* ResolveAttachedAdbLauncherWithRunner                                          *)
Launcher(exit) ==
  IF exit = 0 /\ world.adb[answer.serial].setup > 0
    THEN world.adb[answer.serial].launcher ELSE "none"
NoLauncherNote(exit) ==
  IF TimedOut(exit) THEN "launcher_timeout" ELSE "no_launcher"

ResolveLauncher ==
  /\ step = "launcher"
  /\ \E exit \in BoundedExits(answer.serial) :
       LET found == Launcher(exit)
           resolved == [answer EXCEPT
             !.component = found,
             !.component_ready = found # "none",
             !.notes = IF found # "none" THEN @ ELSE NoteIfNone(answer, NoLauncherNote(exit))] IN
       /\ StaysCalm(exit = 0)
       /\ IF Is({"preflight-runtime"}) THEN Finish(Verdict(resolved))
          ELSE IF Is({"inspect-package"}) THEN Go("path", resolved)
          ELSE IF found = "none" THEN Finish(resolved)
          ELSE Go("start", resolved)
  /\ Alone

(* What they answer is only rendered.                                            *)
InspectFurther ==
  /\ step \in {"path", "dump"}
  /\ \E exit \in BoundedExits(answer.serial) : StaysCalm(exit = 0)
  /\ IF step = "path" THEN Go("dump", answer)
     ELSE Finish([answer EXCEPT !.notes = NoteIfNone(answer, "metadata_resolved")])
  /\ Alone

(* LaunchAdbActivityWithRunner.  `am start` prints the component it was asked for   *)
(* whatever it starts, which is enough for LaunchOutputMentionsComponent.          *)
StartActivity ==
  /\ step = "start" /\ OnAdb
  /\ \E exit \in Exits(answer.serial), started \in BOOLEAN :
       /\ started => Reachable(answer.serial)
       /\ started /\ answer.component # "foreign" => world.adb[answer.serial].setup > 0
       /\ Finish([answer EXCEPT !.launch_ok = exit = 0 /\ started])
       /\ StaysCalm(exit = 0)
  /\ Alone

StartWaydroidApp ==
  /\ step = "start" /\ Request.backend = "waydroid"
  /\ \E exit \in {0, 1} :
       /\ Finish([answer EXCEPT !.launch_ok = exit = 0])
       /\ StaysCalm(exit = 0)
  /\ Alone

--------------------------------------------------------------------------------
(* Apps in the compat root.  Every question looks the app up anew.                 *)

Staged == world.staged

Found == Staged.installed = "install" /\ Request.serial \in {"none", NativeSerial}

LookUpStaged ==
  /\ step = "lookup"
  /\ LET component == IF Request.component = "none" /\ Found THEN Staged.launcher
                      ELSE Request.component
         looked == [answer EXCEPT
           !.visible = Found,
           !.component = component,
           !.component_ready = Found /\ component # "none" /\ Request.component # "foreign",
           !.notes = IF ~Found THEN "not_staged"
                     ELSE IF Request.component = "foreign" THEN "component_elsewhere"
                     ELSE IF component = "none" THEN "no_launcher" ELSE @] IN
     IF Is({"inspect-package"}) THEN Finish(looked)
     ELSE IF Is({"preflight-runtime"})
       THEN IF looked.component_ready THEN Go("diagnose", looked) ELSE Finish(Verdict(looked))
     ELSE IF Found /\ component # "none" THEN Go("execute", looked) ELSE Finish(looked)
  /\ Alone /\ UNCHANGED calm

(* BuildNativePreflightDiagnostics.  A runtime that only the override provides     *)
(* does not count unless the environment says so.                                 *)
OverrideOnly(f) ==
  Chain!RuntimeCapability(f) = "override_bootstrap_capable" /\ ~Request.override_allowed
ProbeReady(f) == Chain!RuntimeClassResolutionSucceeded(f) /\ ~OverrideOnly(f)

\* Mutant: a runtime that is detected and cannot be used is not told apart.
DiagnosticsNoteDetected(f) ==
  IF ~Chain!RuntimeDetected(f) THEN "runtime_missing"
  ELSE IF OverrideOnly(f) THEN "override_only"
  ELSE IF Chain!SafeRuntimeProbe(f) /\ ~Chain!RuntimeClassResolutionSucceeded(f)
    THEN "resolution_not_ready"
  ELSE IF ~Chain!RuntimeBootstrapPlanned(f) THEN "bootstrap_not_planned"
  ELSE "looks_ready"
DiagnosticsNote(f) ==
  IF ~Chain!RuntimeDetected(f) THEN "runtime_missing"
  ELSE IF Chain!RuntimeCapability(f) = "host_app_process_detection_only"
    THEN "runtime_detection_only"
  ELSE IF OverrideOnly(f) THEN "override_only"
  ELSE IF ~Chain!RuntimeClassResolutionSucceeded(f) THEN "resolution_not_ready"
  ELSE IF ~Chain!RuntimeBootstrapPlanned(f) THEN "bootstrap_not_planned"
  ELSE "looks_ready"

(* The fixtures may throw; they do when the app is no longer there.                *)
Diagnose ==
  /\ step = "diagnose"
  /\ \E throws \in BOOLEAN :
       /\ Staged.installed # "install" => throws
       /\ Finish(Verdict(
            IF throws THEN [answer EXCEPT !.notes = "error"]
            ELSE [answer EXCEPT
                    !.probe_ready = ProbeReady(Staged.facts),
                    !.planned = Chain!RuntimeBootstrapPlanned(Staged.facts),
                    !.notes = DiagnosticsNote(Staged.facts)]))
       /\ StaysCalm(~throws)
  /\ Alone

\* Mutant: the launch does not ask who provides the runtime.
LaunchOkOverridden(f, succeeded) == succeeded
LaunchOk(f, succeeded) == succeeded /\ ~OverrideOnly(f)

(* RunNativeArtBootstrapExecutionFixture runs what the compat root names as the    *)
(* launcher, whatever component was asked for.                                    *)
Execute ==
  /\ step = "execute"
  /\ \E throws, succeeded \in BOOLEAN :
       /\ Staged.installed # "install" => throws
       /\ succeeded => ~throws /\ Chain!RunnerInvoked(Staged.facts)
       /\ Finish([answer EXCEPT
            !.launch_ok = ~throws /\ LaunchOk(Staged.facts, succeeded)])
       /\ StaysCalm(~throws)
  /\ Alone

--------------------------------------------------------------------------------
(* Input methods: ProvisionAdbImeWithRunner, TryQueryAdbImeStatusWithRunner.       *)

Setup == world.adb[Request.serial].setup
Larger(m, n) == IF m > n THEN m ELSE n

(* The APK is another app's: nothing is run.                                      *)
RejectApk ==
  /\ step = "install" /\ ~Request.matches
  /\ Finish([answer EXCEPT !.notes = "package_mismatch"])
  /\ Alone /\ UNCHANGED calm

(* A command that may take the input method on to a stage, or leave it where it is; *)
(* it may have worked though it says it failed.                                   *)
Advances(stage, needed, exit, setup) ==
  /\ exit \in Exits(Request.serial)
  /\ setup = Setup \/ /\ Reachable(Request.serial) /\ Setup >= needed
                      /\ setup = Larger(Setup, stage)
  /\ world' = [world EXCEPT !.adb[Request.serial].setup = setup]
  /\ UNCHANGED <<script, changes>>
  /\ StaysCalm(exit = 0)

(* Success is printed for an installed app, be it an input method or not.          *)
InstallApk ==
  /\ step = "install" /\ Request.matches
  /\ \E exit \in {0, 1}, setup \in 0 .. 4, stage \in {1, 2}, success \in BOOLEAN :
       /\ Advances(stage, 0, exit, setup)
       /\ success => setup >= stage
       /\ Go("enable", [answer EXCEPT !.install_ok = exit = 0 /\ success])

(* The steps after a failed one are run all the same.                              *)
EnableIme ==
  /\ step = "enable"
  /\ \E exit \in {0, 1}, setup \in 0 .. 4 :
       /\ Advances(3, 2, exit, setup)
       /\ Go("set", [answer EXCEPT !.enable_ok = exit = 0])
SetIme ==
  /\ step = "set"
  /\ \E exit \in {0, 1}, setup \in 0 .. 4 :
       /\ Advances(4, 3, exit, setup)
       /\ Go("query", [answer EXCEPT !.set_ok = exit = 0])

AllFacts == {"package", "registered", "enabled", "default"}
ReadyForTyping(a) ==
  /\ a.install_ok /\ a.enable_ok /\ a.set_ok
  /\ a.readback_ok
  /\ a.seen = AllFacts
  /\ Request.settings => a.settings_ok
Provisioned(a) ==
  IF Is({"provision-ime"}) THEN [a EXCEPT !.ready = ReadyForTyping(a)] ELSE a

\* Mutant: the default input method is asked for first.
DefaultFirst == <<"default", "package", "registered", "enabled">>
StatusQueries == <<"package", "registered", "enabled", "default">>

(* One status query: a question that fails ends the readback with what was seen.   *)
QueryStatus ==
  /\ step = "query"
  /\ LET fact == StatusQueries[answer.asked + 1] IN
     \E exit \in Exits(Request.serial) :
       LET asked == [answer EXCEPT
             !.asked = @ + 1,
             !.usable = Setup = 4,
             !.seen = IF Setup >= StageOf[fact] THEN @ \cup {fact} ELSE @] IN
       /\ StaysCalm(exit = 0)
       /\ IF exit # 0 THEN Finish(Provisioned([answer EXCEPT !.notes = "readback_error"]))
          ELSE IF asked.asked < Len(StatusQueries) THEN Go("query", asked)
          ELSE IF Request.settings THEN Go("settings", asked)
          ELSE Finish(Provisioned([asked EXCEPT !.readback_ok = TRUE]))
  /\ Alone

OpenSettings ==
  /\ step = "settings"
  /\ \E exit \in Exits(Request.serial), shown \in BOOLEAN :
       /\ shown => Reachable(Request.serial) /\ Setup > 0
       /\ Finish(Provisioned([answer EXCEPT !.readback_ok = TRUE,
                                            !.settings_ok = exit = 0 /\ shown]))
       /\ StaysCalm(exit = 0)
  /\ Alone

(* CalculateProvisioningProgress, in percent.                                     *)
One(claim) == IF claim THEN 1 ELSE 0
FactsSeen(a) == One("package" \in a.seen) + One("registered" \in a.seen)
                  + One("enabled" \in a.seen) + One("default" \in a.seen)
Satisfied(r, a) ==
  One(r.matches) + One(a.install_ok) + One(a.enable_ok) + One(a.set_ok)
    + One(a.readback_ok) + FactsSeen(a) + One(r.settings /\ a.settings_ok)
\* Mutant: the settings screen is left out of the total.
ProgressWithoutSettings(r, a) == (200 * Satisfied(r, a) + 9) \div 18
Progress(r, a) ==
  LET total == 9 + One(r.settings) IN (200 * Satisfied(r, a) + total) \div (2 * total)

--------------------------------------------------------------------------------
(* What the commands have no say in.                                              *)

(* adb, waydroid or a runtime that never answers.  `timeout` ends the questions    *)
(* asked with it.                                                                *)
\* Mutant: the launcher is resolved without a timeout.
BoundedWithoutLauncher == {"discover", "visible", "path", "dump"}
Bounded == {"discover", "visible", "launcher", "path", "dump"}
Hang ==
  /\ step \notin {"over", "hung", "lookup"}
  /\ step \notin Bounded \/ Request.backend = "waydroid"
  /\ step' = "hung"
  /\ calm' = FALSE
  /\ UNCHANGED <<script, world, changes, answers, answer>>

(* Somebody plugs a device in or out, installs or removes the app, or chooses       *)
(* another input method.                                                         *)
WorldChanges ==
  /\ changes < MaxChanges /\ step \notin {"over", "hung"}
  /\ \/ \E s \in DOMAIN world.adb, d \in DeviceStates :
          world' = [world EXCEPT !.adb[s] = d]
     \/ \E s \in StagedStates : world' = [world EXCEPT !.staged = s]
  /\ world' # world
  /\ changes' = changes + 1
  /\ calm' = FALSE
  /\ UNCHANGED <<script, answers, step, answer>>

ScriptOver == step \in {"over", "hung"} /\ UNCHANGED deviceVars

CommandStep ==
  \/ DiscoverAdb \/ DiscoverWaydroid \/ DiscoverNative
  \/ CheckVisible \/ ResolveLauncher \/ InspectFurther
  \/ StartActivity \/ StartWaydroidApp
  \/ LookUpStaged \/ Diagnose \/ Execute
  \/ RejectApk \/ InstallApk \/ EnableIme \/ SetIme
  \/ QueryStatus \/ OpenSettings
DeviceNext == CommandStep \/ Hang \/ WorldChanges \/ ScriptOver
DeviceFairness == WF_deviceVars(CommandStep)
DeviceSpec == DeviceInit /\ [][DeviceNext]_deviceVars /\ DeviceFairness

--------------------------------------------------------------------------------
(* Properties.                                                                  *)

Running == step \notin {"over", "hung"}
Finished(commands) == {k \in DOMAIN answers : script[k].command \in commands}

(* Types: a question about an app is put to a device only while one is chosen, and  *)
(* a report names no fact it has not asked for (PreflightRuntimeWithRunner,        *)
(* TryQueryAdbImeStatusWithRunner).                                              *)
DeviceTypeOK ==
  /\ step \in Bounded \cup {"start", "lookup", "diagnose", "execute", "install", "enable",
                            "set", "query", "settings", "over", "hung"}
  /\ Running => Len(answers) < Len(script)
  /\ step \in Bounded \ {"discover"} => answer.serial \in DOMAIN world.adb
  /\ answer.asked \in 0 .. Len(StatusQueries)
  /\ answer.seen \subseteq {StatusQueries[k] : k \in 1 .. answer.asked}
  /\ changes \in 0 .. MaxChanges
  /\ \A s \in DOMAIN world.adb : world.adb[s].setup \in 0 .. 4

(* An input method that is reported ready for typing was installed, registered,     *)
(* enabled and the default when the last of the four questions was answered, even  *)
(* if it was not before (the order of the queries of                              *)
(* TryQueryAdbImeStatusWithRunner: each fact needs the ones asked for before it).   *)
ReadyWasUsable ==
  \A k \in Finished({"provision-ime"}) : answers[k].ready => answers[k].usable

(* The loading bar is full exactly if the report says ready: the two are computed   *)
(* apart (CalculateProvisioningProgress, ready_for_typing).                        *)
FullBarMeansReady ==
  \A k \in Finished({"provision-ime"}) :
    Progress(script[k], answers[k]) = 100 <=> answers[k].ready

(* A preflight's note and its verdict agree, on every backend: "looks ready" only   *)
(* if it is, and no reason against it if it is (PreflightRuntimeWithRunner,         *)
(* BuildNativePreflightDiagnostics).                                              *)
NotesTellTheVerdict ==
  \A k \in Finished({"preflight-runtime"}) :
    /\ answers[k].notes = "looks_ready" => answers[k].ready
    /\ answers[k].ready => answers[k].notes \in {"looks_ready", "auto_selected"}

(* What a preflight said is not ready is not launched afterwards, and a launch      *)
(* starts the component the preflight named, unless something changed or failed in  *)
(* between, the user has set an input method up or another environment, or another   *)
(* app's component was asked for: the two commands decide it each for themselves    *)
(* (PreflightRuntimeWithRunner, LaunchInstalledAppWithRunner).                     *)
SameTarget(j, k) ==
  /\ script[j].backend = script[k].backend /\ script[k].backend # "waydroid"
  /\ script[j].component = script[k].component /\ script[k].component # "foreign"
  /\ script[j].override_allowed = script[k].override_allowed
  /\ script[j].package
  /\ answers[j].serial = answers[k].serial
NoneSetUp(j, k) == \A i \in j .. k : script[i].command # "provision-ime"
PreflightForetellsLaunch ==
  calm =>
    \A j \in Finished({"preflight-runtime"}), k \in Finished({"launch-package"}) :
      j < k /\ SameTarget(j, k) /\ NoneSetUp(j, k) /\ answers[k].launch_ok =>
        answers[j].ready /\ answers[j].component = answers[k].component

(* A question about a device ends, even if adb never answers: every command it is   *)
(* made of runs under `timeout` (WrapWithTimeout).                                 *)
AskingAdb(n) ==
  /\ Running /\ Len(answers) = n
  /\ Request.command \in {"discover-runtime", "preflight-runtime", "inspect-package"}
  /\ OnAdb
QuestionsEnd ==
  \A n \in UNION {0 .. Len(s) - 1 : s \in Scripts} : AskingAdb(n) ~> Len(answers) > n
================================================================================
