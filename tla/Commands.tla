--------------------------------- MODULE Commands ---------------------------------
(* compatctl (src/main.cpp) runs one command per process, and the components below    *)
(* keep nothing in common: a command is the DEX proof of an APK, a script of device  *)
(* commands, the Binder fixture run over and over on one artifact root, or a client  *)
(* of an input session.                                                           *)
EXTENDS DexProbe, DeviceBridge, BinderTransport, InputSession

VARIABLE errand

commandVars == <<errand, dexVars, deviceVars, binderVars, inputVars>>

(* A component that has nothing to do.                                           *)
NoApk == [files |-> << >>, methods |-> [none \in {} |-> 0]]
DexIdle ==
  /\ apk = NoApk /\ fileAt = 1 /\ dexPhase = "done" /\ report = NoReport
  /\ code = [none \in {} |-> << >>] /\ frames = << >> /\ heap = << >>
  /\ born = 0 /\ lost = {}
DeviceIdle ==
  /\ script = << >> /\ world = [adb |-> [none \in {} |-> 0]]
  /\ changes = 0 /\ answers = << >> /\ step = "over" /\ answer = Blank /\ calm = TRUE
BinderIdle ==
  /\ spec = CHOOSE s \in Specs : TRUE
  /\ room = CHOOSE r \in Rooms : TRUE
  /\ BinderUntouched
InputIdle ==
  /\ screen = CHOOSE s \in Screens : TRUE
  /\ SessionNew

CommandsInit ==
  \/ errand = "dex_proof"    /\ DexInit /\ DeviceIdle /\ BinderIdle /\ InputIdle
  \/ errand = "device"       /\ DexIdle /\ DeviceInit /\ BinderIdle /\ InputIdle
  \/ errand = "binder"       /\ DexIdle /\ DeviceIdle /\ BinderInit /\ InputIdle
  \/ errand = "input"        /\ DexIdle /\ DeviceIdle /\ BinderIdle /\ InputInit

ProveDex == DexNext /\ UNCHANGED <<deviceVars, binderVars, inputVars>>
RunScript == DeviceNext /\ UNCHANGED <<dexVars, binderVars, inputVars>>
FollowScript == CommandStep /\ UNCHANGED <<dexVars, binderVars, inputVars>>
ServeBinder ==
  /\ BinderNext
  /\ UNCHANGED <<dexVars, deviceVars, inputVars>>
StepFixture == FixtureStep /\ UNCHANGED <<dexVars, deviceVars, inputVars>>
FeedInput == InputNext /\ UNCHANGED <<dexVars, deviceVars, binderVars>>

CommandsNext ==
  /\ \/ errand = "dex_proof" /\ ProveDex
     \/ errand = "device" /\ RunScript
     \/ errand = "binder" /\ ServeBinder
     \/ errand = "input" /\ FeedInput
  /\ UNCHANGED errand

(* Each is one thread, which the scheduler keeps running.                          *)
CommandsFairness ==
  /\ WF_commandVars(errand = "dex_proof" /\ ProveDex /\ UNCHANGED errand)
  /\ WF_commandVars(errand = "device" /\ FollowScript /\ UNCHANGED errand)
  /\ WF_commandVars(errand = "binder" /\ StepFixture /\ UNCHANGED errand)

CommandsSpec == CommandsInit /\ [][CommandsNext]_commandVars /\ CommandsFairness

(* Types: whatever the errand, every component is in a state it can be in, with no   *)
(* reference to an object that is not there, no question to a device that was not   *)
(* chosen, no byte lost between two sockets and no refused event in the queue.      *)
CommandsTypeOK == DexTypeOK /\ DeviceTypeOK /\ BinderTypeOK /\ InputTypeOK
================================================================================
