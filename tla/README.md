# Linuxoid: a TLA+ verification project

Linuxoid (`linuxoid-cpp`) runs parts of an Android APK on a Linux host.  The
program is one command line tool; it forks a copy of itself for every native
runner, keeps its sessions in files, and otherwise runs sequentially.  What is
hard about it is therefore not locks but what processes, files, devices and a
watchdog thread can do to each other: a runner that dies without a word, a report
left by an earlier launch, a recovery pass that works on a copy of the truth, a
device that changes between two questions, a socket that is too small; and the
two interpreters with which it runs an app's DEX code.  These
modules model that core, TLC checks it on small instances, and TLAPS proves part
of it for every instance.

Paths below are relative to the repository (`src/...` is its source directory).

## 1. Inventory

| Component (source) | State it keeps | Operations | Interacts with | Hard behaviours | What makes it correct |
|---|---|---|---|---|---|
| Native execute stub (`native_execute_stub.cpp`, `signal_handler.cpp`, `main.cpp`) | report being filled, library handles, thread-local signal trap, watchdog thread and its atomic | find and order libraries, preload shims, load, select, call `JNI_OnLoad`, registration callbacks, the entry point, write the report | library code; the parent that forked it, through the report file and the exit status | signals in library code, `siglongjmp`, the watchdog's `_Exit(0)`, an entry point that never returns | the report claims only what ran; the process ends |
| Native lifecycle session (`native_lifecycle.cpp`) | `session.json`, `runner-report.json` under `<install_id>-default` | create the session, fork, wait, fold the report in | runner; later and concurrent launches of the same app | stale report, torn report, interrupted wait, parent killed, overlapping launches | manifest and returned result agree with what the runner did |
| Persisted session contracts (`apk_process_bridge.cpp`, `apk_window_bridge.cpp`, `apk_runtime_bridge.cpp`, `apk_java_proof_bridge.cpp`) | one to three files per bridge under the sandbox | compute a blocking reason, validate what is on disk, refuse or rewrite | each other (by health), the watchdog, the next launch | crash between two writes, stale or foreign files, repair allowed or not | a file is trusted only when it tells today's story, and after a launch all do |
| Direct APK launch pipeline (`apk_native_launch.cpp`) | the launch report | expand the request, stage, run proofs, launch, contracts, watchdog, refresh | all bridges, the runner | one proof of many failing, proofs run twice with different options | aggregate health equals what the proofs say last |
| Self-healing watchdog (`apk_self_healing_watchdog.cpp`) | a working copy of the healths, the recovery journal | one ordered pass of twelve repairs, verdict | bridges, launch pipeline | stale copy, order of repairs, upstream gate | verdict honest, repairable faults repaired, nothing healed silently |
| Runtime diagnostics (`runtime_health.cpp`) | trace, health, actions, plan and replay files in a session root | run the fixture chain, write a bundle, replay a bundle | the ART chain, every other writer of the session root | several files written one by one, read back by another process | a replay says what the run said |
| Device bridge (`runtime_bridge.cpp`) | none of its own; the device's packages and input method settings | discover targets, preflight, inspect, launch, provision an input method | `adb`, `waydroid`, the compat root and the ART chain | the device changes between two commands; a command fails, times out or never answers | what is reported ready was usable; a preflight and a launch agree |
| Binder service manager (`binder_service_manager.cpp`) | six files under the artifact root, a socket pair | describe the services, send lookups and transactions, write the metadata | launch pipeline, lifecycle shim | a message larger than the socket buffer; a run that fails or is stopped half-way, in the middle of a file too | what stands beside a ready metadata file describes services; the fixture ends |
| Activity launch bridge (`apk_activity_launch_bridge.cpp`) | none | resolve the launcher intent, build the activity record | manifest, process manager | ambiguous or hidden launchers | one exported, enabled launcher is resolved |
| Lifecycle bridge (`apk_lifecycle_bridge.cpp`) | queue of input events, next sequence id, count of refusals | enqueue an event, run the deterministic proof | launch pipeline | a second proof on one session, ids of the client's own | numbers differ, replay is complete, readiness tells what was refused |
| Permission bridge (`apk_permission_bridge.cpp`) | grants and AppOps file | evaluate and simulate grants | manifest, storage | unknown or signature permissions | nothing is granted that was not requested |
| Storage and asset bridges (`apk_storage_bridge.cpp`, `apk_asset_bridge.cpp`, `asset_manager_stub.cpp`) | the sandbox's directories, the asset index | map, read, write, clear | staging | paths that leave the sandbox | every access stays inside |
| DEX bridge (`apk_dex_bridge.cpp`) | tables of the DEX files; frames, registers and placeholder objects of the probe | parse, find the entry point, interpret it and what it calls, stub what it does not know | staged payload | object ids of caller and callee, results that are taken late, inferred sizes, wide registers | the probe computes what Dalvik does or stops and says where |
| APK loader, archive, binary XML (`apk_loader.cpp`, `apk_archive.cpp`, `android_binary_xml.cpp`) | staged files | inspect, extract, parse | external tools | malformed input | input errors are reported |
| ART fixture chain (`art_*.cpp`) | one report per step | class loader, resolution, smoke, bootstrap, execution | each step reads the one before | a missing or failed step | a later step is never ready when an earlier one is not |
| Native window, input, graphics fixtures (`native_window_surface.cpp`, `native_input_queue_fixture.cpp`, `wayland_surface_fixture.cpp`, `egl_smoke_fixture.cpp`) | window and queue objects | create, resize, destroy, attach, detach | compositor, EGL | callback order | no use of a destroyed window |
| Compatibility bridge, host integration, layouts, status, shims | none | classify, render | - | - | pure functions of their input |

## 2. Modules

| Module | Models | Extends / instantiates |
|---|---|---|
| `NativeLibraries` | pure algorithms: library rank and order, selection of entry point and JNI library, the shim state | - |
| `NativeRunner` | the child process: main thread, watchdog thread, signal trap, report file | `NativeLibraries`; instance of `RunnerContract` |
| `NativeRunnerProofs` | theorems about `NativeRunner` | `NativeRunner`, `FiniteSetTheorems`, `WellFoundedInduction`, `TLAPS` |
| `RunnerContract` | abstract specification: what a parent may rely on of any runner | - |
| `NativeSession` | the parent's protocol over shared files, with several launches and their runners | runners step as `RunnerContract` allows |
| `NativeSessionProofs` | theorems about `NativeSession` | `NativeSession`, `TLAPS` |
| `PersistedContracts` | pure algorithms: validation and rewriting of a contract file, torn writes | - |
| `SelfHealing` | launches one after another over one sandbox: proofs, contracts, watchdog, refresh, crashes, damage | `PersistedContracts` |
| `SelfHealingProofs` | theorems about `SelfHealing` | `SelfHealing`, `TLAPS` |
| `ArtChain` | pure algorithms: the ladders of the five ART fixtures over one record of package and host facts | - |
| `RuntimeHealth` | pure algorithms: health records, recovery actions, traces, and what a replay makes of a trace | `ArtChain` |
| `RuntimeDiagnostics` | the diagnostic commands over one session root, file write by file write, with the generated runner script | `RuntimeHealth` |
| `RuntimeDiagnosticsProofs` | theorems about `RuntimeDiagnostics` | `RuntimeDiagnostics`, `TLAPS` |
| `DexValues`, `DexInstructions`, `DexStubs` | pure algorithms: register values and placeholder objects, the instructions both interpreters know, the platform methods they stub | - |
| `DexProbe` | the DEX proof: files, tables, entry point, the probe's frame and the inline frames it calls | the three above |
| `DexProbeProofs` | theorems about `DexProbe` | `DexProbe`, `FiniteSetTheorems`, `WellFoundedInduction`, `TLAPS` |
| `DeviceBridge` | scripts of device commands over devices and a compat root that change | instance of `ArtChain` |
| `DeviceBridgeProofs` | theorems about `DeviceBridge` | `DeviceBridge`, `TLAPS` |
| `BinderTransport` | the Binder fixture: its files, opened and then written, and its socket pair, in bytes | - |
| `InputSession` | a lifecycle session: input queue, numbering, proofs | - |
| `InputSessionProofs` | theorems about `InputSession` | `InputSession`, `FiniteSetTheorems`, `TLAPS` |
| `Commands` | one errand per process: DEX proof, device script, Binder fixture or input session | the four above |
| `CommandsProofs` | theorems about `BinderTransport` and about `Commands` | `Commands`, the proofs of the three others, `TLAPS` |
| `MC*` | instances for TLC | the module of that name |

**Runner and session.**  `NativeRunner` has one action per stretch of
`ExecuteNativeStub` between two points where another actor may step: a call into
library code (which may return, raise a trapped signal, or end the process), the
store to `entry_completed`, the watchdog thread's sleep, its read of the atomic
and its `_Exit(0)`, the open and the write of the report.  `pc` is the main
thread's place in that function.  Only the fields of `NativeExecuteReport` the
parent or a property reads are kept.  `RunnerContract` says the rest of the
program's view: a process that opens the report at most once, publishes at most
one, and ends.  `ImplementsContract` checks the refinement, and `NativeSession`
composes parents with runners that only promise this much, so its results hold
for every runner.

**Self-healing.**  `SelfHealing` walks the report's answers (`ready`, `reason`)
through the launch, the watchdog's working copy (`work`) and the refresh.  The
phase and `at` give the place in `LaunchNativeApk` and in the watchdog's `Run`;
each contract bridge is one step, because a crash may fall between two and each
reads what an earlier launch left.  Proofs whose answers live in the report only
are grouped (the module's head says which) and answer by fault: `simulated` (a
`--simulate` option overwrites the first answer), `transient`, `permanent`.

**Diagnostics.**  `ArtChain` has one operator per `exit_reason` ladder, over a
record of what the chain asks of package and host; each fixture recomputes the one
before it, which is why operators are enough.  `RuntimeDiagnostics` has the order of
the files the chain writes (`WriteOrder`); a step opens a trace, which truncates it,
and another fills it.  Traces of which the replays use only the presence are written
in one step, since nobody can tell the moments apart.  The script that the bootstrap
execution generates is a process of its own: it outlives a command that is killed
while waiting for it, and may be killed itself.  A trace is the set of its events,
which is what the replays' folds see of it.  `published`, `fresh` and `alone` are
history variables.

**DEX probe.**  `apk_dex_bridge.cpp` holds two interpreters: the probe, which runs the
entry point (`RunExecutionProbe`), and one that runs what it calls
(`ExecuteInlineInvokedMethod`), in turn calling itself.  Each opcode is one action's
alternative, `ProbeInstruction` or `InlineInstruction`, over the operators of
`DexInstructions` where the two agree.  `frames` is the stack of the two, `heap` the
placeholder objects they share, and each frame has the object counter the code gives
it.  A method's instructions are model values that already say which opcode they are:
decoding of code units is left out, and what is behind a program counter is settled in
`code`.  `DexStubs` has the platform methods the interpreters answer themselves; the
objects a stub creates or completes are part of its step.  `born` and `lost` are history:
how many objects were made and which references lost theirs.  Words are `WordBits`
wide, so that a long is two registers that can carry into each other.  Additions of
ints wrap, as they do in the build, and so do the lengths that `aget-object` and the
stubs infer for an array nobody sized (`MCDexProbe` has a program that asks for the last
index of all); the lengths and positions given to `System.arraycopy` are kept in range,
because the C++ addition behind it is not defined beyond, so nothing is claimed of
programs that copy past it.

**Device bridge.**  A script is a sequence of commands a user runs on one app.  Every
shell command of `runtime_bridge.cpp` is one step, and between two steps anybody may
plug a device in or out, install or remove the app, or choose another input method
(`WorldChanges`).  An input method on a device goes through four stages, each needing the
one before it (`setup`): installed, registered, enabled, default.  A command may fail,
may have worked though it failed, and may never answer (`Hang`) unless it runs under
`timeout`.  `PcloseStatus` is what `RunCommandCaptureAllowFailure` hands over as an exit
code.  For the native backend the preflight and the launch use the operators of
`ArtChain`.  `calm` and `usable` are history.

**Binder fixture.**  `BinderTransport` follows a run through its plan: for a complete
spec four described files, fourteen messages, the transport log and the metadata; for an
incomplete one the metadata and five empty files.  A message is a number of bytes: the
envelope and the lengths of the strings it carries.  `WriteTransportBytes` puts as much
in the socket as there is room for, and since the same thread would read it, waits for
ever when there is none left.  Any file may fail to open and any socket pair to be
created.  A file takes two steps, as `WriteTextFile` does: opening it empties it
(`OpenFile`), and nobody asks whether what is then written gets through (`WriteFile`,
`DiskFull`).  A run may be stopped anywhere (`FixtureStopped`), so a file may be left
empty or short.  `disk` tells of each file which run opened it last, whether that run had
services to describe, and how much it `holds`.

**Input session.**  `InputSession` is `NativeApkLifecycleBridgeSession`: the queue, the
next sequence id, the count of refusals.  The looper's queue lives within one proof, so
a proof is one step (one that cannot write its log throws at its very end, when all this
has happened: its record is then of a report nobody got).  The launch pipeline runs one proof on a fresh session; the class
allows any number of both calls in any order, and that is what is checked.

**Commands.**  `compatctl` runs one command per process and these four components share
nothing, so `Commands` puts them side by side as errands: a behaviour is the story of
one of them while the others rest.

## 3. What the runs show

| Run | Instance | Result |
|---|---|---|
| `native_runner` | 3 libraries of different rank, two with names the selection prefers; 2 shims; 2 callbacks; fair threads | type, trap, selection, report and watchdog invariants; `RunnerContract` is implemented; the process ends even if the entry point never returns |
| `native_runner_crash` | 1 library | **violated**: a `JNI_OnLoad` that ends in a signal can be recorded as called |
| `native_session` | 2 launches, 2 reports, fair | manifest and result against what the runners did; every launch ends |
| `native_session_stale` | as above | **violated**: an old report is believed |
| `native_session_throw` | as above | **violated**: a truncated report leaves the manifest at RUNNING |
| `self_heal` | one of `Plans`: 2 launches, 1 upset and 1 fault each with 2 requests; or 1 launch with 3 faults and 5 requests | verdict, repairs, files and journal, over two launches and with faults that meet |
| `self_heal_repeat`, `self_heal_java` | smaller instances | **violated**: see the findings |
| `diagnostics` | one of: 2 commands, 2 packages, 2 scenarios; or 2 health commands with 12 packages and hosts, one for each rung of the ladders and one that starts the script | a replay of one run's files says what that run said; a clean run's success is real; later steps need earlier ones; the ladders agree |
| `diagnostics_ready` | 2 commands, both script phases | **violated**: nothing ran and the record is ready |
| `commands` | about 245 000 states in four parts | see below |
| `dex_alias` | APKs whose entry point makes an object after a call that made one | **violated**: the callee's object is replaced |

What `commands` shows, by errand:

- *DEX proof.*  Small APKs, one per family of opcodes, stubs, calls and file errors.
  Longs held in two registers agree with the 64-bit value the interpreter works with
  (`LongsAgree`); a move-result takes the result of the latest call
  (`PendingIsLatest`, but for the entry point's invoke-super, which the property
  excepts); a collection holds elements within its length
  (`CollectionsHoldTheirOwn`); a method that calls nothing never
  gives two objects one id (`LeavesNeverAlias`, the positive side of `dex_alias`); the
  verdict names the file that answered for the entry point (`ProofTellsItsFiles`); code
  without backward branches ends (`ForwardProofsEnd`).
- *Device script.*  An input method reported ready for typing was installed, registered,
  enabled and default when the last question was answered, although four commands
  asked and the device may have changed in between (`ReadyWasUsable`): the order of the
  questions matters, and the mutant that asks for the default first breaks it.  Loading
  bar and verdict agree (`FullBarMeansReady`), so do note and verdict
  (`NotesTellTheVerdict`), and what a preflight calls not ready is not launched, nor
  another component than it names (`PreflightForetellsLaunch`, for the same app on the
  same target in the same environment, while nothing changes or fails and no input method
  is set up in between: provisioning can bring the launched package onto the device).
  Questions to adb end (`QuestionsEnd`).
- *Binder fixture.*  Several runs share one artifact root, and each may fail, be stopped or
  meet a full disk at any file.  Beside a metadata file that says ready every file describes
  services: it is of the run that says so, or a later run for a complete spec has at least
  opened it (`ReadyMetadataHasItsFiles`).  Such a file may be empty, or short if the disk was
  full; section 4 says so.  What the property rules out is that a run that failed or was
  stopped says ready over files it did not write, and that one for an incomplete spec leaves
  the word standing over its empty files.  The fixture ends if its longest message fits in the socket
  (`FittingFixturesEnd`, with the boundary tried on both sides).
- *Input session.*  Numbers of states and inputs differ over all proofs of a session
  (`NumbersDiffer`, for inputs the session numbered), a later proof replays the whole
  queue of an earlier one (`LaterProofsReplay`), and a proof is ready exactly if nothing
  was refused before it (`ReadyTellsTheSession`).

The properties stop short of some of what the code does wrong or leaves open, and do
not vouch for it: mixed bundles, the entry point's invoke-super, operands of a long
that overlap its result, code that loops or recurses, a message that does not fit,
an entry point's end (assumed of the runner by `LaunchEnds`, shown by `RunnerEnds`).
The notes of the hazards in `PROJECT.json` say so, each at its line.

*Bounds.*  Three libraries are enough for the load loop: one before, one at and
one behind the library it stops at.  Two launches are enough for everything a
launch can find, because a launch reads only what is on disk, and what is there
was written by the last writer or by two.  One upset between two launches or in
one reaches every torn state the writes can leave; two faults in one pass meet
wherever one repair reads another's answer, and three leave room for a gate.
Two commands are enough for a
torn bundle: a third would only replace one of the two authors of each file, and the
proofs hold for any number.  `PackageFacts` bounds the packages and hosts, `RunCommands`
and `RunScenarios` what is asked, `PhaseOutcomes` what the script's commands do; a
health command is a diagnostic command that dies before its replay.  The two commands
are interchangeable (`SYMMETRY`), as no property orders them.  For the DEX proof
`WordBits` = 4 leaves room for carries, borrows and negative ints, `ProbeRegisters` = 6
for two longs and two more registers, and `MaxFrames` = 4 for a call in a call in a
call; an APK has one to three methods, enough for two callers of one callee.  A device
script has at most two commands, as only a preflight and the launch after it are
compared, two devices (for none, one or several online) and one change of the world
(`MaxChanges`), at any of its steps.  The Binder fixture runs twice on one artifact root
with sockets that hold 30, 39, 40 and 90 bytes: too small for a message, one short of the
longest ordinary one, just large enough for it, and large enough for one with a long path;
`MaxShort` = 1 bounds the files that a full disk has cut short at a time, as no run looks at
more than it writes itself.
A session takes two input events and two proofs, in any order.
`CHECK_DEADLOCK FALSE` is used where the system really stops: all launches are
over, or the bound on launches is reached.

*Fairness.*  `NativeRunner!FairSpec` assumes that the kernel schedules both
threads and that `JNI_OnLoad` and the callbacks return; nothing is assumed of the
entry point, which is what the watchdog thread is for.  `NativeSession!FairSpec`
assumes that parents are scheduled, counting on no failure of `fork` or `waitpid`, and
that runners end (`RunnerContract!FairSpec`).  The diagnostics wait for the script
without a timeout, so nothing is claimed of their end.  `CommandsFairness` assumes that
the kernel keeps the one thread of each errand running.  It does not assume that a
device answers: `Hang` may take any command that is not run under `timeout`.

## 4. Findings

1. `native_runner_crash`: `BeginSignalTrap` calls `sigsetjmp` in a function that
   returns before the library is called, so the handler's `siglongjmp` jumps into
   a dead frame; the crash branch may or may not be reached.
2. `native_session_stale`: a runner that dies before it opens its report lets the
   parent read the report of an earlier launch.
3. `native_session_throw`: a runner that dies between truncating and writing the
   report makes the parent throw; the manifest stays at `RUNNING`.
4. `self_heal_repeat`: two undisturbed launches that end at the same post-dispatch
   blocker journal different actions, because the runtime bridge's own state file
   always says it is not ready.
5. `self_heal_java`: a healthy watchdog verdict makes the java proof ready on a
   host without ART.
6. `diagnostics_ready`: when the script dies before it writes its state, both phases
   count as not attempted, a phase that was not attempted counts as succeeded, and the
   bootstrap execution is ready; an earlier run's state file has the same effect.
7. `dex_alias`: a method that is run inline counts object ids from the highest in use,
   and its caller's own counter does not learn of it; the next object of the caller
   takes the callee's id and its place in the heap.

Smaller disagreements met on the way, without a run of their own: after
`restart_surface` the watchdog's pass rebuilds the activity contract from the healths
before the repair (CHANGELOG.md:313 says it can); a trace counts as present as soon as
its file is there (`runtime_health.cpp:1271`), so between the moment another run
truncates the health trace and the moment it writes it, or after it died there, a replay
finds nothing failing and says ready even on a host without ART (README.md:804 says
"Linuxoid refuses false success when a critical dependency is missing"); and a package
without DEX entries is ready in the health report while the replay counts its manifest's
classes as unresolved, which is why `BundleTellsItsRun` leaves that verdict open. In the
device bridge the wait status of `pclose` is taken for the exit code
(`runtime_bridge.cpp:245`), so `timeout`'s 124 arrives as 31744 and no report ever says
"timed out", as `docs/solutions/attached-adb-discovery-hangs-without-timeout.md:11`
wants (the tests hand 124 in through a runner of their own), but "not visible" or "no
launcher"; `waydroid status`, `am start` and the input method commands run without a
timeout; provisioning goes on to enable and set after a failed install; "auto-selected
the only online target" keeps later notes from being given; a native launch with an
explicit component runs what the manifest names as the launcher; and an `am start` that
reports success counts as a launch of the component that was asked for, because it
prints the intent. In the Binder fixture a message longer than the room in the socket
hangs the process, though up to 1 MiB is accepted. Its files are emptied when they are
opened and their writing is not checked (`binder_service_manager.cpp:45`-`51`): a run
killed in between leaves an empty registry or log beside the ready metadata of an
earlier one, and a full disk leaves short files beside its own. `launch-apk` reads
"local_foundation_ready" from the mere existence of `binder/service-manager.json`
(`apk_native_launch.cpp:799`), which the fixture also writes for an incomplete spec.

## 5. Proofs

`NativeRunnerProofs` proves for any directory of libraries, any exports and any number of
callbacks that satisfy `LibraryAssumption` and `RunnerAssumption`:

- `RunnerTypeOK`: the type invariant.
- `OneLibraryIsUsed`: `PrimaryIsLastLoaded`.
- `TrapsAreReset`: `NoStaleTrap`.
- `ReportsPassTheGate`: `ReportPassedGate`.
- `ReportsNameWhatRan`: `ReportNamesWhatRan`.
- `RunnerImplementsContract`: the runner implements `RunnerContract`.

`LoadInv` adds to `PrimaryIsLastLoaded` that the candidates are distinct and that what is
loaded stands before `nextCandidate`: the loop stops at the first library that exports
what the runner looks for, so an exporter is always the last one loaded, which is what the two selections
need (`CandidatesAreDistinct`, `EntrypointIsLast`, `JniIsLast`).  `RunInv` adds what the
report may say at each place of the main thread and which library backs it (`Claims`), that
a claim of a called activity has the completed call and a finished watchdog thread behind
it (`Gate`), and what the report file holds (`Published`).

`NativeSessionProofs` proves for any set of launches and of reports that satisfies
`SessionAssumption` (reports have the three fields the parent reads, none looks
like a missing or empty file):

- `SessionTypeOK`: the type invariant.
- `TerminalSessionsAreReaped`: `TerminalMeansReaped`.
- `SuccessIsBackedByAReport`: `SuccessHasAReport`.
- `FreshSessionsAreTruthful`: `FreshSessionIsTruthful`.

The argument: `IInv` adds to the type what a parent's place says of its runner (no
runner before the fork, a wait status is the runner's end), what the disk holds
(the last writer's file) and that a finished result with exit code 0 names a
published report.  It is needed because none of the three properties is inductive:
each speaks of finished launches only.  `AloneInv` adds what being alone means
while a launch is under way: every file of the session was written by its runner.
Each action has one step in each proof, each conjunct it can disturb one leaf.

`RuntimeDiagnosticsProofs` proves for any commands, packages, hosts and script outcomes
that satisfy `DiagnosticsAssumption`:

- `DiagnosticsTypeOK`: the type invariant.
- `EncodingsAlwaysAgree`: `EncodingsAgree`, from what each ladder's last branch means.
- `LaterStepsNeedEarlier`: `LaterStepNeedsEarlier`.
- `FreshExecutionsAreTruthful`: `FreshExecutionIsTruthful`.

Here `IInv` adds to the type how far a command has come (`Places`), that only a started
runner makes a report that claims success (`Executions`) and that a file nobody wrote
says nothing.  `FreshInv` adds that a command that began alone stays alone while it is
active (`AloneIsAlone`), so that others keep out of its files (`OthersKeepOut`), and
what state file and logs hold at each place of the script (`FilesAreItsOwn`); the
report is then right by `ReportIsRight`, a fact about `ExecutionReport` alone.

- `BundlesTellTheirRun`: `BundleTellsItsRun`.
- `HealthReplaysTellTheirRun`: `HealthReplayTellsItsRun`.

A replay folds copies that were read one at a time, so the invariant (`ReplayInv`) is about
authors: a trace holds the events of the run that wrote it last, but for the one trace a
run has open or had open when it died (`TracesTell`), and what a command that nobody
disturbs has read will not be written again (`BundlesTell`).

`SelfHealingProofs` proves for any plans (`SelfHealingAssumption`: requests are sets of
proofs, the three budgets are numbers), so for any number of launches, crashes, damages and
faults that meet:

- `SelfHealingTypesOK`: `TypeOK`.
- `VerdictsAreHonest`: `VerdictIsHonest`.
- `HealableSessionsAreHealed`: `HealableIsHealed`.
- `FilesAlwaysTellTheReport`: `FilesTellTheReport`.
- `HealingIsNeverSilent`: `NoSilentHealing`.

The properties speak of launches that are over; a launch is some forty steps.  The
invariant (`IInv`) follows one: which bridges of the run that decides have written what they
answer (`FilesTellSoFar`), which answers would be the same if the proof were run again, in
the report and in the watchdog's working copy (`ReadyLasts`; after the refresh begins what
the verdict vouches for, `VouchedLasts`), that every proof passed so far where a promise is
to be kept (`ReadySoFar`), and that a damaged contract is still awaited by a repair step or
already in the journal (`DamageIsTraced`).

`DeviceBridgeProofs` proves for any scripts, devices, compat roots and number of changes
that satisfy `DeviceAssumption` (requests and devices are of their kind; a device that a
command names and nobody has is in the world as an absent one; `inspect-package` is not put
to Waydroid, which the code refuses before it asks anything):

- `ReportsAreRight`: the invariant `DeviceInv`.
- `ReadyMeansUsable`: `ReadyWasUsable`.
- `TheBarIsHonest`: `FullBarMeansReady`.
- `TheNoteIsHonest`: `NotesTellTheVerdict`.
- `LaunchesAreForetold`: `PreflightForetellsLaunch`.
- `QuestionsAreAddressed`: `DeviceTypeOK`.

The first three properties speak of finished reports only.  `DeviceInv` adds `SoFar`, what the
running command has gathered at each of its steps: nothing that is claimed ahead of its
question, no fact `default` before the last question, no note that a later verdict would
contradict.  Each action either goes on to a step with its `SoFar` or ends with a report
that is `Right` (`MovesOn`); changes of the world touch neither.  The loading bar is full
exactly if nothing is missing by arithmetic over nine or ten claims (`ProgressMeaning`);
note and verdict of the compat root agree because a runtime that resolves classes was
detected, and not for detection only (`DiagnosticsAgree`).

For the last one `ForetoldInv` says what each command under way knows of the world
(`Told`), that a preflight foretells every launch that would work now for as long as
nothing changes (`Foretells`), and that a launch that worked is one that works
(`LaunchShows`).  Looking for this proof showed an earlier form of the property to be
false beyond the checked scripts: provisioning an input method installs the package it
belongs to, and `override_allowed` differs between requests.  Both are now in the property
(`NoneSetUp`, `SameTarget`).

The types need more than `DeviceInv`: `CommandPlaced` keeps, beside the step, which questions
were asked so far and that the step asks a device that is there.  A device is chosen by its
serial, and plugging in or out changes the device but not the serials (`DevicesStay`).

`InputSessionProofs` proves for any screens and events (`InputAssumption`) and any number of
calls in any order:

- `NumbersAreUnique`: `NumbersDiffer`.
- `ProofsReplayTheQueue`: `LaterProofsReplay`.
- `ReadinessIsHonest`: `ReadyTellsTheSession`.
- `QueuesAreClean`: `InputTypeOK`.

Each proof takes a block of numbers for its states and numbered events lie outside all
blocks (`StatesNumbered`, `InputsNumbered`); nothing leaves the queue (`QueueKeeps`); and the
count of refusals is zero exactly while nothing was refused, the first proof's fallback
included (`Counted`).

`DexProbeProofs` proves for any APKs that satisfy `DexAssumption` (files are of their kind
and define methods the APK has, a method's state is one of four, its code is made of
instructions whose literals fit into an int), any word width of two bits or more, any number
of registers and depth of calls, and for field names that differ from the keys under
which the stubs remember a collection (`ListKeysAssumption`; in the code those keys hold a
dot, `apk_dex_bridge.cpp:1424`, which no name in a DEX file may):

- `ResultsAreTheLatest`: `PendingIsLatest`.
- `AnswersTellTheirFiles`: `ProofTellsItsFiles`.
- `LeavesWriteOverNothing`: the action property `LeavesNeverAlias`.
- `DexTypes`: `DexTypeOK`.
- `CollectionsHold`: `CollectionsHoldTheirOwn`, as long as `CopiesStayInside`.
- `LongsAreRight`: the action property `LongsAgree`.

One fact about states, `Sound`, is shown to be kept by each of the helpers opcodes are made
of, then by every opcode and every stub (`StepSound`, `StubSound`): the pending result is
that of the last call, ids in use are finitely many, none of the blockers is
`class_missing`, and a method that owns its ids (the next one is above all in use) keeps owning
them and writes over nothing.  `System.arraycopy` loops, so its soundness is an induction over the
elements (`CopyingSound`, from `OneByOne`, which rests on the well-ordering of the naturals).
`FramesHold` lifts this to the stack.  `IdsHold` is what `LeavesNeverAlias` needs beyond it:
every frame but the last waits for a call its method has made, so that a return goes to a
method that has called, and a method that has not owns its ids since it was entered above
the highest one (`FirstIdFree`).  `FilesKept` says which file has answered so far.

The types are proved the same way.  `Fit` (a state whose registers, statics, fields and
elements hold ints of the width and references to objects there are, and whose program
counter lies in the code) is kept by each helper, then by every opcode and stub
(`StepFits`, `StubFits`), with a second half for collections (`HeapHolds`): an object's
elements lie within its known length, and an iterator's index within the size of what it
runs over.  That half is claimed while `lost` is empty, since a reference to an object that
was replaced says nothing about the one in its place, and only under `own`, so that the
types need nothing of it.  Two facts make it work: the size a stub infers for a collection is
its known length, as an object nobody sized has no elements and no singleton
(`InferredIsSize`), and no write makes a known length smaller (`ElementChanges`,
`LengthChanges`), so that an iterator never finds itself past the end.
`TypesKept` lifts this to the stack of frames.

`CollectionsHold` has a hypothesis about the program: no `System.arraycopy` computes an index
beyond the ints (`CopiesStayInside`).  The additions at `apk_dex_bridge.cpp:2301`-`2303` are not
defined in C++ where they overflow, so what the elements and lengths are then is
whatever the build does.  On the instance of `commands` the hypothesis holds in every
state, with copies that are made.

`LongsAreRight` relates words, as the opcodes handle them, to numbers.  The provers know
nothing of powers or of division by an unknown, so the proof brings its own: powers of two
double (`PowersDouble`, by counting subsets with the library's `FS_SUBSET`) and multiply; a
number has a quotient and a rest (`Divided`, by induction); wrapping around keeps the rest
(`Residues`).  On these rest the facts about representation: two registers read as a signed
long are that long (`PairsAre`), the two halves stored make up its rest (`HalvesAre`), the word
read from a set of bits has just these (`WordIsRead`), and the bits of a long are those of its
words (`LongHasBits`).  Then one lemma per opcode says what is in the registers after it if it has
not stopped, also where the result overlaps an operand unless `Apart`; `StepComputes` collects them for
both interpreters, and `InterpretComputes` adds that calls and returns compute no longs.  The
inductive invariant is that of the types: registers hold ints of the width.

`CommandsProofs` begins with the Binder fixture, for any specs, sockets, envelope and number
of runs that satisfy `BinderAssumption` (lengths are numbers, there is a socket):

- `MetadataIsLast`: `ReadyMetadataHasItsFiles`.
- `NoByteIsLost`: `BinderTypeOK`.

`ReadyMetadataHasItsFiles` is not inductive: it says nothing of a run under way.  `BinderInv`
adds what a run has behind it at each place of its plan (which files are of this run and
closed, how many messages are logged), that no file is newer than the run, and that an
incomplete run takes the ready metadata away before it touches anything else.  `BytesKept` adds that the
bytes in the socket and those still to write make up the message at hand.

Then it composes the four components, under the assumptions of all of them:

- `CommandsTypes`: `CommandsTypeOK`.
- `CommandsKeepTheirPromises`: the invariants the run `commands` checks, all but
  `CollectionsHoldTheirOwn`.
- `CommandsWriteOverNothing`: `LeavesNeverAlias`.
- `CommandsComputeLongs`: `LongsAgree`.
- `CommandsKeepCollections`: `CollectionsHoldTheirOwn`, as long as `CopiesStayInside`.

`CommandsInv` says of each component either what was proved of it by itself, if the errand is
its own, or that it stands idle.  A step is one of the errand's component and leaves the
others alone (`OneComponentSteps`), and what stands idle keeps every promise there is.

Only model-checked: all liveness (`ForwardProofsEnd`, `QuestionsEnd`,
`FittingFixturesEnd`, the ends of runner and launches): the proof system treats neither
fairness nor ENABLED. The library's induction theorems cannot be used with the installed
provers; where a proof needs induction it is over a set of numbers (`OneByOne`, from the
well-ordering of the naturals), as for the elements of a copy and the bits of a word
(`BitsRead`, `WordIsRead`). No module proved about declares a RECURSIVE operator.

## 6. Not modelled

Rendering, logging and paths; the ELF version rewriting; the stub JNI function
table; staging of the archive; the first-app-start summary (a pure function of the
report); fatal requests (the process prints an error and leaves before it changes
anything); `safe_mode_launch`, which needs an empty journal and a launch that is
not ready, and no such launch exists; `reset_input_queue`, which only follows a
lifecycle fixture that cannot fail.  Of the DEX bridge the rendering of the report and the
plan of the ART bootstrap (`apk_dex_bridge.cpp:7971`-`8176`, `8355`-`8383`); of the
device bridge the properties of a target and the text of the reports.  The loader and the graphics
fixtures are data- or host-bound; `PROJECT.json` gives the reason for each.

## 7. Plan

1. Runner, contract, session, proofs about the session. *(done)*
2. Persisted contracts and self-healing. *(done)*
3. Runtime diagnostics: bundles written file by file and replayed, with proofs. *(done)*
4. DEX probe: both interpreters, the stubs, the search for the entry point. *(done)*
5. Device bridge, Binder fixture with a proof, input session. *(done)*
6. Native window callbacks; permission grants, intent resolution and path containment
   as operator modules.
7. Proofs: the runner with its refinement, the device bridge's reports and its foretelling,
   the watchdog's verdict and repairs, the replays, the input session, the DEX probe's
   results, ids, answers, types, collections and longs, the Binder fixture, and the composition of
   the commands. *(done)*
