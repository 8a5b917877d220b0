---------------------------- MODULE CommandsProofs ----------------------------
(* What compatctl promises of every command (Commands).  The Binder fixture comes     *)
(* first: what service-manager.json promises, for fixtures of any size on sockets of  *)
(* any size, however often they are run and wherever a run ends (BinderTransport).    *)
(* Then what was proved of each of the four components by itself is shown to hold     *)
(* of the program, whose other components stand idle.                              *)
EXTENDS Commands, DexProbeProofs, DeviceBridgeProofs, InputSessionProofs, TLAPS

FileStates == [run : Nat, described : BOOLEAN, holds : {"nothing", "torn", "short", "all"}]
Filled(f) ==
  disk[f].described /\ disk[f].run = fixtureRun /\ disk[f].holds \in {"all", "short"}

DiskTypes ==
  /\ spec \in Specs
  /\ fixtureRun \in Nat /\ logged \in Nat /\ at \in Nat
  /\ disk \in [Files -> FileStates]
  /\ \A f \in Files : disk[f].run <= fixtureRun

(* What a run for a complete spec has behind it when it comes to `at`.              *)
CompleteSoFar ==
  /\ at <= 20
  /\ at > 1 => Filled("registry")
  /\ at > 2 => Filled("lookup_summary")
  /\ at > 3 => Filled("lookup_log")
  /\ at > 4 => Filled("transaction_log")
  /\ at <= 5 => logged = 0
  /\ at > 4 /\ at <= 19 => logged = at - 5
  /\ at > 19 => Filled("transport") /\ logged = 2 * RoundTrips
  /\ at < 20 => disk["metadata"].run < fixtureRun
IncompleteSoFar == at <= 6 /\ (at > 1 => ~MetadataReady)

BinderInv ==
  /\ DiskTypes
  /\ FixtureRunning /\ Complete(spec) => CompleteSoFar
  /\ FixtureRunning /\ ~Complete(spec) => IncompleteSoFar
  /\ FixtureRunning => verdict = "running"
  /\ ReadyMetadataHasItsFiles

--------------------------------------------------------------------------------
(* The plan of a run.                                                           *)

LEMMA Conversation == RoundTrips = 7 /\ 2 * RoundTrips = 14
BY DEF RoundTrips, Lookups, Transactions

LEMMA PlanOfComplete ==
  ASSUME Complete(spec), at \in 1 .. 20
  PROVE  /\ PlanLength(spec) = 20
         /\ at = 1 => Task = "registry"
         /\ at = 2 => Task = "lookup_summary"
         /\ at = 3 => Task = "lookup_log"
         /\ at = 4 => Task = "transaction_log"
         /\ at > 4 /\ at < 19 => Task = "message"
         /\ at = 19 => Task = "transport"
         /\ at = 20 => Task = "metadata"
BY Conversation DEF PlanLength, FileCount, Task, CompletePlan, Described

LEMMA PlanOfIncomplete ==
  ASSUME ~Complete(spec), at \in 1 .. 6
  PROVE  /\ PlanLength(spec) = 6
         /\ at = 1 => Task = "metadata"
         /\ at > 1 => Task \in Files /\ Task # "metadata"
BY DEF PlanLength, FileCount, Task, IncompletePlan, Described, Files

LEMMA CompleteIsBoolean == ASSUME spec \in Specs PROVE Complete(spec) \in BOOLEAN
BY BinderAssumption DEF Complete

--------------------------------------------------------------------------------
(* The steps.                                                                    *)

LEMMA InitEstablishes == BinderInit => BinderInv
BY DEF BinderInit, BinderUntouched, BinderInv, DiskTypes, FileStates, FixtureRunning,
       ReadyMetadataHasItsFiles, MetadataReady, Unwritten, Files

LEMMA RunKeeps == BinderInv /\ RunFixture => BinderInv'
<1> SUFFICES ASSUME BinderInv, RunFixture PROVE BinderInv'
  OBVIOUS
<1>1. /\ spec' \in Specs /\ fixtureRun' = fixtureRun + 1 /\ at' = 1 /\ logged' = 0
      /\ verdict' = "running" /\ disk' = disk
  BY DEF RunFixture
<1>2. DiskTypes' /\ \A f \in Files : disk[f].run < fixtureRun'
  BY <1>1 DEF BinderInv, DiskTypes, FileStates
<1>3. CompleteSoFar' /\ IncompleteSoFar'
  BY <1>1, <1>2 DEF CompleteSoFar, IncompleteSoFar, Files
<1>4. ReadyMetadataHasItsFiles'
  BY <1>1 DEF BinderInv, ReadyMetadataHasItsFiles, MetadataReady, FilesSince
<1> QED
  BY <1>1, <1>2, <1>3, <1>4 DEF BinderInv

LEMMA FixtureEndKeeps == BinderInv /\ (Throws \/ FixtureStopped) => BinderInv'
<1> SUFFICES ASSUME BinderInv, Throws \/ FixtureStopped PROVE BinderInv'
  OBVIOUS
<1>1. /\ UNCHANGED <<spec, fixtureRun, logged, disk>>
      /\ at' = 0 /\ verdict' \in {"threw", "stopped"}
  BY DEF Throws, FixtureStopped, EndsWith
<1>2. DiskTypes'
  BY <1>1 DEF BinderInv, DiskTypes
<1>3. ReadyMetadataHasItsFiles'
  <2>1. MetadataReady' = MetadataReady /\ verdict' # "ready"
    BY <1>1 DEF MetadataReady
  <2>2. FilesSince(disk["metadata"].run)' = FilesSince(disk["metadata"].run)
    BY <1>1 DEF FilesSince
  <2> QED
    BY <2>1, <2>2 DEF BinderInv, ReadyMetadataHasItsFiles
<1> QED
  BY <1>1, <1>2, <1>3 DEF BinderInv, FixtureRunning

(* A step that leaves the disk and the place in the plan alone.                     *)
LEMMA StillKeeps ==
  BinderInv /\ UNCHANGED <<spec, fixtureRun, at, logged, disk, verdict>> => BinderInv'
BY DEF BinderInv, DiskTypes, FixtureRunning, ReadyMetadataHasItsFiles, MetadataReady, FilesSince,
       CompleteSoFar, IncompleteSoFar, Filled, Complete

LEMMA ReceiveKeeps == BinderInv /\ ReceiveMessage => BinderInv'
<1> SUFFICES ASSUME BinderInv, ReceiveMessage PROVE BinderInv'
  OBVIOUS
<1>1. at \in Nat /\ at # 0 /\ Task = "message"
  BY DEF ReceiveMessage, Written, InHand, FixtureRunning, BinderInv, DiskTypes
<1>2. CASE ~Complete(spec)
  <2>1. at \in 1 .. 6
    BY <1>1, <1>2 DEF BinderInv, IncompleteSoFar, FixtureRunning
  <2> QED
    BY <1>1, <1>2, <2>1, PlanOfIncomplete DEF Files
<1>3. CASE Complete(spec)
  <2>1. CompleteSoFar /\ at \in 1 .. 20
    BY <1>1, <1>3 DEF BinderInv, CompleteSoFar, FixtureRunning
  <2>2. at > 4 /\ at < 19 /\ PlanLength(spec) = 20
    BY <1>1, <1>3, <2>1, PlanOfComplete
  <2>3. /\ at' = at + 1 /\ logged' = logged + 1 /\ logged = at - 5
        /\ UNCHANGED <<spec, fixtureRun, disk, verdict>>
    BY <2>1, <2>2 DEF ReceiveMessage, OnToNext, AtEnd, Message, CompleteSoFar
  <2>4. CompleteSoFar'
    BY <2>1, <2>2, <2>3 DEF CompleteSoFar, Filled
  <2> QED
    BY <1>3, <2>1, <2>2, <2>3, <2>4
    DEF BinderInv, DiskTypes, FixtureRunning, ReadyMetadataHasItsFiles, MetadataReady, FilesSince,
        Complete
<1> QED
  BY <1>2, <1>3

(* Where in its plan a run is that has a file in hand.                              *)
LEMMA FileOfIncomplete ==
  ASSUME BinderInv, AtFile, ~Complete(spec)
  PROVE  /\ at \in 1 .. 6 /\ PlanLength(spec) = 6 /\ IncompleteSoFar /\ verdict = "running"
         /\ Task \in Files
         /\ at > 1 => Task # "metadata"
         /\ at = 1 => Task = "metadata"
<1>1. at \in Nat /\ at # 0 /\ IncompleteSoFar /\ verdict = "running"
  BY DEF AtFile, BinderInv, DiskTypes, FixtureRunning
<1>2. at \in 1 .. 6
  BY <1>1 DEF IncompleteSoFar
<1>3. QED
  BY <1>1, <1>2, PlanOfIncomplete DEF Files

LEMMA FileOfComplete ==
  ASSUME BinderInv, AtFile, Complete(spec)
  PROVE  /\ at \in 1 .. 20 /\ PlanLength(spec) = 20 /\ CompleteSoFar /\ verdict = "running"
         /\ Task \in Files
         /\ at <= 4 \/ at >= 19
         /\ at = 1 => Task = "registry"
         /\ at = 2 => Task = "lookup_summary"
         /\ at = 3 => Task = "lookup_log"
         /\ at = 4 => Task = "transaction_log"
         /\ at = 19 => Task = "transport"
         /\ at = 20 => Task = "metadata"
         /\ Task = "transport" => logged = 2 * RoundTrips
<1>1. at \in Nat /\ at # 0 /\ CompleteSoFar /\ verdict = "running" /\ Task # "message"
  BY DEF AtFile, BinderInv, DiskTypes, FixtureRunning
<1>2. at \in 1 .. 20
  BY <1>1 DEF CompleteSoFar
<1>3. /\ PlanLength(spec) = 20
      /\ at <= 4 \/ at >= 19
      /\ at = 1 => Task = "registry"
      /\ at = 2 => Task = "lookup_summary"
      /\ at = 3 => Task = "lookup_log"
      /\ at = 4 => Task = "transaction_log"
      /\ at = 19 => Task = "transport"
      /\ at = 20 => Task = "metadata"
  BY <1>1, <1>2, PlanOfComplete
<1>4. Task \in Files /\ (Task = "transport" => at = 19)
  BY <1>2, <1>3 DEF Files
<1>5. at = 19 => logged = 2 * RoundTrips
  BY <1>1, Conversation DEF CompleteSoFar
<1>6. QED
  BY <1>1, <1>2, <1>3, <1>4, <1>5

(* A file opened or written is the only one that changes.                           *)
LEMMA OneFileChanges ==
  ASSUME BinderInv, Task \in Files, fixtureRun' = fixtureRun,
         NEW what \in {"torn", "short", "all"}, FileGets(what)
  PROVE  /\ disk' \in [Files -> FileStates]
         /\ \A f \in Files : disk'[f].run <= fixtureRun'
         /\ \A f \in Files : f # Task => disk'[f] = disk[f]
         /\ disk'[Task].run = fixtureRun /\ disk'[Task].holds = what
         /\ disk'[Task].described = IF Task = "transport" THEN logged = 2 * RoundTrips
                                    ELSE Complete(spec)
<1> DEFINE about == IF Task = "transport" THEN logged = 2 * RoundTrips ELSE Complete(spec)
           entry == [run |-> fixtureRun, holds |-> what, described |-> about]
<1>1. about \in BOOLEAN
  BY CompleteIsBoolean DEF BinderInv, DiskTypes
<1>2. disk' = [disk EXCEPT ![Task] = entry]
  BY Zenon DEF FileGets
<1> HIDE DEF about
<1>3. /\ entry \in FileStates /\ entry.run = fixtureRun /\ entry.holds = what
      /\ entry.described = about
  BY <1>1 DEF FileStates, BinderInv, DiskTypes
<1> HIDE DEF entry
<1>4. /\ disk' \in [Files -> FileStates]
      /\ \A f \in Files : disk'[f] = IF f = Task THEN entry ELSE disk[f]
  BY <1>2, <1>3 DEF BinderInv, DiskTypes
<1>5. \A f \in Files : disk'[f].run <= fixtureRun'
  BY <1>3, <1>4 DEF BinderInv, DiskTypes, FileStates
<1>6. /\ \A f \in Files : f # Task => disk'[f] = disk[f]
      /\ disk'[Task] = entry
  BY <1>4
<1>7. QED
  BY <1>3, <1>4, <1>5, <1>6 DEF about

LEMMA OpenKeeps == BinderInv /\ OpenFile => BinderInv'
<1> SUFFICES ASSUME BinderInv, OpenFile PROVE BinderInv'
  OBVIOUS
<1>1. /\ AtFile /\ FileGets("torn")
      /\ UNCHANGED <<spec, fixtureRun, at, logged, verdict>>
  BY DEF OpenFile
<1>2. Task \in Files /\ verdict = "running"
  BY <1>1, FileOfIncomplete, FileOfComplete
<1>3. /\ disk' \in [Files -> FileStates]
      /\ \A f \in Files : disk'[f].run <= fixtureRun'
      /\ \A f \in Files : f # Task => disk'[f] = disk[f]
      /\ disk'[Task].run = fixtureRun /\ disk'[Task].holds = "torn"
      /\ disk'[Task].described = IF Task = "transport" THEN logged = 2 * RoundTrips
                                 ELSE Complete(spec)
  BY <1>1, <1>2, OneFileChanges
<1>4. DiskTypes'
  BY <1>1, <1>3 DEF BinderInv, DiskTypes
<1>5. Task = "metadata" => ~MetadataReady'
  BY <1>3 DEF MetadataReady
<1>6. Task # "metadata" => disk'["metadata"] = disk["metadata"] /\ MetadataReady' = MetadataReady
  BY <1>3 DEF MetadataReady, Files
<1>7. CASE ~Complete(spec)
  <2>1. IncompleteSoFar /\ at \in 1 .. 6 /\ (at = 1 => Task = "metadata")
    BY <1>1, <1>7, FileOfIncomplete
  <2>2. ~MetadataReady'
    BY <1>5, <1>6, <2>1 DEF IncompleteSoFar
  <2>3. IncompleteSoFar' /\ ~Complete(spec)'
    BY <1>1, <1>7, <2>1, <2>2 DEF IncompleteSoFar, Complete
  <2> QED
    BY <1>1, <1>2, <1>4, <2>2, <2>3 DEF BinderInv, ReadyMetadataHasItsFiles
<1>8. CASE Complete(spec)
  <2>1. /\ CompleteSoFar /\ at \in 1 .. 20
        /\ at <= 4 \/ at >= 19
        /\ at = 1 => Task = "registry"
        /\ at = 2 => Task = "lookup_summary"
        /\ at = 3 => Task = "lookup_log"
        /\ at = 4 => Task = "transaction_log"
        /\ at = 19 => Task = "transport"
        /\ at = 20 => Task = "metadata"
        /\ Task = "transport" => logged = 2 * RoundTrips
    BY <1>1, <1>8, FileOfComplete
  <2>2. \A f \in Files : f # Task /\ Filled(f) => Filled(f)'
    BY <1>1, <1>3 DEF Filled
  <2>3. CompleteSoFar' /\ Complete(spec)'
    BY <1>1, <1>6, <1>8, <2>1, <2>2 DEF CompleteSoFar, Complete, Files
  <2>4. ASSUME MetadataReady' PROVE FilesSince(disk["metadata"].run)'
    <3>1. Task # "metadata" /\ MetadataReady /\ disk'["metadata"] = disk["metadata"]
      BY <1>5, <1>6, <2>4
    <3>2. disk["metadata"].run \in Nat /\ disk["metadata"].run < fixtureRun
      BY <2>1, <3>1 DEF CompleteSoFar, BinderInv, DiskTypes, FileStates, Files
    <3>3. disk'[Task].described
      BY <1>3, <1>8, <2>1
    <3>4. disk'[Task].run >= disk["metadata"].run /\ disk'[Task].run # disk["metadata"].run
      BY <1>3, <3>2 DEF BinderInv, DiskTypes
    <3>5. FilesSince(disk["metadata"].run)
      BY <3>1 DEF BinderInv, ReadyMetadataHasItsFiles
    <3> QED
      BY <1>3, <3>1, <3>3, <3>4, <3>5 DEF FilesSince
  <2> QED
    BY <1>1, <1>2, <1>4, <2>3, <2>4 DEF BinderInv, ReadyMetadataHasItsFiles
<1> QED
  BY <1>7, <1>8

LEMMA CloseKeepsIncomplete ==
  ASSUME BinderInv, ~Complete(spec), NEW what \in {"short", "all"}, CloseFile(what)
  PROVE  BinderInv'
<1>1. /\ AtFile /\ FileGets(what) /\ OnToNext
      /\ UNCHANGED <<spec, fixtureRun, logged>>
  BY DEF CloseFile
<1>2. /\ at \in 1 .. 6 /\ PlanLength(spec) = 6 /\ IncompleteSoFar /\ verdict = "running"
      /\ Task \in Files
      /\ at > 1 => Task # "metadata"
      /\ at = 1 => Task = "metadata"
  BY <1>1, FileOfIncomplete
<1>3. /\ disk' \in [Files -> FileStates]
      /\ \A f \in Files : disk'[f].run <= fixtureRun'
      /\ \A f \in Files : f # Task => disk'[f] = disk[f]
      /\ disk'[Task].described = IF Task = "transport" THEN logged = 2 * RoundTrips
                                 ELSE Complete(spec)
  BY <1>1, <1>2, OneFileChanges
<1>4. /\ at' \in Nat /\ (at' = 0 \/ (at' = at + 1 /\ at < 6))
      /\ verdict' = IF at' = 0 THEN "invalid" ELSE "running"
  BY <1>1, <1>2 DEF CloseFile, OnToNext, AtEnd
<1>5. ~MetadataReady'
  <2>1. CASE at = 1
    BY <1>2, <1>3, <2>1 DEF MetadataReady
  <2>2. CASE at # 1
    BY <1>2, <1>3, <2>2 DEF MetadataReady, IncompleteSoFar, Files
  <2> QED
    BY <2>1, <2>2
<1>6. DiskTypes'
  BY <1>1, <1>3, <1>4 DEF BinderInv, DiskTypes
<1>7. ~Complete(spec)' /\ (at' # 0 => IncompleteSoFar')
  BY <1>1, <1>2, <1>4, <1>5 DEF IncompleteSoFar, Complete
<1> QED
  BY <1>4, <1>5, <1>6, <1>7 DEF BinderInv, ReadyMetadataHasItsFiles, FixtureRunning

LEMMA CloseKeepsComplete ==
  ASSUME BinderInv, Complete(spec), NEW what \in {"short", "all"}, CloseFile(what)
  PROVE  BinderInv'
<1>1. /\ AtFile /\ FileGets(what) /\ OnToNext
      /\ UNCHANGED <<spec, fixtureRun, logged>>
  BY DEF CloseFile
<1>2. /\ at \in 1 .. 20 /\ PlanLength(spec) = 20 /\ CompleteSoFar /\ verdict = "running"
      /\ Task \in Files
      /\ at <= 4 \/ at >= 19
      /\ at = 1 => Task = "registry"
      /\ at = 2 => Task = "lookup_summary"
      /\ at = 3 => Task = "lookup_log"
      /\ at = 4 => Task = "transaction_log"
      /\ at = 19 => Task = "transport"
      /\ at = 20 => Task = "metadata"
      /\ Task = "transport" => logged = 2 * RoundTrips
  BY <1>1, FileOfComplete
<1>3. /\ disk' \in [Files -> FileStates]
      /\ \A f \in Files : disk'[f].run <= fixtureRun'
      /\ \A f \in Files : f # Task => disk'[f] = disk[f]
      /\ disk'[Task].run = fixtureRun /\ disk'[Task].holds = what /\ disk'[Task].described
  BY <1>1, <1>2, OneFileChanges
<1>4. /\ at' \in Nat /\ ((at' = 0 /\ at = 20) \/ (at' = at + 1 /\ at < 20))
      /\ verdict' = IF at' = 0 THEN "ready" ELSE "running"
  BY <1>1, <1>2 DEF CloseFile, OnToNext, AtEnd
<1>5. DiskTypes'
  BY <1>1, <1>3, <1>4 DEF BinderInv, DiskTypes
<1>6. \A f \in Files : (f = Task \/ Filled(f)) => Filled(f)'
  BY <1>1, <1>3 DEF Filled
<1>7. Complete(spec)' /\ (at' # 0 => CompleteSoFar')
  <2>1. at = 19 => logged' = 2 * RoundTrips
    BY <1>1, <1>2, Conversation DEF CompleteSoFar
  <2>2. at' > 19 => at = 19
    BY <1>2, <1>4
  <2>3. at' > 19 => logged' = 2 * RoundTrips
    BY <2>1, <2>2
  <2>4. at' # 0 => at < 20 /\ Task # "metadata" /\ disk'["metadata"] = disk["metadata"]
    BY <1>2, <1>3, <1>4 DEF Files
  <2>5. at' # 0 => disk'["metadata"].run < fixtureRun'
    BY <1>1, <1>2, <2>4 DEF CompleteSoFar
  <2> QED
    BY <1>1, <1>2, <1>4, <1>6, <2>3, <2>5 DEF CompleteSoFar, Complete, Files
<1>8. ReadyMetadataHasItsFiles'
  <2>1. CASE at = 20
    <3>1. \A f \in Files : f = "metadata" \/ Filled(f)
      BY <1>2, <2>1 DEF CompleteSoFar, Files
    <3>2. \A f \in Files : Filled(f)'
      BY <1>2, <1>6, <2>1, <3>1
    <3>3. fixtureRun' \in Nat /\ "metadata" \in Files
      BY <1>5 DEF DiskTypes, Files
    <3>4. FilesSince(fixtureRun)' /\ disk'["metadata"].run = fixtureRun'
      BY <3>2, <3>3 DEF FilesSince, Filled
    <3> QED
      BY <3>4 DEF ReadyMetadataHasItsFiles, FilesSince
  <2>2. CASE at # 20
    <3>1. Task # "metadata" /\ disk'["metadata"] = disk["metadata"] /\ MetadataReady' = MetadataReady
      BY <1>2, <1>3, <2>2 DEF MetadataReady, Files
    <3>2. disk["metadata"].run <= fixtureRun /\ disk["metadata"].run \in Nat /\ fixtureRun \in Nat
      BY DEF BinderInv, DiskTypes, FileStates, Files
    <3>3. MetadataReady => FilesSince(disk["metadata"].run)
      BY DEF BinderInv, ReadyMetadataHasItsFiles
    <3>4. MetadataReady' => FilesSince(disk["metadata"].run)'
      BY <1>3, <3>1, <3>2, <3>3 DEF FilesSince
    <3>5. verdict' # "ready"
      BY <1>2, <1>4, <2>2
    <3> QED
      BY <3>4, <3>5 DEF ReadyMetadataHasItsFiles
  <2> QED
    BY <2>1, <2>2
<1> QED
  BY <1>4, <1>5, <1>7, <1>8 DEF BinderInv, FixtureRunning

LEMMA CloseKeeps ==
  ASSUME BinderInv, NEW what \in {"short", "all"}, CloseFile(what) PROVE BinderInv'
BY CloseKeepsIncomplete, CloseKeepsComplete

LEMMA BinderInvKept ==
  BinderInv /\ [BinderNext]_binderVars => BinderInv'
<1> SUFFICES ASSUME BinderInv, [BinderNext]_binderVars PROVE BinderInv'
  OBVIOUS
<1>1. CASE RunFixture
  BY <1>1, RunKeeps
<1>2. CASE Throws \/ FixtureStopped
  BY <1>2, FixtureEndKeeps
<1>3. CASE OpenFile
  BY <1>3, OpenKeeps
<1>4. CASE WriteFile \/ DiskFull
  BY <1>4, CloseKeeps DEF WriteFile, DiskFull
<1>5. CASE BeginMessage \/ WriteTransportBytes
  BY <1>5, StillKeeps DEF BeginMessage, WriteTransportBytes
<1>6. CASE ReceiveMessage
  BY <1>6, ReceiveKeeps
<1>7. CASE UNCHANGED binderVars
  BY <1>7, StillKeeps DEF binderVars
<1> QED
  BY <1>1, <1>2, <1>3, <1>4, <1>5, <1>6, <1>7
  DEF BinderNext, FixtureStep, FileUnwritable, NoSockets, RefuseMessage, FixturesOver

--------------------------------------------------------------------------------
(* The bytes on their way.                                                        *)

(* What is written and not yet read is in the socket, and together with what is yet   *)
(* to be written it is one message.                                                *)
BytesKept ==
  /\ room \in Rooms /\ held \in 0 .. room /\ unsent \in Nat
  /\ ~NothingSent => InHand /\ unsent + held = Header + Size(spec, Message)

LEMMA SizeIsNumber == ASSUME NEW s \in Specs, NEW n PROVE Size(s, n) \in Nat
<1>1. /\ s.package \in Nat /\ s.launcher \in Nat /\ s.apk \in Nat /\ s.session \in Nat
      /\ s.owner \in Nat /\ Envelope \in Nat
  BY BinderAssumption
<1>2. Session(s) \in Nat
  BY <1>1 DEF Session
<1>3. Owner(s) \in Nat
  BY <1>1, <1>2 DEF Owner
<1>4. Identity(s, n) \in Nat
  BY <1>2, <1>3 DEF Identity
<1>5. Payload(s, n) \in Nat
  BY <1>1, <1>2, <1>3 DEF Payload
<1>6. Interface(s, n) \in Nat
  BY <1>1 DEF Interface
<1>7. QED
  BY <1>1, <1>4, <1>5, <1>6 DEF Size

LEMMA BytesAreKept ==
  ASSUME BinderInv, BytesKept, [BinderNext]_binderVars PROVE BytesKept'
<1>1. /\ room \in Nat /\ held \in Nat /\ held <= room /\ unsent \in Nat
      /\ ~NothingSent => InHand /\ unsent + held = Header + Size(spec, Message)
  BY BinderAssumption DEF BytesKept
<1>2. room \in Rooms
  BY DEF BytesKept
<1>3. CASE RunFixture \/ Throws \/ FixtureStopped
  <2>1. room' = room /\ held' = 0 /\ unsent' = 0
    BY <1>3 DEF RunFixture, Throws, FixtureStopped, EndsWith
  <2>2. QED
    BY <1>1, <1>2, <2>1 DEF BytesKept, NothingSent
<1>4. CASE OpenFile \/ WriteFile \/ DiskFull
  <2>1. room' = room /\ held' = held /\ unsent' = unsent /\ ~InHand
    BY <1>4 DEF OpenFile, WriteFile, DiskFull, CloseFile, AtFile, InHand
  <2>2. NothingSent
    BY <1>1, <2>1
  <2>3. QED
    BY <1>1, <1>2, <2>1, <2>2 DEF BytesKept, NothingSent
<1>5. CASE BeginMessage
  <2>1. /\ UNCHANGED <<spec, room, at, held, logged>> /\ InHand /\ held = 0
        /\ unsent' = Header + Size(spec, Message)
    BY <1>5 DEF BeginMessage, NothingSent
  <2>2. Size(spec, Message) \in Nat
    BY SizeIsNumber DEF BinderInv, DiskTypes
  <2>3. unsent' \in Nat /\ unsent' + held' = Header + Size(spec, Message)
    BY <2>1, <2>2 DEF Header
  <2>4. /\ (InHand)' /\ Message' = Message /\ Size(spec, Message)' = Size(spec, Message)
    BY <2>1 DEF InHand, FixtureRunning, Task, Message, Complete, Size, Interface, Identity,
       Payload
  <2>5. QED
    BY <1>1, <1>2, <2>1, <2>3, <2>4 DEF BytesKept, Header
<1>6. CASE WriteTransportBytes
  <2>1. /\ UNCHANGED <<spec, room, at, logged>> /\ InHand
        /\ unsent' = unsent - Space /\ held' = held + Space /\ Space > 0
    BY <1>6 DEF WriteTransportBytes
  <2>2. Space \in Nat /\ Space <= unsent /\ Space <= room - held
    BY <1>1, <2>1 DEF Space
  <2>3. /\ unsent' \in Nat /\ held' \in Nat /\ held' <= room /\ unsent # 0
        /\ unsent' + held' = unsent + held
    BY <1>1, <2>1, <2>2
  <2>4. InHand /\ unsent + held = Header + Size(spec, Message)
    BY <1>1, <2>3 DEF NothingSent
  <2>5. /\ (InHand)' /\ Message' = Message /\ Size(spec, Message)' = Size(spec, Message)
    BY <2>1 DEF InHand, FixtureRunning, Task, Message, Complete, Size, Interface, Identity,
       Payload
  <2>6. QED
    BY <1>1, <1>2, <2>1, <2>3, <2>4, <2>5 DEF BytesKept, Header
<1>7. CASE ReceiveMessage
  <2>1. room' = room /\ held' = 0 /\ unsent' = 0
    BY <1>7 DEF ReceiveMessage, Written
  <2>2. QED
    BY <1>1, <1>2, <2>1 DEF BytesKept, NothingSent
<1>8. CASE UNCHANGED binderVars
  <2>1. UNCHANGED <<spec, room, at, logged, held, unsent>>
    BY <1>8 DEF binderVars
  <2>2. QED
    BY <2>1 DEF BytesKept, NothingSent, InHand, FixtureRunning, Task, Message, Complete, Size,
       Interface, Identity, Payload, Header
<1>9. QED
  BY <1>3, <1>4, <1>5, <1>6, <1>7, <1>8
  DEF BinderNext, FixtureStep, FileUnwritable, NoSockets, RefuseMessage, FixturesOver

LEMMA BytesBegin == ASSUME BinderInit PROVE BytesKept
BY BinderAssumption DEF BinderInit, BinderUntouched, BytesKept, NothingSent

LEMMA BinderTyped == ASSUME BinderInv, BytesKept PROVE BinderTypeOK
<1>1. room \in Nat /\ held \in 0 .. room /\ unsent \in Nat
  BY BinderAssumption DEF BytesKept
<1>2. ~NothingSent => InHand /\ unsent + held = Header + Size(spec, Message)
  BY DEF BytesKept
<1>3. ASSUME FixtureRunning, Complete(spec)
      PROVE  logged = IF at <= 4 THEN 0 ELSE IF InHand THEN at - 5 ELSE 2 * RoundTrips
  <2>1. CompleteSoFar /\ at \in Nat /\ at # 0
    BY <1>3 DEF BinderInv, DiskTypes, FixtureRunning
  <2>2. at \in 1 .. 20
    BY <2>1 DEF CompleteSoFar
  <2>3. /\ at > 4 /\ at < 19 => InHand
        /\ at >= 19 => ~InHand
    BY <1>3, <2>2, PlanOfComplete DEF InHand
  <2>4. 2 * RoundTrips = 14
    BY Conversation
  <2>5. /\ at <= 5 => logged = 0
        /\ at > 4 /\ at <= 19 => logged = at - 5
        /\ at > 19 => logged = 14
    BY <2>1, <2>4 DEF CompleteSoFar
  <2>6. QED
    BY <2>2, <2>3, <2>4, <2>5
<1>4. ASSUME NEW f \in Files PROVE disk[f].run \in 0 .. fixtureRun
  <2>1. disk[f] \in FileStates /\ disk[f].run <= fixtureRun /\ fixtureRun \in Nat
    BY DEF BinderInv, DiskTypes
  <2>2. QED
    BY <2>1 DEF FileStates
<1>5. QED
  BY <1>1, <1>2, <1>3, <1>4 DEF BinderTypeOK

--------------------------------------------------------------------------------
(* What the files of the fixture and its messages promise.                              *)

(* Whatever specs the fixture is run for, on whatever socket, and wherever its runs    *)
(* fail or are stopped, a file half written included, or the disk is full: beside      *)
(* metadata that says ready there is no file that its run did not write, or a later    *)
(* run for a complete spec at least open (RunBinderServiceManagerFixture,            *)
(* WriteTextFile).                                                               *)
THEOREM MetadataIsLast == BinderSpec => []ReadyMetadataHasItsFiles
<1>1. BinderInit => BinderInv
  BY InitEstablishes
<1>2. BinderInv /\ [BinderNext]_binderVars => BinderInv'
  BY BinderInvKept
<1>3. BinderInv => ReadyMetadataHasItsFiles
  BY DEF BinderInv
<1> QED
  BY <1>1, <1>2, <1>3, PTL DEF BinderSpec

(* Whatever the strings of a spec and the room in a socket, no byte is lost between   *)
(* the two ends, and a run has delivered as many messages as its plan says            *)
(* (SendBinderTransportPayload, ReceiveBinderTransportPayload).                     *)
THEOREM NoByteIsLost == BinderSpec => []BinderTypeOK
<1>1. BinderInit => BinderInv /\ BytesKept
  BY InitEstablishes, BytesBegin
<1>2. BinderInv /\ BytesKept /\ [BinderNext]_binderVars => BinderInv' /\ BytesKept'
  BY BinderInvKept, BytesAreKept
<1>3. BinderInv /\ BytesKept => BinderTypeOK
  BY BinderTyped
<1> QED
  BY <1>1, <1>2, <1>3, PTL DEF BinderSpec

--------------------------------------------------------------------------------
(* The program: the component a command is for, and the three others.                *)

(* Whether the errand is the component's, and what is known of it then.             *)
Dex    == errand = "dex_proof"
Device == errand = "device"
Binder == errand = "binder"
Input  == errand = "input"

DexKept    == DexIInv /\ TypesKept
DeviceKept == DeviceInv /\ CommandPlaced /\ ForetoldInv
BinderKept == BinderInv /\ BytesKept
InputKept  == InputIInv /\ InputTypeOK

CommandsInv ==
  /\ IF Dex THEN DexKept ELSE DexIdle
  /\ IF Device THEN DeviceKept ELSE DeviceIdle
  /\ IF Binder THEN BinderKept ELSE BinderIdle
  /\ IF Input THEN InputKept ELSE InputIdle

--------------------------------------------------------------------------------
(* A command begins, and each step of it is one of its component.                   *)

LEMMA CommandsBegin == ASSUME CommandsInit PROVE CommandsInv
<1>1. DexInit => DexKept
  BY InitDexIInv, InitTypesKept DEF DexKept
<1>2. DeviceInit => DeviceKept
  BY InitDeviceInv, InitPlaces, InitForetoldInv DEF DeviceKept
<1>3. BinderInit => BinderKept
  BY InitEstablishes, BytesBegin DEF BinderKept
<1>4. InputInit => InputKept
  BY InputInitKeeps, SessionNewTypes DEF InputKept, InputInit
<1>5. QED
  BY <1>1, <1>2, <1>3, <1>4 DEF CommandsInit, CommandsInv, Dex, Device, Binder, Input

LEMMA OneComponentSteps ==
  ASSUME [CommandsNext]_commandVars
  PROVE  /\ errand' = errand
         /\ [DexNext]_dexVars /\ [DeviceNext]_deviceVars
         /\ [BinderNext]_binderVars /\ [InputNext]_inputVars
         /\ ~Dex => UNCHANGED dexVars
         /\ ~Device => UNCHANGED deviceVars
         /\ ~Binder => UNCHANGED binderVars
         /\ ~Input => UNCHANGED inputVars
<1>1. CASE Dex /\ ProveDex /\ UNCHANGED errand
  BY <1>1 DEF ProveDex, Dex, Device, Binder, Input
<1>2. CASE Device /\ RunScript /\ UNCHANGED errand
  BY <1>2 DEF RunScript, Dex, Device, Binder, Input
<1>3. CASE Binder /\ ServeBinder /\ UNCHANGED errand
  BY <1>3 DEF ServeBinder, Dex, Device, Binder, Input
<1>4. CASE Input /\ FeedInput /\ UNCHANGED errand
  BY <1>4 DEF FeedInput, Dex, Device, Binder, Input
<1>5. CASE UNCHANGED commandVars
  BY <1>5 DEF commandVars
<1>6. QED
  BY <1>1, <1>2, <1>3, <1>4, <1>5 DEF CommandsNext, Dex, Device, Binder, Input

LEMMA IdleStays ==
  /\ DexIdle /\ UNCHANGED dexVars => DexIdle'
  /\ DeviceIdle /\ UNCHANGED deviceVars => DeviceIdle'
  /\ BinderIdle /\ UNCHANGED binderVars => BinderIdle'
  /\ InputIdle /\ UNCHANGED inputVars => InputIdle'
<1>1. DexIdle /\ UNCHANGED dexVars => DexIdle'
  BY DEF DexIdle, dexVars
<1>2. DeviceIdle /\ UNCHANGED deviceVars => DeviceIdle'
  BY DEF DeviceIdle, deviceVars
<1>3. BinderIdle /\ UNCHANGED binderVars => BinderIdle'
  BY DEF BinderIdle, BinderUntouched, binderVars
<1>4. InputIdle /\ UNCHANGED inputVars => InputIdle'
  BY DEF InputIdle, SessionNew, inputVars
<1>5. QED
  BY <1>1, <1>2, <1>3, <1>4

LEMMA CommandsKeep ==
  ASSUME CommandsInv, [CommandsNext]_commandVars PROVE CommandsInv'
<1>1. /\ errand' = errand
      /\ [DexNext]_dexVars /\ [DeviceNext]_deviceVars
      /\ [BinderNext]_binderVars /\ [InputNext]_inputVars
      /\ ~Dex => UNCHANGED dexVars
      /\ ~Device => UNCHANGED deviceVars
      /\ ~Binder => UNCHANGED binderVars
      /\ ~Input => UNCHANGED inputVars
  BY OneComponentSteps
<1>2. Dex' = Dex /\ Device' = Device /\ Binder' = Binder /\ Input' = Input
  BY <1>1 DEF Dex, Device, Binder, Input
<1>3. DexKept => DexKept'
  BY <1>1, NextDexIInv, TypesAreKept DEF DexKept
<1>4. DeviceKept => DeviceKept'
  BY <1>1, NextDeviceInv, DeviceTypesKept, NextForetoldInv DEF DeviceKept
<1>5. BinderKept => BinderKept'
  BY <1>1, BinderInvKept, BytesAreKept DEF BinderKept
<1>6. InputKept => InputKept'
  BY <1>1, InputNextKeeps, InputTypesKept DEF InputKept
<1>7. QED
  BY <1>1, <1>2, <1>3, <1>4, <1>5, <1>6, IdleStays DEF CommandsInv

THEOREM CommandsInvariant == CommandsSpec => []CommandsInv
<1>1. CommandsInit => CommandsInv
  BY CommandsBegin
<1>2. CommandsInv /\ [CommandsNext]_commandVars => CommandsInv'
  BY CommandsKeep
<1>3. QED
  BY <1>1, <1>2, PTL DEF CommandsSpec
--------------------------------------------------------------------------------
(* What stands idle breaks no promise.                                              *)

DexPromises    == DexTypeOK /\ PendingIsLatest /\ ProofTellsItsFiles
DevicePromises ==
  /\ DeviceTypeOK
  /\ ReadyWasUsable /\ FullBarMeansReady /\ NotesTellTheVerdict /\ PreflightForetellsLaunch
BinderPromises == BinderTypeOK /\ ReadyMetadataHasItsFiles
InputPromises  == InputTypeOK /\ NumbersDiffer /\ LaterProofsReplay /\ ReadyTellsTheSession

LEMMA IdleDexPromises == DexIdle => DexPromises
<1>1. SUFFICES ASSUME DexIdle PROVE DexPromises
  OBVIOUS
<1>2. /\ apk.files = <<>> /\ DOMAIN apk.methods = {} /\ DOMAIN code = {}
      /\ frames = <<>> /\ DOMAIN frames = {} /\ fileAt = 1 /\ dexPhase = "done"
  BY <1>1 DEF DexIdle, NoApk
<1>3. DexTypeOK
  BY <1>2 DEF DexTypeOK, Methods, Phases
<1>4. PendingIsLatest
  BY <1>2 DEF PendingIsLatest
<1>5. Deciding = {}
  BY <1>2 DEF Deciding
<1>6. ProofTellsItsFiles
  BY <1>1, <1>2, <1>5 DEF ProofTellsItsFiles, DexIdle, NoReport
<1>7. QED
  BY <1>3, <1>4, <1>6 DEF DexPromises

LEMMA IdleDevicePromises == DeviceIdle => DevicePromises
<1>1. SUFFICES ASSUME DeviceIdle PROVE DevicePromises
  OBVIOUS
<1>2. /\ step = "over" /\ answers = <<>> /\ changes = 0 /\ DOMAIN world.adb = {}
      /\ answer.asked = 0 /\ answer.seen = {}
  BY <1>1 DEF DeviceIdle, Blank
<1>3. DeviceTypeOK
  BY <1>2, DeviceAssumption DEF DeviceTypeOK, Running, Bounded, StatusQueries
<1>4. \A commands : Finished(commands) = {}
  BY <1>2 DEF Finished
<1>5. QED
  BY <1>3, <1>4 DEF DevicePromises, ReadyWasUsable, FullBarMeansReady, NotesTellTheVerdict,
     PreflightForetellsLaunch

LEMMA IdleBinderPromises == BinderIdle => BinderPromises
<1>1. SUFFICES ASSUME BinderIdle PROVE BinderPromises
  OBVIOUS
<1>2. room \in Nat
  BY <1>1, BinderAssumption DEF BinderIdle
<1>3. /\ fixtureRun = 0 /\ at = 0 /\ unsent = 0 /\ held = 0 /\ verdict = "idle"
      /\ disk = [f \in Files |-> Unwritten]
  BY <1>1 DEF BinderIdle, BinderUntouched
<1>4. "metadata" \in Files
  BY DEF Files
<1>5. QED
  BY <1>2, <1>3, <1>4 DEF BinderPromises, BinderTypeOK, ReadyMetadataHasItsFiles, MetadataReady,
     NothingSent, FixtureRunning, Unwritten

LEMMA IdleInputPromises == InputIdle => InputPromises
<1>1. SUFFICES ASSUME InputIdle PROVE InputPromises
  OBVIOUS
<1>2. InputTypeOK
  BY <1>1, SessionNewTypes DEF InputIdle
<1>3. DOMAIN proofs = {}
  BY <1>1 DEF InputIdle, SessionNew
<1>4. BoundProofs = {} /\ StateNumbers = {}
  BY <1>3 DEF BoundProofs, StateNumbers
<1>5. QED
  BY <1>2, <1>4 DEF InputPromises, NumbersDiffer, LaterProofsReplay, ReadyTellsTheSession

LEMMA CommandsPromise ==
  ASSUME CommandsInv
  PROVE  DexPromises /\ DevicePromises /\ BinderPromises /\ InputPromises
<1>1. DexKept => DexPromises
  <2>1. DexIInv => PendingIsLatest
    BY DEF DexIInv, FramesHold, AllHold, HoldsLatest, PendingIsLatest
  <2>2. DexIInv => ProofTellsItsFiles
    BY DEF DexIInv, FilesKept
  <2>3. QED
    BY <2>1, <2>2, DexTyped DEF DexKept, DexPromises
<1>2. DeviceKept => DevicePromises
  <2>1. DeviceInv => ReadyWasUsable /\ FullBarMeansReady
    BY DEF DeviceInv, ScriptInv, ReadyWasUsable, FullBarMeansReady, Finished, Right,
           RightImeReport
  <2>2. DeviceInv => NotesTellTheVerdict
    BY DEF DeviceInv, ScriptInv, NotesTellTheVerdict, Finished, Right, RightPreflight
  <2>3. ForetoldInv => PreflightForetellsLaunch
    BY DEF ForetoldInv
  <2>4. QED
    BY <2>1, <2>2, <2>3, CommandTyped DEF DeviceKept, DevicePromises
<1>3. BinderKept => BinderPromises
  BY BinderTyped DEF BinderKept, BinderInv, BinderPromises
<1>4. InputKept => InputPromises
  BY BlocksDiffer DEF InputKept, InputIInv, InputPromises
<1>5. QED
  BY <1>1, <1>2, <1>3, <1>4, IdleDexPromises, IdleDevicePromises, IdleBinderPromises,
     IdleInputPromises DEF CommandsInv

--------------------------------------------------------------------------------
(* The theorems.                                                                  *)

(* Whatever compatctl is run for, every component is in a state it can be in          *)
(* (src/main.cpp).                                                                 *)
THEOREM CommandsTypes == CommandsSpec => []CommandsTypeOK
<1>1. CommandsInv => CommandsTypeOK
  BY CommandsPromise DEF CommandsTypeOK, DexPromises, DevicePromises, BinderPromises,
     InputPromises
<1>2. QED
  BY <1>1, CommandsInvariant, PTL

(* What the commands answer and leave behind can be relied on, whichever command it   *)
(* is: the promises that were proved of each component hold of the program.          *)
THEOREM CommandsKeepTheirPromises ==
  CommandsSpec => [](DexPromises /\ DevicePromises /\ BinderPromises /\ InputPromises)
<1>1. CommandsInv => DexPromises /\ DevicePromises /\ BinderPromises /\ InputPromises
  BY CommandsPromise
<1>2. QED
  BY <1>1, CommandsInvariant, PTL

(* Whatever compatctl is run for, only a method that has called another one writes     *)
(* over an object (next_object_id of ExecuteInlineInvokedMethod).                   *)
THEOREM CommandsWriteOverNothing == CommandsSpec => LeavesNeverAlias
<1>1. CommandsInv /\ [CommandsNext]_commandVars => [lost' # lost => HasCalled(Top.method)]_dexVars
  <2>1. SUFFICES ASSUME CommandsInv, [CommandsNext]_commandVars, dexVars' # dexVars,
                        lost' # lost
                 PROVE  HasCalled(Top.method)
    OBVIOUS
  <2>2. [DexNext]_dexVars /\ Dex
    BY <2>1, OneComponentSteps
  <2>3. DexIInv
    BY <2>1, <2>2 DEF CommandsInv, DexKept
  <2>4. QED
    BY <2>1, <2>2, <2>3, NextDexIInv DEF Overwrites
<1>2. QED
  BY <1>1, CommandsInvariant, PTL DEF CommandsSpec, LeavesNeverAlias

(* Whatever compatctl is run for, the long opcodes that are carried out agree with    *)
(* two's complement arithmetic (cmp-long, sub-long, add/sub-long/2addr, or-long,       *)
(* and-long, int-to-long).                                                          *)
THEOREM CommandsComputeLongs == CommandsSpec => LongsAgree
<1>1. CommandsInv /\ [CommandsNext]_commandVars
        => [StaysIn => LongsComputed(Ran, Top.regs, frames'[Len(frames)].regs)]_dexVars
  <2>1. SUFFICES ASSUME CommandsInv, [CommandsNext]_commandVars, dexVars' # dexVars
                 PROVE  [StaysIn => LongsComputed(Ran, Top.regs, frames'[Len(frames)].regs)]_dexVars
    OBVIOUS
  <2>2. [DexNext]_dexVars /\ Dex
    BY <2>1, OneComponentSteps
  <2>3. DexIInv /\ TypesKept
    BY <2>1, <2>2 DEF CommandsInv, DexKept
  <2>4. QED
    BY <2>2, <2>3, NextComputes
<1>2. QED
  BY <1>1, CommandsInvariant, PTL DEF CommandsSpec, LongsAgree

(* Whatever compatctl is run for, the elements of the DEX bridge's collections lie      *)
(* within them and its iterators have not passed their ends, as long as no copy of an  *)
(* array leaves the ints and no object has been written over (aget-object, the list    *)
(* and iterator stubs, System.arraycopy).                                           *)
THEOREM CommandsKeepCollections ==
  CommandsSpec /\ []CopiesStayInside => []CollectionsHoldTheirOwn
<1> DEFINE DexHeld == CommandsInv /\ (Dex => Collected)
<1>1. CommandsInit => DexHeld
  BY CommandsBegin, InitTypesKept DEF CommandsInit, Dex
<1>2. DexHeld /\ CopiesStayInside /\ [CommandsNext]_commandVars => DexHeld'
  <2>1. SUFFICES ASSUME DexHeld, CopiesStayInside, [CommandsNext]_commandVars PROVE DexHeld'
    OBVIOUS
  <2>2. CommandsInv'
    BY <2>1, CommandsKeep
  <2>3. [DexNext]_dexVars /\ Dex' = Dex
    BY <2>1, OneComponentSteps DEF Dex
  <2>4. ASSUME Dex PROVE Collected'
    <3>1. DexIInv /\ TypesKept /\ Collected
      BY <2>1, <2>4 DEF CommandsInv, DexKept
    <3>2. QED
      BY <2>1, <2>3, <3>1, CollectionsAreKept
  <2>5. QED
    BY <2>2, <2>3, <2>4
<1>3. DexHeld => CollectionsHoldTheirOwn
  <2>1. ASSUME DexHeld, Dex PROVE CollectionsHoldTheirOwn
    BY <2>1, CollectionsAreHeld DEF CommandsInv, DexKept
  <2>2. ASSUME DexHeld, ~Dex PROVE CollectionsHoldTheirOwn
    <3>1. DOMAIN heap = {}
      BY <2>2 DEF CommandsInv, DexIdle
    <3>2. QED
      BY <3>1 DEF CollectionsHoldTheirOwn
  <2>3. QED
    BY <2>1, <2>2
<1> HIDE DEF DexHeld
<1>4. QED
  BY <1>1, <1>2, <1>3, PTL DEF CommandsSpec
================================================================================
