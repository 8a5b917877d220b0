------------------------------ MODULE BinderTransport ------------------------------
(* The Binder fixture (src/binder_service_manager.cpp): RunBinderServiceManagerFixture *)
(* describes its services in files and sends every lookup and transaction through a *)
(* socket pair.  One thread plays both ends: it writes a whole message before it    *)
(* reads any of it, and it writes as much as the socket has room for.               *)
(*                                                                               *)
(* A spec gives the lengths of its strings, 0 for one that is missing.              *)
EXTENDS Integers, Sequences, FiniteSets

CONSTANTS
  Specs,       \* [package, launcher, apk, session, owner, root]: lengths, a BOOLEAN root
  Rooms,       \* bytes a socket may hold
  MaxPayload,  \* longest message that is read (1 MiB in the code)
  Envelope,    \* bytes of a message besides the strings of the spec
  MaxFixtureRuns, \* bound: runs of the fixture on one artifact root
  MaxShort     \* bound: files a full disk has cut short at a time

(* Strings and sockets have lengths, and a spec has an artifact root or it has none. *)
ASSUME BinderAssumption ==
  /\ Specs \subseteq [package : Nat, launcher : Nat, apk : Nat, session : Nat, owner : Nat,
                      root : BOOLEAN]
  /\ Rooms \subseteq Nat /\ Rooms # {}
  /\ Envelope \in Nat

VARIABLES
  spec, room,
  fixtureRun,  \* runs of the fixture on this artifact root so far
  at,          \* how far the run has come in its plan, 0 when there is none
  unsent,      \* bytes of the message in hand the sender has yet to write
  held,        \* bytes in the socket
  logged,      \* messages delivered in this run
  disk,        \* the files: which run opened them last, and what came of it
  verdict      \* of the run: "ready", "invalid", "threw" or "stopped" once it has ended

binderVars == <<spec, room, fixtureRun, at, unsent, held, logged, disk, verdict>>

--------------------------------------------------------------------------------
(* The conversation: four lookups and three transactions, each asked and answered.  *)

Lookups == <<"package_manager", "activity_manager", "app_local_service", "window_manager">>
Transactions == <<"package_manager", "activity_manager", "app_local_service">>
RoundTrips == Len(Lookups) + Len(Transactions)
Messages == 1 .. 2 * RoundTrips
IsRequest(n) == n % 2 = 1
OfLookup(n) == n <= 2 * Len(Lookups)
Service(n) == LET k == (n + 1) \div 2 IN
  IF OfLookup(n) THEN Lookups[k] ELSE Transactions[k - Len(Lookups)]

(* ResolveSessionId, ResolveOwnerProcessIdentity                                 *)
Session(s) == IF s.session # 0 THEN s.session ELSE s.package
Owner(s)   == IF s.owner # 0 THEN s.owner ELSE Session(s)
Identity(s, n) == IF Service(n) = "window_manager" THEN 0 ELSE Session(s) + Owner(s)
Payload(s, n) ==
  IF OfLookup(n) THEN 0
  ELSE IF Service(n) = "package_manager"
    THEN IF IsRequest(n) THEN s.package + s.apk ELSE s.launcher
  ELSE IF Service(n) = "activity_manager" /\ IsRequest(n) THEN s.launcher + s.package
  ELSE IF Service(n) = "app_local_service"
    THEN IF IsRequest(n) THEN Session(s) ELSE Owner(s)
  ELSE 0
Interface(s, n) ==
  IF Service(n) = "app_local_service" /\ ~(OfLookup(n) /\ IsRequest(n)) THEN 2 * s.package ELSE 0
Header == 4
Size(s, n) == Envelope + Interface(s, n) + Identity(s, n) + Payload(s, n)

--------------------------------------------------------------------------------
(* What a run goes through.                                                      *)

Complete(s) == s.package # 0 /\ s.launcher # 0 /\ s.apk # 0 /\ s.root
Files == {"metadata", "registry", "lookup_summary", "lookup_log", "transaction_log",
          "transport"}
Described == <<"registry", "lookup_summary", "lookup_log", "transaction_log">>
FileCount == 6
PlanLength(s) == IF Complete(s) THEN FileCount + 2 * RoundTrips ELSE FileCount

\* Mutant: the metadata is written first, as it is for an incomplete spec.
CompletePlanMetadataFirst(k) ==
  IF k = 1 THEN "metadata"
  ELSE IF k <= 5 THEN Described[k - 1]
  ELSE IF k <= 5 + 2 * RoundTrips THEN "message" ELSE "transport"
CompletePlan(k) ==
  IF k <= 4 THEN Described[k]
  ELSE IF k <= 4 + 2 * RoundTrips THEN "message"
  ELSE IF k = 5 + 2 * RoundTrips THEN "transport" ELSE "metadata"
IncompletePlan(k) ==
  IF k = 1 THEN "metadata" ELSE IF k <= 5 THEN Described[k - 1] ELSE "transport"

FixtureRunning == at # 0
Task == IF Complete(spec) THEN CompletePlan(at) ELSE IncompletePlan(at)
AtEnd == at = PlanLength(spec)
OnToNext == at' = IF AtEnd THEN 0 ELSE at + 1

(* Which run opened a file last, whether it had services to describe, and whether    *)
(* what it wrote is all there.                                                   *)
Unwritten == [run |-> 0, described |-> FALSE, holds |-> "nothing"]
BinderUntouched ==
  /\ fixtureRun = 0 /\ at = 0 /\ unsent = 0 /\ held = 0 /\ logged = 0
  /\ disk = [f \in Files |-> Unwritten]
  /\ verdict = "idle"
BinderInit == spec \in Specs /\ room \in Rooms /\ BinderUntouched

RunFixture ==
  /\ ~FixtureRunning
  /\ spec' \in Specs
  /\ fixtureRun' = fixtureRun + 1
  /\ at' = 1
  /\ unsent' = 0 /\ held' = 0 /\ logged' = 0
  /\ verdict' = "running"
  /\ UNCHANGED <<room, disk>>

EndsWith(outcome) ==
  /\ at' = 0 /\ verdict' = outcome
  /\ unsent' = 0 /\ held' = 0
  /\ UNCHANGED <<spec, room, fixtureRun, logged, disk>>
Throws == EndsWith("threw")

(* WriteTextFile: a file that cannot be opened ends the run, one that can is empty.   *)
(* A spec without a root stands for a run in the directory that is the others' root.  *)
AtFile == FixtureRunning /\ Task # "message"
Opened == disk[Task].run = fixtureRun
FileGets(what) ==
  disk' = [disk EXCEPT ![Task] =
    [run |-> fixtureRun, holds |-> what,
     described |-> IF Task = "transport" THEN logged = 2 * RoundTrips ELSE Complete(spec)]]
OpenFile ==
  /\ AtFile /\ ~Opened /\ FileGets("torn")
  /\ UNCHANGED <<spec, room, fixtureRun, at, unsent, held, logged, verdict>>
FileUnwritable == AtFile /\ ~Opened /\ Throws

(* Nobody asks whether the disk had room for what is written.                       *)
CloseFile(what) ==
  /\ AtFile /\ Opened /\ FileGets(what)
  /\ OnToNext
  /\ verdict' = IF ~AtEnd THEN verdict ELSE IF Complete(spec) THEN "ready" ELSE "invalid"
  /\ UNCHANGED <<spec, room, fixtureRun, unsent, held, logged>>
WriteFile == CloseFile("all")
DiskFull ==
  /\ Cardinality({f \in Files : disk[f].holds = "short"}) < MaxShort
  /\ CloseFile("short")

InHand == FixtureRunning /\ Task = "message"
Message == logged + 1

(* SimulateTransportRoundTrip opens a pair of sockets for a request and its answer.  *)
NothingSent == unsent = 0 /\ held = 0
BeginMessage ==
  /\ InHand /\ NothingSent
  /\ unsent' = Header + Size(spec, Message)
  /\ UNCHANGED <<spec, room, fixtureRun, at, held, logged, disk, verdict>>
NoSockets == InHand /\ NothingSent /\ IsRequest(Message) /\ Throws

\* Mutant: the sender goes on writing when the socket is full.
SpaceForAll == unsent
\* Mutant: room is kept for one more header, which nobody sends.
SpaceKept ==
  IF unsent < room - held - Header THEN unsent ELSE room - held - Header
Space == IF unsent < room - held THEN unsent ELSE room - held

(* WriteTransportBytes: write takes what there is room for, and waits for room       *)
(* otherwise.                                                                    *)
WriteTransportBytes ==
  /\ InHand /\ Space > 0
  /\ unsent' = unsent - Space /\ held' = held + Space
  /\ UNCHANGED <<spec, room, fixtureRun, at, logged, disk, verdict>>

(* ReceiveBinderTransportPayload, once the sender is through.                       *)
Written == InHand /\ unsent = 0 /\ held > 0
TooLarge(n) == Size(spec, n) > MaxPayload
ReceiveMessage ==
  /\ Written /\ ~TooLarge(Message)
  /\ held' = 0 /\ logged' = Message /\ OnToNext
  /\ UNCHANGED <<spec, room, fixtureRun, unsent, disk, verdict>>
RefuseMessage == Written /\ TooLarge(Message) /\ Throws

FixtureStep ==
  \/ OpenFile \/ FileUnwritable \/ WriteFile \/ DiskFull
  \/ BeginMessage \/ NoSockets \/ WriteTransportBytes
  \/ ReceiveMessage \/ RefuseMessage

(* Whoever runs the fixture may stop it wherever it is, hanging or at work.           *)
FixtureStopped == FixtureRunning /\ EndsWith("stopped")

FixturesOver == ~FixtureRunning /\ fixtureRun = MaxFixtureRuns /\ UNCHANGED binderVars

BinderNext ==
  \/ fixtureRun < MaxFixtureRuns /\ RunFixture
  \/ FixtureStep \/ FixtureStopped
  \/ FixturesOver
BinderSpec == BinderInit /\ [][BinderNext]_binderVars /\ WF_binderVars(FixtureStep)

--------------------------------------------------------------------------------
(* Properties.                                                                  *)

(* Types: no byte is lost between the two ends, and a run has delivered as many      *)
(* messages as it has come past in its plan (SimulateTransportRoundTrip).           *)
BinderTypeOK ==
  /\ held \in 0 .. room /\ unsent >= 0
  /\ ~NothingSent => InHand /\ unsent + held = Header + Size(spec, Message)
  /\ FixtureRunning /\ Complete(spec) =>
       logged = IF at <= 4 THEN 0 ELSE IF InHand THEN at - 5 ELSE 2 * RoundTrips
  /\ \A f \in Files : disk[f].run \in 0 .. fixtureRun

(* Beside a service-manager.json that says ready, and after a run that returned       *)
(* ready, every file describes services: it was written by the run that says so, to   *)
(* its end unless the disk was full, or a later run for a complete spec has got at    *)
(* least as far as opening it.  So no run for a complete spec that fails or is stopped *)
(* says ready over files it did not write, and one for an incomplete spec takes the   *)
(* word back before it touches the others (the order of the files: metadata last for  *)
(* a complete spec, first for an incomplete one).                                  *)
MetadataReady == disk["metadata"].described /\ disk["metadata"].holds = "all"
FilesSince(run) ==
  \A f \in Files :
    /\ disk[f].described /\ disk[f].run >= run
    /\ disk[f].run = run => disk[f].holds \in {"all", "short"}
ReadyMetadataHasItsFiles ==
  /\ MetadataReady => FilesSince(disk["metadata"].run)
  /\ verdict = "ready" => FilesSince(fixtureRun)

(* The fixture ends when the socket can hold the longest message; a longer one may   *)
(* hang it, since the thread that would read it is the one that waits for room      *)
(* (SendBinderTransportPayload before ReceiveBinderTransportPayload).               *)
Fits == \A n \in Messages : Header + Size(spec, n) <= room
FittingFixturesEnd == FixtureRunning /\ Fits ~> ~FixtureRunning
================================================================================
