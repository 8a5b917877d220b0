-------------------------- MODULE NativeRunnerProofs --------------------------
(* What the native runner guarantees for any set of staged libraries, any      *)
(* number of shims and registration callbacks, and any way the libraries, the  *)
(* watchdog thread and the signals interleave (NativeRunner).                  *)
EXTENDS NativeRunner, FiniteSetTheorems, WellFoundedInduction, TLAPS

--------------------------------------------------------------------------------
(* The helpers of NativeLibraries.                                              *)

LEMMA RankIsNat == \A l : DetermineLibraryOrderRank(l) \in Nat
<1>1. 0 \in Nat /\ 10 \in Nat /\ 11 \in Nat /\ 12 \in Nat /\ 13 \in Nat /\ 14 \in Nat
      /\ 20 \in Nat
  OBVIOUS
<1>2. QED
  BY <1>1, Zenon DEF DetermineLibraryOrderRank

(* No library is sorted before itself: no name is tried twice.                  *)
LEMMA LoadsBeforeIsStrict == \A l \in LibraryNames : ~LoadsBefore(l, l)
<1>1. TAKE l \in LibraryNames
<1>2. DetermineLibraryOrderRank(l) \in Nat /\ NameOrder[l] \in Nat
  BY RankIsNat, LibraryAssumption
<1>3. QED
  BY <1>2 DEF LoadsBefore

LEMMA CandidatesAreDistinct ==
  ASSUME NEW d \in SUBSET LibraryNames, NEW s \in BuildNativeLibraryCandidates(d)
  PROVE  /\ s \in Seq(LibraryNames)
         /\ \A i, j \in DOMAIN s : s[i] = s[j] => i = j
<1>1. Cardinality(d) \in Nat
  BY FS_Subset, FS_CardinalityType, LibraryAssumption
<1>2. s \in [1 .. Cardinality(d) -> d]
  BY DEF BuildNativeLibraryCandidates
<1>3. s \in Seq(LibraryNames)
  BY <1>1, <1>2
<1>4. ASSUME NEW i \in DOMAIN s, NEW j \in DOMAIN s, s[i] = s[j]
      PROVE  i = j
  <2>1. i \in 1 .. Cardinality(d) /\ j \in 1 .. Cardinality(d)
    BY <1>2
  <2>2. ~(i < j) /\ ~(j < i)
    BY <1>2, <1>4, <2>1, LoadsBeforeIsStrict DEF BuildNativeLibraryCandidates
  <2>3. QED
    BY <1>1, <2>1, <2>2
<1>5. QED
  BY <1>3, <1>4

(* A set of positions has a last one.                                           *)
LEMMA LatestExists ==
  ASSUME NEW n \in Nat, NEW I \in SUBSET (1 .. n), I # {}
  PROVE  Latest(I) \in I
<1>1. IsWellFoundedOn(OpToRel(<, Nat), Nat)
  BY NatLessThanWellFounded
<1>2. DEFINE T == {n - i : i \in I}
<1>3. T \subseteq Nat /\ T # {}
  OBVIOUS
<1>4. \E x \in T : \A y \in T : ~(<<y, x>> \in OpToRel(<, Nat))
  BY <1>1, <1>3, WFMin
<1>5. PICK x \in T : \A y \in T : ~(<<y, x>> \in OpToRel(<, Nat))
  BY <1>4
<1>6. \A y \in T : ~(y < x)
  BY <1>3, <1>5 DEF OpToRel
<1>7. \E i \in I : \A j \in I : j <= i
  BY <1>6
<1>8. QED
  BY <1>7, Zenon DEF Latest

(* The preload state is one of those main writes into the report.               *)
LEMMA CompatStateType ==
  ASSUME NEW outcomes \in [1 .. ShimCount -> ShimOutcomes] \cup {<<>>},
         NEW normalized \in BOOLEAN
  PROVE  CompatState(outcomes, normalized) \in CompatStates
<1>1. DEFINE bad == {i \in DOMAIN outcomes : outcomes[i] # "loaded"}
<1>2. CASE outcomes = <<>>
  BY <1>2 DEF CompatState, CompatStates
<1>3. CASE outcomes # <<>>
  <2>1. outcomes \in [1 .. ShimCount -> ShimOutcomes]
    BY <1>3
  <2>2. bad # {} => Latest(bad) \in bad
    BY <2>1, LatestExists, RunnerAssumption
  <2>3. bad # {} => outcomes[Latest(bad)] \in {"shim_missing", "preload_failed"}
    BY <2>1, <2>2 DEF ShimOutcomes
  <2>4. QED
    BY <1>3, <2>3 DEF CompatState, CompatStates
<1>4. QED
  BY <1>2, <1>3

--------------------------------------------------------------------------------
(* The load loop.                                                               *)

loadVars == <<dir, candidates, nextCandidate, loaded, exports, loadState>>

LoadInv ==
  /\ pc \in Labels
  /\ dir \in SUBSET LibraryNames
  /\ candidates \in Seq(LibraryNames)
  /\ nextCandidate \in 1 .. Len(candidates) + 1
  /\ loaded \in Seq(LibraryNames)
  /\ exports \in [LibraryNames -> SUBSET Symbols]
  /\ loadState \in [LibraryNames -> {"none", "loaded", "dlopen_failed",
                                     "skipped_after_primary_selection"}]
  /\ pc = "discover" => nextCandidate = 1
  /\ \A i, j \in DOMAIN candidates : candidates[i] = candidates[j] => i = j
  /\ \A i \in DOMAIN loaded :
       \E j \in DOMAIN candidates : j < nextCandidate /\ loaded[i] = candidates[j]
  /\ PrimaryIsLastLoaded

LEMMA InitLoadInv == Init => LoadInv
BY DEF Init, LoadInv, PrimaryIsLastLoaded, Labels, Symbols

(* Outside the load loop only pc matters to LoadInv.                            *)
LEMMA LoadInvKept ==
  ASSUME LoadInv, UNCHANGED loadVars, pc' \in Labels \ {"discover"} \/ pc' = pc
  PROVE  LoadInv'
BY DEF LoadInv, loadVars, PrimaryIsLastLoaded, Labels

(* No action but the load loop's own touches its variables.                     *)
LEMMA OtherStepsKeepLoads ==
  ASSUME LoadInv, [Next]_vars,
         ~DiscoverCandidates, ~SkipCandidate, ~LoadCandidate
  PROVE  UNCHANGED loadVars /\ (pc' \in Labels \ {"discover"} \/ pc' = pc)
<1>1. CASE PreloadAndroidCompatibilityShims \/ SelectLibraries
  BY <1>1 DEF PreloadAndroidCompatibilityShims, SelectLibraries, Return, loadVars,
              Labels, raceVars
<1>2. CASE JniSteps \/ JniOnLoadFaults
  BY <1>2 DEF JniSteps, BeginJniOnLoad, JniOnLoadReturns, SettleJni, JniOnLoadFaults,
              Return, loadVars, Labels
<1>3. CASE CallbackSteps \/ CallbackFaults
  BY <1>3 DEF CallbackSteps, CallbackSymbolMissing, BeginCallback, CallbackReturns,
              FinishRegistration, CallbackFaults, RecordCallback, Return, loadVars,
              Labels
<1>4. CASE CallEntrypoint \/ EntrypointReturns \/ SetEntryCompleted \/ JoinWatchdog
  BY <1>4 DEF CallEntrypoint, EntrypointReturns, SetEntryCompleted, JoinWatchdog,
              Return, loadVars, Labels
<1>5. CASE WatchdogSteps \/ LibraryEndsProcess \/ KilledBySignal
  BY <1>5 DEF WatchdogSteps, WatchdogWakes, WatchdogExits, LibraryEndsProcess,
              KilledBySignal, mainVars, loadVars
<1>6. CASE ReportSteps
  BY <1>6 DEF ReportSteps, OpenReport, WriteReport, FlushAndExit, mainVars, loadVars,
              Labels
<1>7. CASE Ended \/ UNCHANGED vars
  BY <1>7 DEF Ended, vars, mainVars, loadVars
<1>8. QED
  BY <1>1, <1>2, <1>3, <1>4, <1>5, <1>6, <1>7 DEF Next, LoadSteps, Faults

LEMMA DiscoverKeepsLoadInv == ASSUME LoadInv, DiscoverCandidates PROVE LoadInv'
<1>1. PICK s \in BuildNativeLibraryCandidates(dir) : candidates' = s
  BY DEF DiscoverCandidates
<1>2. candidates' \in Seq(LibraryNames)
      /\ \A i, j \in DOMAIN candidates' : candidates'[i] = candidates'[j] => i = j
  BY <1>1, CandidatesAreDistinct DEF LoadInv
<1>3. nextCandidate = 1 /\ DOMAIN loaded = {}
  BY DEF LoadInv, DiscoverCandidates, At
<1>4. nextCandidate' \in 1 .. Len(candidates') + 1
  BY <1>2, <1>3 DEF DiscoverCandidates
<1>5. pc' \in Labels \ {"discover"}
  BY DEF DiscoverCandidates, Return, Labels
<1>6. QED
  BY <1>2, <1>3, <1>4, <1>5 DEF LoadInv, DiscoverCandidates, PrimaryIsLastLoaded

LEMMA SkipKeepsLoadInv == ASSUME LoadInv, SkipCandidate PROVE LoadInv'
<1>1. Candidate \in LibraryNames /\ nextCandidate' \in 1 .. Len(candidates) + 1
  BY DEF LoadInv, SkipCandidate, Candidate
<1>2. QED
  BY <1>1 DEF LoadInv, SkipCandidate, PrimaryIsLastLoaded, At, Labels

(* The candidate is not loaded yet, and no loaded library exports a symbol: the *)
(* new last one is the only one that may.                                       *)
LEMMA LoadKeepsLoadInv == ASSUME LoadInv, LoadCandidate PROVE LoadInv'
<1>1. /\ nextCandidate \in DOMAIN candidates /\ nextCandidate' = nextCandidate + 1
      /\ Candidate \in LibraryNames
      /\ nextCandidate' \in 1 .. Len(candidates) + 1
  BY DEF LoadInv, LoadCandidate, Candidate
<1>2. /\ pc' = pc /\ dir' = dir /\ candidates' = candidates /\ pc # "discover"
  BY DEF LoadCandidate, At
<1>3. \A i \in DOMAIN loaded : loaded[i] # Candidate /\ exports[loaded[i]] = {}
  BY <1>1 DEF LoadInv, LoadCandidate, PrimaryLibrarySelected, Candidate
<1>4. CASE UNCHANGED <<loaded, exports>>
  BY <1>1, <1>2, <1>4 DEF LoadInv, LoadCandidate, PrimaryIsLastLoaded
<1>5. CASE /\ loaded' = Append(loaded, Candidate)
           /\ \E visible \in SUBSET Symbols :
                exports' = [exports EXCEPT ![Candidate] = visible]
  <2>1. /\ loaded' \in Seq(LibraryNames)
        /\ DOMAIN loaded' = 1 .. Len(loaded) + 1
        /\ DOMAIN loaded = 1 .. Len(loaded) /\ Len(loaded) \in Nat
        /\ Len(loaded') = Len(loaded) + 1
        /\ loaded'[Len(loaded) + 1] = Candidate
        /\ \A i \in DOMAIN loaded : loaded'[i] = loaded[i]
    BY <1>1, <1>5 DEF LoadInv
  <2>2. /\ exports' \in [LibraryNames -> SUBSET Symbols]
        /\ \A l \in LibraryNames : l # Candidate => exports'[l] = exports[l]
    BY <1>1, <1>5 DEF LoadInv
  <2>3. \A i \in DOMAIN loaded : loaded[i] \in LibraryNames
    BY DEF LoadInv
  <2>4. PrimaryIsLastLoaded'
    <3>1. ASSUME NEW i \in DOMAIN loaded', exports'[loaded'[i]] # {}
          PROVE  i = Len(loaded')
      BY <1>3, <2>1, <2>2, <2>3, <3>1
    <3>2. ASSUME NEW i \in DOMAIN loaded', NEW j \in DOMAIN loaded',
                 loaded'[i] = loaded'[j]
          PROVE  i = j
      BY <1>3, <2>1, <3>2 DEF LoadInv, PrimaryIsLastLoaded
    <3>3. QED
      BY <3>1, <3>2 DEF PrimaryIsLastLoaded
  <2>5. ASSUME NEW i \in DOMAIN loaded'
        PROVE  \E j \in DOMAIN candidates' :
                 j < nextCandidate' /\ loaded'[i] = candidates'[j]
    <3>1. CASE i = Len(loaded) + 1
      BY <1>1, <1>2, <2>1, <3>1 DEF Candidate, LoadInv
    <3>2. CASE i \in DOMAIN loaded
      BY <1>1, <1>2, <2>1, <3>2 DEF LoadInv
    <3>3. QED
      BY <2>1, <3>1, <3>2
  <2>6. loadState' \in [LibraryNames -> {"none", "loaded", "dlopen_failed",
                                       "skipped_after_primary_selection"}]
    BY <1>1 DEF LoadCandidate, LoadInv
  <2>7. QED
    BY <1>1, <1>2, <2>1, <2>2, <2>4, <2>5, <2>6 DEF LoadInv
<1>6. QED
  BY <1>4, <1>5 DEF LoadCandidate

LEMMA NextLoadInv == LoadInv /\ [Next]_vars => LoadInv'
BY OtherStepsKeepLoads, LoadInvKept, DiscoverKeepsLoadInv, SkipKeepsLoadInv,
   LoadKeepsLoadInv

(* However the libraries load or fail to, the loop has tried exactly candidates *)
(* before the one it looks at next, each once, and stops at the first useful    *)
(* one (native_execute_stub.cpp:951-1003).                                      *)
THEOREM LoadLoopIsSound == Spec => []LoadInv
BY InitLoadInv, NextLoadInv, PTL DEF Spec

(* The first useful library ends the search: whatever is staged and whatever it *)
(* exports, the entry point and JNI_OnLoad come from the same library, the last *)
(* one loaded, and no file is loaded twice (primary_library_selected,           *)
(* native_execute_stub.cpp:951-1003).                                           *)
THEOREM OneLibraryIsUsed == Spec => []PrimaryIsLastLoaded
BY LoadLoopIsSound, PTL DEF LoadInv

--------------------------------------------------------------------------------
(* Which libraries the entry point and JNI_OnLoad are taken from.               *)

LEMMA ExporterIsLast ==
  ASSUME LoadInv, NEW symbol, NEW I \in SUBSET Exporting(loaded, exports, symbol),
         I # {}
  PROVE  /\ I = {Len(loaded)} /\ Len(loaded) \in DOMAIN loaded
         /\ symbol \in exports[loaded[Len(loaded)]]
         /\ Earliest(I) = Len(loaded) /\ Latest(I) = Len(loaded)
<1>1. Len(loaded) \in Nat
  BY DEF LoadInv
<1>2. \A i \in I : i = Len(loaded) /\ i \in DOMAIN loaded /\ symbol \in exports[loaded[i]]
  BY DEF LoadInv, PrimaryIsLastLoaded, Exporting
<1>3. I = {Len(loaded)}
  BY <1>2
<1>4. Earliest(I) = Len(loaded) /\ Latest(I) = Len(loaded)
  BY <1>1, <1>3 DEF Earliest, Latest
<1>5. QED
  BY <1>2, <1>3, <1>4

LEMMA EntrypointIsLast ==
  ASSUME LoadInv, EntrypointLibrary # NoLibrary
  PROVE  /\ Len(loaded) \in DOMAIN loaded
         /\ EntrypointLibrary = loaded[Len(loaded)]
         /\ "ANativeActivity_onCreate" \in exports[loaded[Len(loaded)]]
<1>1. DEFINE with      == Exporting(loaded, exports, "ANativeActivity_onCreate")
             preferred == {i \in with : IsEntrypointLibraryName(loaded[i])}
<1>2. with # {}
  BY DEF EntrypointLibrary, SelectEntrypointLibrary
<1>3. /\ Len(loaded) \in DOMAIN loaded /\ Latest(with) = Len(loaded)
      /\ "ANativeActivity_onCreate" \in exports[loaded[Len(loaded)]]
      /\ preferred # {} => Earliest(preferred) = Len(loaded)
  BY <1>2, ExporterIsLast
<1>4. QED
  BY <1>2, <1>3 DEF EntrypointLibrary, SelectEntrypointLibrary

LEMMA JniIsLast ==
  ASSUME LoadInv, JniLibrary # NoLibrary
  PROVE  /\ Len(loaded) \in DOMAIN loaded
         /\ JniLibrary = loaded[Len(loaded)]
         /\ "JNI_OnLoad" \in exports[loaded[Len(loaded)]]
<1>1. DEFINE with      == Exporting(loaded, exports, "JNI_OnLoad")
             preferred == {i \in with : IsPreferredJniLibraryName(loaded[i])}
<1>2. with # {}
  BY DEF JniLibrary, SelectJniLibrary
<1>3. /\ Len(loaded) \in DOMAIN loaded /\ Earliest(with) = Len(loaded)
      /\ "JNI_OnLoad" \in exports[loaded[Len(loaded)]]
      /\ preferred # {} => Earliest(preferred) = Len(loaded)
  BY <1>2, ExporterIsLast
<1>4. QED
  BY <1>2, <1>3 DEF JniLibrary, SelectJniLibrary

--------------------------------------------------------------------------------
(* The report and the process.                                                  *)

RunTypes ==
  /\ compat \in CompatStates
  /\ jniState \in {"none", "called", "crashed"}
  /\ jniFault \in BOOLEAN
  /\ trap \in BOOLEAN
  /\ callbacks \in 0..MaxCallbacks
  /\ report \in Reports
  /\ entryCompleted \in BOOLEAN
  /\ watchdog \in {"none", "sleeping", "expiring", "done"}
  /\ life \in Lives

(* The library the report names exports the symbol. *)
Backs(symbol) ==
  \E i \in DOMAIN loaded :
    loaded[i] = report.selected_library /\ symbol \in exports[loaded[i]]

(* What the report may claim at each point of the main thread. *)
Claims ==
  /\ pc \in {"discover", "preload", "load"} => ~report.entrypoint_found
  /\ pc \in {"discover", "preload", "load", "call_jni", "in_jni"} => jniState = "none"
  /\ pc \in {"discover", "preload", "load", "call_jni", "in_jni", "settle"} =>
       /\ ~report.activity_called /\ ~report.execution_engine_ready
       /\ report.registration_outcome_state = "not_applicable"
  /\ pc \in {"call_jni", "in_jni"} \/ jniState = "called" => Backs("JNI_OnLoad")
  /\ report.entrypoint_found => Backs("ANativeActivity_onCreate")
  /\ pc \in {"call_entry", "in_entry", "returned", "join"} =>
       /\ report.entrypoint_found
       /\ report.registration_outcome_state = "not_applicable"
  /\ pc \in {"call_callback", "in_callback"} =>
       jniState = "called" /\ report.execution_engine_ready /\ ~report.entrypoint_found
  /\ pc = "in_callback" => callbacks > 0
  /\ report.activity_called => report.entrypoint_found
  /\ report.execution_engine_ready => jniState = "called"
  /\ report.registration_outcome_state # "not_applicable" =>
       report.execution_engine_ready /\ ~report.activity_called

(* What the watchdog thread allows. *)
Gate ==
  /\ report.activity_called =>
       pc \in {"returned", "join", "open_report", "write_report", "flush"}
  /\ report.activity_called /\ pc \in {"open_report", "write_report", "flush"} =>
       entryCompleted /\ watchdog = "done"
  /\ watchdog \in {"sleeping", "expiring"} => pc \in {"in_entry", "returned", "join"}
  /\ pc = "join" => entryCompleted

(* How far the report file is. *)
Published ==
  /\ pc \notin {"write_report", "flush"} => file = Absent
  /\ pc = "write_report" => file = Truncated
  /\ pc = "flush" => file = report

RunInv == RunTypes /\ NoStaleTrap /\ Claims /\ Gate /\ Published

LEMMA InitRunInv == Init => RunInv
<1>1. SUFFICES ASSUME Init PROVE RunInv
  OBVIOUS
<1>2. report \in Reports
  BY <1>1 DEF Init, EmptyReport, Reports, ExitReasons, RegistrationOutcomes
<1>3. RunTypes
  <2>1. 0 \in 0 .. MaxCallbacks
    BY RunnerAssumption
  <2>2. life \in Lives
    BY <1>1 DEF Init, Lives
  <2>3. QED
    BY <1>1, <1>2, <2>1, <2>2 DEF Init, RunTypes, CompatStates
<1>4. Claims /\ Gate
  BY <1>1 DEF Init, EmptyReport, Claims, Gate
<1>5. QED
  BY <1>1, <1>3, <1>4 DEF Init, RunInv, NoStaleTrap, Published

LEMMA LoadStepsKeepRunInv ==
  ASSUME LoadInv, RunInv, LoadSteps PROVE RunInv'
<1>1. CASE DiscoverCandidates
  BY <1>1 DEF DiscoverCandidates, At, Return, raceVars, RunInv, RunTypes, NoStaleTrap,
              Claims, Gate, Published, Backs, Reports, ExitReasons
<1>2. CASE PreloadAndroidCompatibilityShims
  <2>1. compat' \in CompatStates
    BY <1>2, CompatStateType DEF PreloadAndroidCompatibilityShims, CompatStates
  <2>2. QED
    BY <1>2, <2>1 DEF PreloadAndroidCompatibilityShims, At, raceVars, RunInv, RunTypes,
                      NoStaleTrap, Claims, Gate, Published, Backs
<1>3. CASE SkipCandidate \/ LoadCandidate
  BY <1>3 DEF SkipCandidate, LoadCandidate, At, raceVars, RunInv, RunTypes,
              NoStaleTrap, Claims, Gate, Published, Backs
<1>4. CASE SelectLibraries
  <2>1. CASE loaded = <<>>
    BY <1>4, <2>1 DEF SelectLibraries, At, Return, raceVars, RunInv, RunTypes,
       NoStaleTrap, Claims, Gate, Published, Backs, Reports, ExitReasons
  <2>2. CASE loaded # <<>>
    <3>1. /\ report' \in Reports
          /\ report'.entrypoint_found = (EntrypointLibrary # NoLibrary)
          /\ report'.selected_library = IF EntrypointLibrary # NoLibrary
                                          THEN EntrypointLibrary ELSE JniLibrary
          /\ report'.activity_called = report.activity_called
          /\ report'.execution_engine_ready = report.execution_engine_ready
          /\ report'.registration_outcome_state = report.registration_outcome_state
      <4>1. EntrypointLibrary \in LibraryNames \cup {NoLibrary}
        BY EntrypointIsLast DEF LoadInv
      <4>2. JniLibrary \in LibraryNames \cup {NoLibrary}
        BY JniIsLast DEF LoadInv
      <4>3. QED
        BY <1>4, <2>2, <4>1, <4>2 DEF SelectLibraries, RunInv, RunTypes, Reports, Return
    <3>2. report'.entrypoint_found => Backs("ANativeActivity_onCreate")'
      BY <1>4, <3>1, EntrypointIsLast DEF SelectLibraries, Backs
    <3>3. JniLibrary # NoLibrary => Backs("JNI_OnLoad")'
      BY <1>4, <3>1, EntrypointIsLast, JniIsLast DEF SelectLibraries, Backs
    <3>4. QED
      BY <1>4, <2>2, <3>1, <3>2, <3>3
         DEF SelectLibraries, At, raceVars, RunInv, RunTypes, NoStaleTrap, Claims, Gate,
             Published
  <2>3. QED
    BY <2>1, <2>2
<1>5. QED
  BY <1>1, <1>2, <1>3, <1>4 DEF LoadSteps

LEMMA JniStepsKeepRunInv ==
  ASSUME LoadInv, RunInv, JniSteps \/ JniOnLoadFaults PROVE RunInv'
<1>1. CASE BeginJniOnLoad
  BY <1>1 DEF BeginJniOnLoad, BeginSignalTrap, At, raceVars, RunInv, RunTypes,
              NoStaleTrap, Claims, Gate, Published, Backs
<1>2. CASE JniOnLoadReturns \/ JniOnLoadFaults
  BY <1>2 DEF JniOnLoadReturns, JniOnLoadFaults, EndSignalTrap, At, raceVars, RunInv,
              RunTypes, NoStaleTrap, Claims, Gate, Published, Backs
<1>3. CASE SettleJni
  <2>1. /\ report' \in Reports
        /\ report'.entrypoint_found = report.entrypoint_found
        /\ report'.selected_library = report.selected_library
        /\ report'.activity_called = report.activity_called
        /\ report'.execution_engine_ready = (jniState = "called")
        /\ report'.registration_outcome_state = report.registration_outcome_state
    BY <1>3 DEF SettleJni, Return, RunInv, RunTypes, Reports, ExitReasons
  <2>2. /\ callbacks' \in 0 .. MaxCallbacks
        /\ pc = "settle"
        /\ pc' \in {"call_entry", "open_report", "call_callback"}
        /\ pc' = "call_entry" => report.entrypoint_found
        /\ pc' = "call_callback" => jniState = "called" /\ ~report.entrypoint_found
    BY <1>3 DEF SettleJni, Return, At, RunInv, RunTypes
  <2>3. QED
    BY <1>3, <2>1, <2>2
       DEF SettleJni, raceVars, RunInv, RunTypes, NoStaleTrap, Claims, Gate, Published,
           Backs
<1>4. QED
  BY <1>1, <1>2, <1>3 DEF JniSteps

LEMMA RecordCallbackFacts ==
  ASSUME RunInv, callbacks > 0, NEW outcome \in RegistrationOutcomes,
         RecordCallback(outcome)
  PROVE  /\ report' \in Reports
         /\ report'.entrypoint_found = report.entrypoint_found
         /\ report'.selected_library = report.selected_library
         /\ report'.activity_called = report.activity_called
         /\ report'.execution_engine_ready = report.execution_engine_ready
         /\ callbacks' \in 0 .. MaxCallbacks
         /\ pc' = "call_callback"
BY RunnerAssumption DEF RecordCallback, RunInv, RunTypes, Reports

LEMMA CallbackStepsKeepRunInv ==
  ASSUME LoadInv, RunInv, CallbackSteps \/ CallbackFaults PROVE RunInv'
<1>1. CASE CallbackSymbolMissing
  <2>1. PICK outcome \in RegistrationOutcomes : RecordCallback(outcome)
    BY <1>1 DEF CallbackSymbolMissing, RegistrationOutcomes
  <2>2. QED
    BY <1>1, <2>1, RecordCallbackFacts
       DEF CallbackSymbolMissing, WaitsForCallback, At, raceVars, RunInv, RunTypes,
           NoStaleTrap, Claims, Gate, Published, Backs
<1>2. CASE BeginCallback
  BY <1>2 DEF BeginCallback, WaitsForCallback, BeginSignalTrap, At, raceVars, RunInv,
              RunTypes, NoStaleTrap, Claims, Gate, Published, Backs
<1>3. CASE CallbackReturns \/ CallbackFaults
  <2>1. PICK outcome \in RegistrationOutcomes : RecordCallback(outcome)
    BY <1>3 DEF CallbackReturns, CallbackFaults, CallbackReturnStates,
                RegistrationOutcomes
  <2>2. callbacks > 0 /\ pc = "in_callback"
    BY <1>3 DEF CallbackReturns, CallbackFaults, At, RunInv, Claims
  <2>3. QED
    BY <1>3, <2>1, <2>2, RecordCallbackFacts
       DEF CallbackReturns, CallbackFaults, EndSignalTrap, raceVars, RunInv, RunTypes,
           NoStaleTrap, Claims, Gate, Published, Backs
<1>4. CASE FinishRegistration
  <2>1. PICK reason \in ExitReasons : Return([report EXCEPT !.exit_reason = reason])
    <3>1. ManagedDispatchReasons \cup PostJniBoundaries
            \cup {"jni_registration_callback_crashed"} \subseteq ExitReasons
      BY DEF ManagedDispatchReasons, PostJniBoundaries, ExitReasons
    <3>2. QED
      BY <1>4, <3>1 DEF FinishRegistration
  <2>2. /\ report' \in Reports /\ pc' = "open_report"
        /\ report'.entrypoint_found = report.entrypoint_found
        /\ report'.selected_library = report.selected_library
        /\ report'.activity_called = report.activity_called
        /\ report'.execution_engine_ready = report.execution_engine_ready
        /\ report'.registration_outcome_state = report.registration_outcome_state
    BY <2>1 DEF Return, RunInv, RunTypes, Reports
  <2>3. QED
    BY <1>4, <2>2 DEF FinishRegistration, At, raceVars, RunInv, RunTypes, NoStaleTrap,
                      Claims, Gate, Published, Backs
<1>5. QED
  BY <1>1, <1>2, <1>3, <1>4 DEF CallbackSteps

LEMMA ActivityStepsKeepRunInv ==
  ASSUME LoadInv, RunInv,
         CallEntrypoint \/ EntrypointReturns \/ SetEntryCompleted \/ JoinWatchdog
  PROVE  RunInv'
<1>1. CASE CallEntrypoint
  BY <1>1 DEF CallEntrypoint, StartWatchdog, At, RunInv, RunTypes, NoStaleTrap, Claims,
              Gate, Published, Backs
<1>2. CASE EntrypointReturns
  BY <1>2 DEF EntrypointReturns, At, raceVars, RunInv, RunTypes, NoStaleTrap, Claims,
              Gate, Published, Backs, Reports
<1>3. CASE SetEntryCompleted
  BY <1>3 DEF SetEntryCompleted, At, RunInv, RunTypes, NoStaleTrap, Claims, Gate,
              Published, Backs
<1>4. CASE JoinWatchdog
  BY <1>4 DEF JoinWatchdog, WatchdogJoinable, Return, At, raceVars, RunInv, RunTypes,
              NoStaleTrap, Claims, Gate, Published, Backs, Reports, ExitReasons
<1>5. QED
  BY <1>1, <1>2, <1>3, <1>4

(* The thread may wake long after the main thread set the atomic; once it has   *)
(* read FALSE the main thread cannot get past the join.                         *)
LEMMA WatchdogStepsKeepRunInv ==
  ASSUME LoadInv, RunInv, WatchdogSteps PROVE RunInv'
<1>1. CASE WatchdogWakes
  BY <1>1 DEF WatchdogWakes, mainVars, RunInv, RunTypes, NoStaleTrap, Claims, Gate,
              Published, Backs
<1>2. CASE WatchdogExits
  BY <1>2 DEF WatchdogExits, mainVars, raceVars, RunInv, RunTypes, Lives, ExitCodes,
              NoStaleTrap, Claims, Gate, Published, Backs
<1>3. QED
  BY <1>1, <1>2 DEF WatchdogSteps

LEMMA ReportStepsKeepRunInv ==
  ASSUME LoadInv, RunInv, ReportSteps PROVE RunInv'
<1>1. CASE OpenReport
  BY <1>1 DEF OpenReport, At, raceVars, RunInv, RunTypes, Lives, ExitCodes, NoStaleTrap,
              Claims, Gate, Published, Backs
<1>2. CASE WriteReport
  BY <1>2 DEF WriteReport, At, raceVars, RunInv, RunTypes, NoStaleTrap, Claims, Gate,
              Published, Backs
<1>3. CASE FlushAndExit
  <2>1. life' \in Lives
    BY <1>3 DEF FlushAndExit, RunInv, RunTypes, Reports, Lives, ExitCodes
  <2>2. QED
    BY <1>3, <2>1 DEF FlushAndExit, mainVars, raceVars, RunInv, RunTypes, NoStaleTrap,
                      Claims, Gate, Published, Backs
<1>4. QED
  BY <1>1, <1>2, <1>3 DEF ReportSteps

LEMMA OtherStepsKeepRunInv ==
  ASSUME LoadInv, RunInv,
         LibraryEndsProcess \/ KilledBySignal \/ Ended \/ UNCHANGED vars
  PROVE  RunInv'
<1>1. life' \in Lives
  BY DEF LibraryEndsProcess, KilledBySignal, Ended, vars, RunInv, RunTypes, Lives,
         ExitCodes
<1>2. QED
  BY <1>1 DEF LibraryEndsProcess, KilledBySignal, Ended, vars, mainVars, raceVars, RunInv,
              RunTypes, NoStaleTrap, Claims, Gate, Published, Backs

LEMMA NextRunInv == LoadInv /\ RunInv /\ [Next]_vars => RunInv'
BY LoadStepsKeepRunInv, JniStepsKeepRunInv, CallbackStepsKeepRunInv,
   ActivityStepsKeepRunInv, WatchdogStepsKeepRunInv, ReportStepsKeepRunInv,
   OtherStepsKeepRunInv
   DEF Next, Faults

(* What the report claims at each place of ExecuteNativeStub is backed by a     *)
(* loaded library, and by the watchdog's verdict once the activity was called,  *)
(* for every order of faults, callbacks and steps of the two threads.           *)
THEOREM RunIsSound == Spec => []RunInv
BY LoadLoopIsSound, InitRunInv, NextRunInv, PTL DEF Spec

--------------------------------------------------------------------------------
(* The results.                                                                 *)

(* ExecuteNativeStub's locals, its report and the file keep their types,        *)
(* whatever is staged and whatever it exports.                                  *)
THEOREM RunnerTypeOK == Spec => []TypeOK
<1>1. LoadInv /\ RunInv => TypeOK
  BY DEF LoadInv, RunInv, RunTypes, Published, TypeOK, Labels
<1>2. QED
  BY <1>1, LoadLoopIsSound, RunIsSound, PTL

(* A crash never jumps to a dead frame of an earlier call (EndSignalTrap on     *)
(* every path, signal_handler.cpp:67).                                          *)
THEOREM TrapsAreReset == Spec => []NoStaleTrap
BY RunIsSound, PTL DEF RunInv

LEMMA OnlyReportsAreReports == Absent \notin Reports /\ Truncated \notin Reports
BY DEF Absent, Truncated, Reports, ExitReasons

(* The join before `return report` holds back every report of a called activity *)
(* until the watchdog thread has let it pass, for every schedule of the two     *)
(* threads (native_execute_stub.cpp:1335-1339).                                 *)
THEOREM ReportsPassTheGate == Spec => []ReportPassedGate
<1>1. RunInv => ReportPassedGate
  BY OnlyReportsAreReports, Zenon DEF RunInv, RunTypes, Gate, Published, ReportPassedGate
<1>2. QED
  BY <1>1, RunIsSound, PTL

(* A published claim of success names a loaded library that exports the symbol  *)
(* the claim rests on, for every set of staged libraries.                       *)
THEOREM ReportsNameWhatRan == Spec => []ReportNamesWhatRan
<1>1. RunInv => ReportNamesWhatRan
  BY OnlyReportsAreReports
     DEF RunInv, RunTypes, Claims, Published, Backs, ReportNamesWhatRan
<1>2. QED
  BY <1>1, RunIsSound, PTL

(* What the parent process sees of any runner is a run of RunnerContract: at    *)
(* most one report, published in two steps, and nothing after the end.          *)
THEOREM RunnerImplementsContract == Spec => ImplementsContract
<1>1. Init => Contract!Init
  BY DEF Init, Contract!Init
<1>2. RunInv /\ [Next]_vars => [Contract!Next]_Contract!vars
  <2>1. SUFFICES ASSUME RunInv, [Next]_vars,
                        ~UNCHANGED <<file, life>>
                 PROVE  Contract!Next
    BY DEF Contract!vars
  <2>2. CASE OpenReport
    BY <2>1, <2>2 DEF OpenReport, At, RunInv, Published, Contract!Next, Contract!Open,
                Contract!End, ExitCodes
  <2>3. CASE WriteReport
    BY <2>1, <2>3 DEF WriteReport, At, RunInv, RunTypes, Published, Contract!Next,
                Contract!Publish
  <2>4. CASE FlushAndExit
    BY <2>1, <2>4 DEF FlushAndExit, At, RunInv, RunTypes, Reports, Contract!Next,
                Contract!End, ExitCodes
  <2>5. CASE WatchdogExits \/ LibraryEndsProcess \/ KilledBySignal
    BY <2>5 DEF WatchdogExits, LibraryEndsProcess, KilledBySignal, Contract!Next,
                Contract!End, ExitCodes
  <2>6. CASE LoadSteps \/ JniSteps \/ JniOnLoadFaults
    BY <2>1, <2>6 DEF LoadSteps, DiscoverCandidates, PreloadAndroidCompatibilityShims,
       SkipCandidate, LoadCandidate, SelectLibraries, JniSteps, BeginJniOnLoad,
       JniOnLoadReturns, SettleJni, JniOnLoadFaults
  <2>7. CASE CallbackSteps \/ CallbackFaults \/ CallEntrypoint \/ EntrypointReturns
             \/ SetEntryCompleted \/ JoinWatchdog \/ WatchdogWakes
    BY <2>1, <2>7 DEF CallbackSteps, CallbackSymbolMissing, BeginCallback,
       CallbackReturns, FinishRegistration, CallbackFaults, CallEntrypoint,
       EntrypointReturns, SetEntryCompleted, JoinWatchdog, WatchdogWakes
  <2>8. CASE Ended \/ UNCHANGED vars
    BY <2>1, <2>8 DEF Ended, vars
  <2>9. QED
    BY <2>1, <2>2, <2>3, <2>4, <2>5, <2>6, <2>7, <2>8
       DEF Next, WatchdogSteps, ReportSteps, Faults
<1>3. QED
  BY <1>1, <1>2, RunIsSound, PTL DEF Spec, ImplementsContract, Contract!Spec
================================================================================
