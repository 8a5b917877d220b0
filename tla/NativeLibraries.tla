---------------------------- MODULE NativeLibraries ----------------------------
(* Which staged .so files the native runner tries, in which order, and which   *)
(* of the loaded ones it takes the entry point and JNI_OnLoad from             *)
(* (src/native_execute_stub.cpp).  A library is named by its file name.        *)
EXTENDS Naturals, Sequences, FiniteSets

CONSTANTS
  LibraryNames,  \* the file names that may be staged under library_root
  JniNamed,      \* those whose name contains "jni"
  NameOrder      \* position of each name in the order of std::string <

ASSUME LibraryAssumption ==
  /\ IsFiniteSet(LibraryNames)
  /\ JniNamed \subseteq LibraryNames
  /\ NameOrder \in [LibraryNames -> Nat]
  /\ \A l, r \in LibraryNames : NameOrder[l] = NameOrder[r] => l = r

NoLibrary == "no_library"

(* What dlsym can find in a library that matters to the runner. *)
Symbols == {"ANativeActivity_onCreate", "JNI_OnLoad"}

DetermineLibraryOrderRank(name) ==
  CASE name = "libc++_shared.so"   -> 0
    [] name = "libmain.so"         -> 10
    [] name = "libcalculator.so"   -> 11
    [] name = "libapp.so"          -> 12
    [] name = "libjni_latinime.so" -> 13
    [] OTHER -> IF name \in JniNamed THEN 14 ELSE 20

IsEntrypointLibraryName(name) ==
  name \in {"libmain.so", "libcalculator.so", "libapp.so"}

IsPreferredJniLibraryName(name) ==
  name \in {"libjni_latinime.so", "libmain.so", "libcalculator.so", "libapp.so"}

LoadsBefore(l, r) ==
  \/ DetermineLibraryOrderRank(l) < DetermineLibraryOrderRank(r)
  \/ /\ DetermineLibraryOrderRank(l) = DetermineLibraryOrderRank(r)
     /\ NameOrder[l] < NameOrder[r]

(* The directory's .so files, sorted: a set with one element.  Stated as the   *)
(* set of all sorted arrangements so that no choice function is needed.        *)
BuildNativeLibraryCandidates(dir) ==
  {s \in [1..Cardinality(dir) -> dir] :
     \A i, j \in 1..Cardinality(dir) : i < j => LoadsBefore(s[i], s[j])}

(* Positions of the loaded libraries in which dlsym finds the symbol. *)
Exporting(loaded, exports, symbol) ==
  {i \in DOMAIN loaded : symbol \in exports[loaded[i]]}

Earliest(I) == CHOOSE i \in I : \A j \in I : i <= j
Latest(I)   == CHOOSE i \in I : \A j \in I : j <= i

(* The scan overwrites entrypoint with every library that has one and stops    *)
(* early at the first one with a well-known name.                              *)
SelectEntrypointLibrary(loaded, exports) ==
  LET with      == Exporting(loaded, exports, "ANativeActivity_onCreate")
      preferred == {i \in with : IsEntrypointLibraryName(loaded[i])}
  IN  IF with = {} THEN NoLibrary
      ELSE loaded[IF preferred # {} THEN Earliest(preferred) ELSE Latest(with)]

(* The first library with JNI_OnLoad, replaced once by a preferred one.        *)
SelectJniLibrary(loaded, exports) ==
  LET with      == Exporting(loaded, exports, "JNI_OnLoad")
      preferred == {i \in with : IsPreferredJniLibraryName(loaded[i])}
  IN  IF with = {} THEN NoLibrary
      ELSE loaded[Earliest(IF preferred # {} THEN preferred ELSE with)]

(* PreloadAndroidCompatibilityShims: every shim either is missing, fails to    *)
(* load or loads, in order; a later shim's state overwrites an earlier one's.  *)
ShimOutcomes == {"shim_missing", "preload_failed", "loaded"}

\* Mutant: no early return when the executable's directory is unknown.
CompatStateNoEarlyReturn(outcomes, normalized) ==
  IF outcomes = <<>> THEN "no_shims_preloaded" ELSE "preloaded"

CompatState(outcomes, normalized) ==
  LET bad  == {i \in DOMAIN outcomes : outcomes[i] # "loaded"}
      last == IF bad = {} THEN "not_attempted" ELSE outcomes[Latest(bad)]
      some == \E i \in DOMAIN outcomes : outcomes[i] = "loaded"
  IN  IF outcomes = <<>> THEN "executable_directory_unavailable"
      ELSE IF some /\ last # "preload_failed"
        THEN IF normalized THEN "preloaded_and_version_normalized" ELSE "preloaded"
      ELSE last
================================================================================
