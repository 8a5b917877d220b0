---------------------------- MODULE SelfHealingProofs ----------------------------
(* What a launch promises after any number of launches, crashes, damages and      *)
(* faults of any plan (SelfHealing).                                             *)
EXTENDS SelfHealing, TLAPS

Actions == {RepairAction[step] : step \in DOMAIN RepairAction} \cup {"no_action"}
Entries == [action : Actions, result : Results]

Types ==
  /\ TypeOK /\ plan \in Plans
  /\ journal \in Seq(Entries)
  /\ verdict = Verdict(verdict.initial, verdict.final)
  /\ \A c \in Faultable : fault[c] = "ok" \/ <<c, fault[c]>> \in FaultPoints

(* Where a launch can be, and what it has decided by then. *)
Places ==
  /\ phase \in {"idle", "staging", "settled"} => at = "nowhere"
  /\ phase = "launch"  => at \in (Files \cap Requested) \cup {"finalize"}
  /\ phase = "refresh" => at \in (Files \cap Requested) \cup {"proofs", "finalize"}
  /\ phase = "heal" => at \in HealSteps
  /\ phase \in {"heal", "refresh"} => SelfHeal(options)
  /\ phase \in {"staging", "launch"} => verdict = NoVerdict
  /\ phase \in {"launch", "heal", "refresh"} => \A c \in Contracts \ Requested : ready[c]

(* The contract bridges that come before a place. *)
FilesBefore(place) ==
  IF place = "process" THEN {"activity_manager"}
  ELSE IF place = "window" THEN {"activity_manager", "process"}
  ELSE IF place = "runtime" THEN {"activity_manager", "process", "window"}
  ELSE IF place = "java" THEN {"activity_manager", "process", "window", "runtime"}
  ELSE IF place = "finalize" THEN Files
  ELSE {}

(* The run of the bridges whose answers the report ends with. *)
LastRun == (phase = "launch" /\ ~SelfHeal(options)) \/ (phase = "refresh" /\ at # "proofs")

FilesTellSoFar ==
  LastRun => \A f \in FilesBefore(at) \cap Requested :
               disk[f].kind = "json" /\ disk[f].reason = reason[f]

(* A proof whose answer will be the same when it is run again. *)
NeededByActivity == {"intent", "surface", "lifecycle", "dex", "binder"}
Lasts(c) ==
  IF c = "activity" THEN Launched /\ \A d \in NeededByActivity : WorksLater(d)
  ELSE WorksLater(c)

ReadyLasts ==
  /\ phase \in {"launch", "heal"} =>
       \A c \in Proofs \cap Requested : ready[c] => Lasts(c)
  /\ phase = "heal" => \A c \in Proofs \cap Requested : work[c] => Lasts(c)

VouchedLasts ==
  phase = "refresh" /\ SelfHealingVouches => Launched /\ \A c \in Proofs \cap Requested : Lasts(c)

Promising ==
  /\ Launched
  /\ IF SelfHeal(options) THEN SelfHealingVouches \/ \A c \in Faultable : fault[c] # "permanent"
     ELSE \A c \in Faultable : fault[c] = "ok"
ReadySoFar ==
  LastRun /\ Promising => \A c \in Proofs \cup FilesBefore(at) : ready[c]

(* What becomes of a damaged contract a self-healing launch has found. *)
Spared == SelfHeal(options) /\ fault["storage"] # "simulated"
Rebuilt(f) == \E i \in DOMAIN journal : journal[i].action = RebuildOf(f)
EarlySteps == {"permission", "storage", "asset", "resource", "surface", "lifecycle",
               "binder", "dex", "intent", "activity_manager"}
Awaits(f) ==
  IF f \in {"activity_manager", "process"}
    THEN at = "process" \/ (~work[f] /\ at \in EarlySteps)
  ELSE IF f = "window" THEN ~work[f] /\ at \in EarlySteps \cup {"process", "window"}
  ELSE ~work[f] /\ at \in EarlySteps \cup {"process", "window", "runtime"}

DamageIsTraced ==
  /\ phase = "staging" => \A f \in found : Damaged(disk[f])
  /\ phase = "launch" /\ Spared =>
       \A f \in found : Damaged(disk[f]) /\ (f \in FilesBefore(at) \cap Requested => ~ready[f])
  /\ phase = "heal" /\ Spared => \A f \in found \ {"java"} : Rebuilt(f) \/ Awaits(f)
  /\ phase = "refresh" /\ Spared => \A f \in found \ {"java"} : Rebuilt(f)

Promises == VerdictIsHonest /\ HealableIsHealed /\ FilesTellTheReport /\ NoSilentHealing

IInv ==
  Types /\ Places /\ FilesTellSoFar /\ ReadyLasts /\ VouchedLasts /\ ReadySoFar
  /\ DamageIsTraced /\ Promises
--------------------------------------------------------------------------------
(* What is requested together.                                                  *)

LEMMA OptionsType ==
  ASSUME Types
  PROVE  options \subseteq ProofOptions
<1>1. plan \in Plans /\ options \in plan.requests \cup {{}}
  BY DEF Types, TypeOK
<1>2. plan.requests \subseteq SUBSET ProofOptions
  BY <1>1, SelfHealingAssumption
<1>3. QED
  BY <1>1, <1>2

(* Every contract bridge rests on the ones before it, and what rests on an       *)
(* activity on the proofs the activity reads.                                    *)
LEMMA RequestedChain ==
  ASSUME Types
  PROVE  /\ "java" \in Requested => "runtime" \in Requested
         /\ "runtime" \in Requested <=> "window" \in Requested
         /\ "window" \in Requested => "process" \in Requested
         /\ "process" \in Requested <=> "activity_manager" \in Requested
         /\ "process" \in Requested => {"activity", "storage", "permission"} \subseteq Requested
         /\ "activity" \in Requested => NeededByActivity \subseteq Requested
         /\ SelfHeal(options) => "runtime" \in Requested
<1>1. \A c : c \in options => c \in ProofOptions
  BY OptionsType
<1>2. \A c : c \in Requested <=> c \in Contracts /\ Wanted(c, options)
  BY DEF Requested
<1> DEFINE o == options
<1>3. o = options
  OBVIOUS
<1>4. /\ "activity_manager" \notin o /\ "intent" \notin o /\ "binder" \notin o
  BY <1>1 DEF ProofOptions
<1>5. /\ Wanted("java", o) <=> JavaWanted(o)
      /\ Wanted("runtime", o) <=> RuntimeWanted(o)
      /\ Wanted("window", o) <=> RuntimeWanted(o)
      /\ Wanted("process", o) <=> ProcessWanted(o)
      /\ Wanted("activity_manager", o) <=> ProcessWanted(o)
      /\ Wanted("activity", o) <=> ActivityWanted(o)
  BY <1>4 DEF Wanted, JavaWanted, RuntimeWanted, ProcessWanted, ActivityWanted
<1>6. /\ JavaWanted(o) => RuntimeWanted(o)
      /\ RuntimeWanted(o) => ProcessWanted(o)
      /\ ProcessWanted(o) => ActivityWanted(o)
      /\ SelfHeal(o) => RuntimeWanted(o)
  BY DEF JavaWanted, RuntimeWanted, ProcessWanted, ActivityWanted, SelfHeal
<1>7. /\ ProcessWanted(o) => Wanted("storage", o) /\ Wanted("permission", o)
      /\ ActivityWanted(o) => \A c \in NeededByActivity : Wanted(c, o)
  BY DEF Wanted, NeededByActivity
<1>8. Files \cup NeededByActivity \cup {"activity", "storage", "permission"} \subseteq Contracts
  BY DEF Files, Contracts, Proofs, NeededByActivity
<1>9. {"java", "runtime", "window", "process", "activity_manager"} \subseteq Files
  BY DEF Files
<1> HIDE DEF o
<1>10. QED
  BY <1>2, <1>3, <1>5, <1>6, <1>7, <1>8, <1>9

(* The bridges run in one order, without gaps.                                  *)
LEMMA FirstFileIsFirst ==
  ASSUME Types
  PROVE  /\ FirstFile \in (Files \cap Requested) \cup {"finalize"}
         /\ FilesBefore(FirstFile) \cap Requested = {}
<1>1. Requested \subseteq Contracts
  BY DEF Requested
<1>2. CASE "process" \in Requested
  <2>1. FirstFile = "activity_manager" /\ "activity_manager" \in Files \cap Requested
    BY <1>2, RequestedChain DEF FirstFile, Files
  <2>2. QED
    BY <2>1 DEF FilesBefore
<1>3. CASE "process" \notin Requested
  <2>1. FirstFile = "finalize"
    BY <1>3 DEF FirstFile
  <2>2. Files \cap Requested = {}
    BY <1>3, RequestedChain DEF Files
  <2>3. QED
    BY <2>1, <2>2 DEF FilesBefore
<1>4. QED
  BY <1>2, <1>3

LEMMA FileAfterIsNext ==
  ASSUME Types, NEW f \in Files \cap Requested
  PROVE  /\ FileAfter(f) \in (Files \cap Requested) \cup {"finalize"}
         /\ FilesBefore(FileAfter(f)) \cap Requested
              = (FilesBefore(f) \cup {f}) \cap Requested
<1> DEFINE A == "activity_manager" \in Requested
           P == "process" \in Requested
           W == "window" \in Requested
           R == "runtime" \in Requested
           J == "java" \in Requested
<1>1. (J => R) /\ (R <=> W) /\ (W => P) /\ (P <=> A)
  BY RequestedChain
<1>2. f \in {"activity_manager", "process", "window", "runtime", "java"}
  BY DEF Files
<1>3. CASE f = "activity_manager"
  <2>1. FileAfter(f) = "process" /\ P
    BY <1>1, <1>3 DEF FileAfter
  <2>2. QED
    BY <1>3, <2>1 DEF FilesBefore, Files
<1>4. CASE f = "process"
  <2>1. FileAfter(f) = IF W THEN "window" ELSE "finalize"
    BY <1>4 DEF FileAfter
  <2>2. QED
    BY <1>1, <1>4, <2>1 DEF FilesBefore, Files
<1>5. CASE f = "window"
  <2>1. FileAfter(f) = "runtime" /\ R
    BY <1>1, <1>5 DEF FileAfter
  <2>2. QED
    BY <1>5, <2>1 DEF FilesBefore, Files
<1>6. CASE f = "runtime"
  <2>1. FileAfter(f) = IF J THEN "java" ELSE "finalize"
    BY <1>6 DEF FileAfter
  <2>2. QED
    BY <1>1, <1>6, <2>1 DEF FilesBefore, Files
<1>7. CASE f = "java"
  <2>1. FileAfter(f) = "finalize"
    BY <1>7 DEF FileAfter
  <2>2. QED
    BY <1>7, <2>1 DEF FilesBefore, Files
<1>8. QED
  BY <1>2, <1>3, <1>4, <1>5, <1>6, <1>7

(* A contract is built from the answers of the ones before it.                  *)
LEMMA NothingBeforeItself == \A f \in Files : f \notin FilesBefore(f)
  BY DEF Files, FilesBefore

--------------------------------------------------------------------------------
(* The ladders of blocking reasons.                                             *)

LEMMA ReasonsExist ==
  /\ Outcomes \subseteq Reasons /\ UpstreamReasons \subseteq Reasons
  /\ {"none", "persisted_state_invalid", "art_runtime_unavailable",
      "runtime_bootstrap_failed", "no_launcher_activity",
      "simulated_intent_resolution_failure", "intent_resolution_not_ready",
      "native_launch_not_ready", "dex_not_ready", "storage_not_ready",
      "permission_not_ready", "runtime_bridge_not_ready"} \subseteq Reasons
  BY DEF Reasons

LEMMA ActivityReasonType ==
  ASSUME NEW h, NEW launched
  PROVE  /\ ActivityReason(h, launched, "no_launcher_activity") \in Reasons
         /\ ActivityReason(h, launched, "no_launcher_activity") = "none"
              <=> launched /\ \A c \in NeededByActivity : h[c]
  BY DEF ActivityReason, Reasons, UpstreamReasons, NeededByActivity

(* Whatever healths a bridge is given, it names a reason.                       *)
LEMMA ContractReasonType ==
  ASSUME Types, NEW f \in Files, NEW h, NEW am \in Reasons
  PROVE  ContractReason(f, h, am) \in Reasons
<1>1. outcome \in Outcomes /\ reason["intent"] \in Reasons /\ reason["activity"] \in Reasons
  BY DEF Types, TypeOK
<1>2. ActivityManagerReason(h) \in Reasons
  BY <1>1, ReasonsExist DEF ActivityManagerReason, UpstreamReasons, Reasons
<1>3. WindowReason(h) \in Reasons
  BY <1>1, ReasonsExist DEF WindowReason, UpstreamReasons, Reasons
<1>4. RuntimeReason(h) \in Reasons
  BY <1>1, ReasonsExist DEF RuntimeReason, UpstreamReasons, Reasons
<1>5. JavaReasonOverruled(h) \in Reasons
  BY ReasonsExist DEF JavaReasonOverruled, JavaReason, UpstreamReasons, Reasons
<1>6. "none" \in Reasons
  BY DEF Reasons
<1>7. QED
  BY <1>2, <1>3, <1>4, <1>5, <1>6 DEF ContractReason

(* A bridge has nothing to blame when the launch ran, every proof and every      *)
(* contract before its own is ready, and nothing fails in the ART runtime.      *)
LEMMA NothingToBlame ==
  ASSUME Launched, NEW f \in Files, NEW h, NEW am,
         \A c \in Proofs \cup FilesBefore(f) : h[c],
         f = "runtime" => ~BootstrapFails,
         f = "java" => SelfHealingVouches \/ ArtAvailable
  PROVE  ContractOk(f, ContractReason(f, h, am))
<1>1. \A c \in Proofs : h[c]
  OBVIOUS
<1>2. /\ h["storage"] /\ h["permission"] /\ h["surface"] /\ h["lifecycle"]
      /\ h["binder"] /\ h["dex"] /\ h["intent"] /\ h["activity"]
  BY <1>1 DEF Proofs
<1>3. Launched /\ outcome # "post_dispatch_blocked"
  BY DEF Launched
<1>4. CASE f = "activity_manager"
  BY <1>2, <1>3, <1>4 DEF ContractOk, ContractReason, ActivityManagerReason
<1>5. CASE f = "process"
  <2>1. h["activity_manager"]
    BY <1>5 DEF FilesBefore
  <2>2. QED
    BY <1>5, <2>1 DEF ContractOk, ContractReason
<1>6. CASE f = "window"
  <2>1. h["activity_manager"] /\ h["process"]
    BY <1>6 DEF FilesBefore
  <2>2. QED
    BY <1>2, <1>3, <1>6, <2>1 DEF ContractOk, ContractReason, WindowReason
<1>7. CASE f = "runtime"
  <2>1. h["activity_manager"] /\ h["process"] /\ h["window"]
    BY <1>7 DEF FilesBefore
  <2>2. RuntimeReason(h) \in {"none", "art_runtime_unavailable"}
    BY <1>2, <1>3, <1>7, <2>1 DEF RuntimeReason
  <2>3. QED
    BY <1>7, <2>2 DEF ContractOk, ContractReason, UpstreamReasons
<1>8. CASE f = "java"
  <2>1. h["runtime"] /\ h["process"] /\ h["window"]
    BY <1>8 DEF FilesBefore
  <2>2. JavaReasonOverruled(h) = "none"
    BY <1>2, <1>3, <1>8, <2>1 DEF JavaReasonOverruled, JavaReason
  <2>3. QED
    BY <1>8, <2>2 DEF ContractOk, ContractReason
<1>9. QED
  BY <1>4, <1>5, <1>6, <1>7, <1>8 DEF Files

(* What a bridge leaves behind: the session told by the report when it may       *)
(* repair, and a damaged file untouched when it may not.                         *)
LEMMA BuiltContract ==
  ASSUME Types, NEW f \in Files
  PROVE  /\ Built(f).ready \in BOOLEAN /\ Built(f).reason \in Reasons
         /\ Built(f).content \in ContentType
         /\ AllowPersistedContractRepair =>
              /\ Built(f).content.kind = "json"
              /\ Built(f).content.reason = Built(f).reason
              /\ Built(f).reason = ContractReason(f, HealthsGiven, ActivityManagerAnswer)
              /\ Built(f).ready = ContractOk(f, Built(f).reason)
         /\ ~AllowPersistedContractRepair /\ Damaged(disk[f]) =>
              ~Built(f).ready /\ Built(f).content = disk[f]
<1> DEFINE why == ContractReason(f, HealthsGiven, ActivityManagerAnswer)
<1>1. disk[f] \in ContentType
  BY DEF Types, TypeOK
<1>2. ActivityManagerAnswer \in Reasons
  <2>1. reason["activity_manager"] \in Reasons
    BY DEF Types, TypeOK, Files
  <2>2. ContractReason("activity_manager", work, "none") \in Reasons
    BY ContractReasonType, ReasonsExist DEF Files
  <2>3. ActivityManagerReason(work) \in Reasons
    BY <2>2 DEF ContractReason
  <2>4. QED
    BY <2>1, <2>3 DEF ActivityManagerAnswer
<1>3. why \in Reasons
  BY <1>2, ContractReasonType
<1>4. ContractOk(f, why) \in BOOLEAN
  BY DEF ContractOk
<1>5. SavedAs(f, why) \in ContentType /\ SavedAs(f, why).kind = "json"
      /\ SavedAs(f, why).reason = why
  BY <1>3 DEF SavedAs, Content, ContentType, Kinds, RendersContractReady
<1>6. "persisted_state_invalid" \in Reasons
  BY DEF Reasons
<1> DEFINE bad == PersistedStateInvalid(f, disk[f], why, RootSeen(f))
           kept == [ready |-> FALSE, reason |-> "persisted_state_invalid", content |-> disk[f]]
           saved == [ready |-> ContractOk(f, why), reason |-> why, content |-> SavedAs(f, why)]
<1>7. Built(f) = IF bad /\ ~AllowPersistedContractRepair THEN kept ELSE saved
  BY DEF Built, BuildReport
<1>8. Damaged(disk[f]) => bad
  BY DEF Damaged, PersistedStateInvalid, ValidateExistingContract
<1>9. /\ kept.ready = FALSE /\ kept.reason = "persisted_state_invalid"
      /\ kept.content = disk[f]
      /\ saved.ready = ContractOk(f, why) /\ saved.reason = why
      /\ saved.content = SavedAs(f, why)
  OBVIOUS
<1> HIDE DEF bad, kept, saved, why
<1>10. CASE bad /\ ~AllowPersistedContractRepair
  BY <1>1, <1>6, <1>7, <1>9, <1>10
<1>11. CASE ~(bad /\ ~AllowPersistedContractRepair)
  BY <1>3, <1>4, <1>5, <1>7, <1>8, <1>9, <1>11 DEF why
<1>12. QED
  BY <1>10, <1>11

--------------------------------------------------------------------------------
(* The recovery journal only grows, and no entry loses its place in it.         *)

LEMMA FaultPointFacts ==
  ASSUME NEW p \in FaultPoints
  PROVE  /\ p = <<p[1], p[2]>> /\ p[1] \in Faultable
         /\ p[2] \in FaultKinds /\ p[2] # "ok"
         /\ p[1] = "art" => p[2] = "permanent"
<1>1. p[1] \in Faultable
  BY DEF Faultable
<1>2. QED
  BY <1>1 DEF FaultPoints, FaultKinds

LEMMA EntryType ==
  ASSUME NEW step \in DOMAIN RepairAction, NEW result \in Results
  PROVE  Entry(RepairAction[step], result) \in Entries
  BY DEF Entry, Entries, Actions

LEMMA AppendKeeps ==
  ASSUME Types, NEW e \in Entries, journal' = Append(journal, e)
  PROVE  /\ journal' \in Seq(Entries)
         /\ \A f : Rebuilt(f) \/ RebuildOf(f) = e.action => Rebuilt(f)'
<1>1. journal \in Seq(Entries)
  BY DEF Types
<1>2. journal' \in Seq(Entries)
  BY <1>1
<1>3. \A i \in DOMAIN journal : i \in DOMAIN journal' /\ journal'[i] = journal[i]
  BY <1>1
<1>4. \E i \in DOMAIN journal' : journal'[i] = e
  <2>1. Len(journal) + 1 \in DOMAIN journal' /\ journal'[Len(journal) + 1] = e
    BY <1>1
  <2>2. QED
    BY <2>1
<1>5. QED
  BY <1>2, <1>3, <1>4 DEF Rebuilt

LEMMA JournalResults ==
  ASSUME NEW s \in Seq(Entries)
  PROVE  \A i \in DOMAIN s : s[i].result \in Results
<1>1. \A i \in DOMAIN s : s[i] \in Entries
  OBVIOUS
<1>2. QED
  BY <1>1 DEF Entries

LEMMA SkippedType ==
  ASSUME NEW step \in DOMAIN RepairAction
  PROVE  /\ SkippedIfNeeded(step) \in Seq(Entries)
         /\ Needed(step) =>
              \E i \in DOMAIN SkippedIfNeeded(step) :
                SkippedIfNeeded(step)[i].action = RepairAction[step]
<1> DEFINE e == Entry(RepairAction[step], "skipped_upstream_blocker")
<1>1. e \in Entries
  BY EntryType DEF Results
<1>2. e.action = RepairAction[step]
  BY DEF Entry
<1>3. SkippedIfNeeded(step) = IF Needed(step) THEN <<e>> ELSE <<>>
  BY DEF SkippedIfNeeded
<1> HIDE DEF e
<1>4. CASE Needed(step)
  <2>1. 1 \in DOMAIN <<e>> /\ <<e>>[1] = e /\ <<e>> \in Seq(Entries)
    BY <1>1
  <2>2. QED
    BY <1>2, <1>3, <1>4, <2>1
<1>5. CASE ~Needed(step)
  BY <1>3, <1>5
<1>6. QED
  BY <1>4, <1>5

(* Joining two journals keeps the entries of both.                              *)
LEMMA JoinKeeps ==
  ASSUME NEW S, NEW s \in Seq(S), NEW t \in Seq(S)
  PROVE  /\ s \o t \in Seq(S)
         /\ \A i \in DOMAIN s : \E k \in DOMAIN (s \o t) : (s \o t)[k] = s[i]
         /\ \A i \in DOMAIN t : \E k \in DOMAIN (s \o t) : (s \o t)[k] = t[i]
<1>1. s \o t \in Seq(S)
  OBVIOUS
<1>2. \A i \in DOMAIN s : i \in DOMAIN (s \o t) /\ (s \o t)[i] = s[i]
  OBVIOUS
<1>3. ASSUME NEW i \in DOMAIN t
      PROVE  Len(s) + i \in DOMAIN (s \o t) /\ (s \o t)[Len(s) + i] = t[i]
  OBVIOUS
<1>4. QED
  BY <1>1, <1>2, <1>3

(* The watchdog of a blocked launch journals every repair it would have tried.   *)
LEMMA GateJournals ==
  ASSUME Types, GateLaunchDependentRepairs
  PROVE  /\ journal' \in Seq(Entries)
         /\ \A f : Rebuilt(f) => Rebuilt(f)'
         /\ \A f \in Files \ {"java"} : ~work[f] => Rebuilt(f)'
<1> DEFINE Has(s, a) == \E i \in DOMAIN s : s[i].action = a
           Skips(step) == SkippedIfNeeded(step)
           j1 == journal \o Skips("surface")
           j2 == j1 \o Skips("lifecycle")
           j3 == j2 \o Skips("binder")
           j4 == j3 \o Skips("dex")
           j5 == j4 \o Skips("intent")
           j6 == j5 \o Skips("process")
           j7 == j6 \o Skips("window")
           j8 == j7 \o Skips("runtime")
<1>1. journal' = j8
  BY Zenon DEF GateLaunchDependentRepairs
<1>2. journal \in Seq(Entries)
  BY DEF Types
<1>3. \A step \in DOMAIN RepairAction :
        Skips(step) \in Seq(Entries) /\ (Needed(step) => Has(Skips(step), RepairAction[step]))
  BY SkippedType
<1>4. \A s, t \in Seq(Entries) :
        /\ s \o t \in Seq(Entries)
        /\ \A a : Has(s, a) \/ Has(t, a) => Has(s \o t, a)
  <2>1. TAKE s, t \in Seq(Entries)
  <2>2. /\ \A i \in DOMAIN s : \E k \in DOMAIN (s \o t) : (s \o t)[k] = s[i]
        /\ \A i \in DOMAIN t : \E k \in DOMAIN (s \o t) : (s \o t)[k] = t[i]
    BY JoinKeeps
  <2>3. \A a : Has(s, a) \/ Has(t, a) => Has(s \o t, a)
    BY <2>2
  <2>4. s \o t \in Seq(Entries)
    BY JoinKeeps
  <2>5. QED
    BY <2>3, <2>4
<1>5. {"surface", "lifecycle", "binder", "dex", "intent", "process", "window", "runtime"}
        \subseteq DOMAIN RepairAction
  BY DEF RepairAction
<1> HIDE DEF Has, Skips
<1>6. /\ j1 \in Seq(Entries) /\ j2 \in Seq(Entries) /\ j3 \in Seq(Entries)
      /\ j4 \in Seq(Entries) /\ j5 \in Seq(Entries)
  BY <1>2, <1>3, <1>4, <1>5
<1> HIDE DEF j5
<1>7. j6 \in Seq(Entries) /\ j7 \in Seq(Entries) /\ j8 \in Seq(Entries)
  BY <1>3, <1>4, <1>5, <1>6
<1>8. \A a : Has(journal, a) => Has(j5, a)
  BY <1>2, <1>3, <1>4, <1>5, <1>6 DEF j5
<1>9. /\ \A a : Has(j5, a) => Has(j8, a)
      /\ Needed("process") => Has(j8, RepairAction["process"])
      /\ Needed("window") => Has(j8, RepairAction["window"])
      /\ Needed("runtime") => Has(j8, RepairAction["runtime"])
  BY <1>3, <1>4, <1>5, <1>6, <1>7
<1>10. \A f : /\ Rebuilt(f) <=> Has(journal, RebuildOf(f))
              /\ Rebuilt(f)' <=> Has(j8, RebuildOf(f))
  BY <1>1 DEF Rebuilt, Has
<1>11. ASSUME NEW f \in Files \ {"java"}, ~work[f]
       PROVE  Has(j8, RebuildOf(f))
  <2>1. f \in {"activity_manager", "process", "window", "runtime"}
    BY DEF Files
  <2>2. Needed(IF f = "activity_manager" THEN "process" ELSE f)
    BY <1>11, <2>1 DEF Needed, Contracts, Files
  <2>3. QED
    BY <1>9, <2>1, <2>2 DEF RebuildOf
<1> HIDE DEF j8
<1>12. QED
  BY <1>1, <1>7, <1>8, <1>9, <1>10, <1>11

--------------------------------------------------------------------------------
(* Every step keeps the promises.                                               *)

LEMMA InitKeeps ==
  ASSUME Init
  PROVE  IInv
<1>1. TypeOK
  <2>1. disk \in [Files -> ContentType]
    BY DEF Init, Missing, Content, ContentType, Kinds, Reasons
  <2>2. fault \in [Faultable -> FaultKinds]
    BY DEF Init, NoFault, FaultKinds
  <2>3. reason \in [Files \cup {"intent", "activity"} -> Reasons]
    BY DEF Init, NoReasons, Reasons
  <2>4. plan.launches \in Nat /\ plan.upsets \in Nat
    BY SelfHealingAssumption DEF Init
  <2>5. \A i \in DOMAIN journal : journal[i].result \in Results
    BY DEF Init
  <2>6. verdict.initial \in Healths /\ verdict.final \in Healths
    BY DEF Init, NoVerdict, Verdict, Healths
  <2>7. /\ dirs \subseteq Roots /\ phase \in Phases /\ at \in Steps
        /\ options \in plan.requests \cup {{}} /\ outcome \in Outcomes
        /\ ready \in [Contracts -> BOOLEAN] /\ work \in [Contracts -> BOOLEAN]
        /\ rootSeen \in BOOLEAN /\ recoverable \in BOOLEAN /\ launchHealth \in BOOLEAN
        /\ found \subseteq Files
    BY DEF Init, Phases, Steps, Outcomes
  <2>8. launches \in 0..plan.launches /\ upsets \in 0..plan.upsets
    BY <2>4 DEF Init
  <2>9. QED
    BY <2>1, <2>2, <2>3, <2>5, <2>6, <2>7, <2>8 DEF TypeOK
<1>2. Types
  <2>1. journal \in Seq(Entries)
    BY DEF Init
  <2>2. verdict = Verdict(verdict.initial, verdict.final)
    BY DEF Init, NoVerdict, Verdict
  <2>3. \A c \in Faultable : fault[c] = "ok"
    BY DEF Init, NoFault
  <2>4. QED
    BY <1>1, <2>1, <2>2, <2>3 DEF Init, Types
<1>3. phase = "idle" /\ at = "nowhere"
  BY DEF Init
<1>4. Places /\ ~LastRun /\ ReadyLasts /\ VouchedLasts /\ DamageIsTraced
  BY <1>3 DEF Places, LastRun, ReadyLasts, VouchedLasts, DamageIsTraced
<1>5. Promises
  BY <1>3 DEF Promises, VerdictIsHonest, HealableIsHealed, FilesTellTheReport,
              NoSilentHealing, Settled
<1>6. QED
  BY <1>2, <1>4, <1>5 DEF IInv, FilesTellSoFar, ReadySoFar

(* Before a launch and between two there is nothing to keep but the types.      *)
LEMMA NothingYet ==
  ASSUME Types', phase' = "idle", at' = "nowhere"
  PROVE  IInv'
<1>1. Places' /\ ~LastRun' /\ ReadyLasts' /\ VouchedLasts' /\ DamageIsTraced'
  BY DEF Places, LastRun, ReadyLasts, VouchedLasts, DamageIsTraced
<1>2. Promises'
  BY DEF Promises, VerdictIsHonest, HealableIsHealed, FilesTellTheReport,
         NoSilentHealing, Settled
<1>3. QED
  BY <1>1, <1>2 DEF IInv, FilesTellSoFar, ReadySoFar

LEMMA NotSettledYet ==
  ASSUME phase' # "settled"
  PROVE  Promises'
  BY DEF Promises, VerdictIsHonest, HealableIsHealed, FilesTellTheReport,
         NoSilentHealing, Settled

(* What a launch starts with is well-typed.                                     *)
LEMMA ForgetType ==
  ASSUME Forget
  PROVE  /\ fault' \in [Faultable -> FaultKinds]
         /\ \A c \in Faultable : fault'[c] = "ok"
         /\ outcome' \in Outcomes
         /\ ready' \in [Contracts -> BOOLEAN] /\ work' \in [Contracts -> BOOLEAN]
         /\ reason' \in [Files \cup {"intent", "activity"} -> Reasons]
         /\ rootSeen' \in BOOLEAN /\ recoverable' \in BOOLEAN /\ launchHealth' \in BOOLEAN
         /\ journal' \in Seq(Entries)
         /\ \A i \in DOMAIN journal' : journal'[i].result \in Results
         /\ verdict' = NoVerdict
         /\ verdict.initial' \in Healths /\ verdict.final' \in Healths
         /\ verdict' = Verdict(verdict.initial, verdict.final)'
<1>1. /\ fault' \in [Faultable -> FaultKinds]
      /\ \A c \in Faultable : fault'[c] = "ok"
  BY DEF Forget, NoFault, FaultKinds
<1>2. /\ outcome' \in Outcomes
      /\ ready' \in [Contracts -> BOOLEAN] /\ work' \in [Contracts -> BOOLEAN]
      /\ rootSeen' \in BOOLEAN /\ recoverable' \in BOOLEAN /\ launchHealth' \in BOOLEAN
  BY DEF Forget, Outcomes
<1>3. reason' \in [Files \cup {"intent", "activity"} -> Reasons]
  BY DEF Forget, NoReasons, Reasons
<1>4. journal' \in Seq(Entries) /\ \A i \in DOMAIN journal' : journal'[i].result \in Results
  BY DEF Forget
<1>5. /\ verdict' = NoVerdict
      /\ verdict.initial' \in Healths /\ verdict.final' \in Healths
      /\ verdict' = Verdict(verdict.initial, verdict.final)'
  BY DEF Forget, NoVerdict, Verdict, Healths
<1>6. QED
  BY <1>1, <1>2, <1>3, <1>4, <1>5

LEMMA GoIdleKeeps ==
  ASSUME Types, GoIdle, plan' = plan, disk' \in [Files -> ContentType],
         dirs' \subseteq Roots, launches' = launches, upsets' \in 0..plan.upsets
  PROVE  IInv'
<1>1. /\ phase' = "idle" /\ at' = "nowhere" /\ options' = {} /\ found' = {} /\ Forget
  BY DEF GoIdle
<1>2. plan \in Plans /\ launches \in 0..plan.launches
  BY DEF Types, TypeOK
<1>3. TypeOK'
  BY <1>1, <1>2, ForgetType DEF TypeOK, Phases, Steps
<1>4. Types'
  BY <1>1, <1>2, <1>3, ForgetType DEF Types
<1>5. QED
  BY <1>1, <1>4, NothingYet

LEMMA CrashKeeps ==
  ASSUME Types, Crash
  PROVE  IInv'
<1>1. /\ GoIdle /\ plan' = plan /\ disk' = disk /\ dirs' = dirs /\ launches' = launches
      /\ upsets < plan.upsets /\ upsets' = upsets + 1
  BY DEF Crash
<1>2. /\ plan \in Plans /\ disk \in [Files -> ContentType] /\ dirs \subseteq Roots
      /\ upsets \in 0..plan.upsets
  BY DEF Types, TypeOK
<1>3. plan.upsets \in Nat
  BY <1>2, SelfHealingAssumption
<1>4. upsets' \in 0..plan.upsets
  BY <1>1, <1>2, <1>3
<1>5. QED
  BY <1>1, <1>2, <1>4, GoIdleKeeps

LEMMA CrashWhileWritingKeeps ==
  ASSUME Types, NEW f \in Files, CrashWhileWriting(f)
  PROVE  IInv'
<1>1. /\ GoIdle /\ plan' = plan /\ dirs' = dirs \cup {Root(f)} /\ launches' = launches
      /\ upsets < plan.upsets /\ upsets' = upsets + 1
  BY DEF CrashWhileWriting
<1>2. /\ plan \in Plans /\ disk \in [Files -> ContentType] /\ dirs \subseteq Roots
      /\ upsets \in 0..plan.upsets
  BY DEF Types, TypeOK
<1>3. plan.upsets \in Nat
  BY <1>2, SelfHealingAssumption
<1>4. upsets' \in 0..plan.upsets
  BY <1>1, <1>2, <1>3
<1>5. PICK torn \in TornWrites(f, disk[f], Built(f).reason) : disk' = [disk EXCEPT ![f] = torn]
  BY DEF CrashWhileWriting
<1>6. torn \in ContentType
  <2>1. Built(f).reason \in Reasons /\ disk[f] \in ContentType
    BY <1>2, BuiltContract
  <2>2. disk[f].companions \in BOOLEAN
    BY <2>1 DEF ContentType
  <2>3. "none" \in Reasons
    BY DEF Reasons
  <2> DEFINE paired == (f = "window" => disk[f].companions)
  <2>4. paired \in BOOLEAN
    OBVIOUS
  <2>5. \/ torn = disk[f]
        \/ torn = Content("malformed", FALSE, "none", paired)
        \/ torn = Content("json", TRUE, Built(f).reason, disk[f].companions)
    BY <1>5 DEF TornWrites
  <2> HIDE DEF paired
  <2>6. Content("malformed", FALSE, "none", paired) \in ContentType
    BY <2>3, <2>4 DEF Content, ContentType, Kinds
  <2>7. Content("json", TRUE, Built(f).reason, disk[f].companions) \in ContentType
    BY <2>1, <2>2 DEF Content, ContentType, Kinds
  <2>8. QED
    BY <2>1, <2>5, <2>6, <2>7
<1>7. disk' \in [Files -> ContentType]
  BY <1>2, <1>5, <1>6
<1>8. Root(f) \in Roots
  BY DEF Root, Roots
<1>9. dirs' \subseteq Roots
  BY <1>1, <1>2, <1>8
<1>10. QED
  BY <1>1, <1>4, <1>7, <1>9, GoIdleKeeps

LEMMA DamageKeeps ==
  ASSUME Types, NEW f \in Files, Damage(f)
  PROVE  IInv'
<1>1. /\ GoIdle /\ plan' = plan /\ dirs' = dirs /\ launches' = launches
      /\ upsets < plan.upsets /\ upsets' = upsets + 1
  BY DEF Damage
<1>2. /\ plan \in Plans /\ disk \in [Files -> ContentType] /\ dirs \subseteq Roots
      /\ upsets \in 0..plan.upsets
  BY DEF Types, TypeOK
<1>3. plan.upsets \in Nat
  BY <1>2, SelfHealingAssumption
<1>4. upsets' \in 0..plan.upsets
  BY <1>1, <1>2, <1>3
<1> DEFINE bare == [disk[f] EXCEPT !.companions = FALSE]
<1>5. disk[f] \in ContentType
  BY <1>2
<1>6. bare \in ContentType
  BY <1>5 DEF ContentType
<1>7. {Missing, Malformed, Incompatible} \subseteq ContentType
  BY DEF Missing, Malformed, Incompatible, Content, ContentType, Kinds, Reasons
<1>8. \E c \in {Missing, Malformed, Incompatible, bare} : disk' = [disk EXCEPT ![f] = c]
  BY DEF Damage
<1> HIDE DEF bare
<1>9. disk' \in [Files -> ContentType]
  BY <1>2, <1>6, <1>7, <1>8
<1>10. QED
  BY <1>1, <1>2, <1>4, <1>9, GoIdleKeeps

LEMMA BeginLaunchKeeps ==
  ASSUME Types, NEW o \in plan.requests, BeginLaunch(o)
  PROVE  IInv'
<1>1. /\ phase' = "staging" /\ at' = "nowhere" /\ options' = o
      /\ launches < plan.launches /\ launches' = launches + 1
      /\ found' = {f \in Files : Damaged(disk[f])}
      /\ disk' = disk /\ dirs' = dirs /\ plan' = plan /\ upsets' = upsets
      /\ Forget
  BY DEF BeginLaunch
<1>2. /\ plan \in Plans /\ disk \in [Files -> ContentType] /\ dirs \subseteq Roots
      /\ launches \in 0..plan.launches /\ upsets \in 0..plan.upsets
  BY DEF Types, TypeOK
<1>3. plan.launches \in Nat
  BY <1>2, SelfHealingAssumption
<1>4. launches' \in 0..plan.launches
  BY <1>1, <1>2, <1>3
<1>5. TypeOK'
  BY <1>1, <1>2, <1>4, ForgetType DEF TypeOK, Phases, Steps
<1>6. Types'
  BY <1>1, <1>2, <1>5, ForgetType DEF Types
<1>7. Places'
  <2>1. verdict' = NoVerdict
    BY <1>1, ForgetType
  <2>2. QED
    BY <1>1, <2>1 DEF Places
<1>8. ~LastRun' /\ ReadyLasts' /\ VouchedLasts'
  BY <1>1 DEF LastRun, ReadyLasts, VouchedLasts
<1>9. DamageIsTraced'
  BY <1>1 DEF DamageIsTraced
<1>10. Promises'
  BY <1>1, NotSettledYet
<1>11. QED
  BY <1>6, <1>7, <1>8, <1>9, <1>10 DEF IInv, FilesTellSoFar, ReadySoFar

LEMMA BreakKeeps ==
  ASSUME IInv, NEW p \in FaultPoints, Break(p[1], p[2])
  PROVE  IInv'
<1>1. /\ phase = "staging" /\ phase' = phase /\ at' = at
      /\ fault[p[1]] = "ok" /\ fault' = [fault EXCEPT ![p[1]] = p[2]]
      /\ disk' = disk /\ dirs' = dirs /\ options' = options /\ outcome' = outcome
      /\ ready' = ready /\ reason' = reason /\ rootSeen' = rootSeen
      /\ work' = work /\ recoverable' = recoverable /\ journal' = journal
      /\ verdict' = verdict /\ launchHealth' = launchHealth /\ found' = found
      /\ plan' = plan /\ launches' = launches /\ upsets' = upsets
  BY DEF Break, watchdog, counters
<1>2. Types /\ Places /\ DamageIsTraced
  BY DEF IInv
<1>3. fault \in [Faultable -> FaultKinds]
  BY <1>2 DEF Types, TypeOK
<1>4. p[1] \in Faultable /\ p[2] \in FaultKinds /\ p = <<p[1], p[2]>>
  BY FaultPointFacts
<1>5. fault' \in [Faultable -> FaultKinds]
  BY <1>1, <1>3, <1>4
<1>6. TypeOK'
  BY <1>1, <1>2, <1>5 DEF Types, TypeOK
<1>7. \A c \in Faultable : fault'[c] = "ok" \/ <<c, fault'[c]>> \in FaultPoints
  <2>1. TAKE c \in Faultable
  <2>2. CASE c = p[1]
    BY <1>1, <1>3, <1>4, <2>2
  <2>3. CASE c # p[1]
    BY <1>1, <1>2, <1>3, <2>3 DEF Types
  <2>4. QED
    BY <2>2, <2>3
<1>8. Types'
  BY <1>1, <1>2, <1>6, <1>7 DEF Types
<1>9. Places'
  BY <1>1, <1>2 DEF Places
<1>10. ~LastRun' /\ ReadyLasts' /\ VouchedLasts'
  BY <1>1 DEF LastRun, ReadyLasts, VouchedLasts
<1>11. DamageIsTraced'
  BY <1>1, <1>2 DEF DamageIsTraced
<1>12. Promises'
  BY <1>1, NotSettledYet
<1>13. QED
  BY <1>8, <1>9, <1>10, <1>11, <1>12 DEF IInv, FilesTellSoFar, ReadySoFar

(* A proof that works at first, with nothing simulated, works later.            *)
LEMMA WorksOn ==
  ASSUME NEW c, WorksAtFirst(c)
  PROVE  WorksLater(c)
  BY DEF WorksAtFirst, WorksLater

LEMMA ProofsAreContracts ==
  /\ Proofs \subseteq Contracts /\ Files \subseteq Contracts
  /\ Contracts = Proofs \cup Files /\ Proofs \cap Files = {}
  /\ NeededByActivity \subseteq Proofs \ {"activity"}
  /\ "activity" \in Proofs /\ "intent" \in Proofs
  BY DEF Contracts, Proofs, Files, NeededByActivity

LEMMA RunProofsKeeps ==
  ASSUME IInv, NEW o \in Outcomes, RunProofs(o)
  PROVE  IInv'
<1> DEFINE h == Answers({c \in Proofs : WorksAtFirst(c)}, o = "succeeded")
           why == ActivityReason(h, o = "succeeded", "no_launcher_activity")
           simulated == {c \in Proofs \cap Faultable \cap Requested : fault[c] = "simulated"}
<1>1. /\ phase = "staging" /\ outcome' = o
      /\ ready' = [c \in Contracts |->
           \/ c \notin Requested
           \/ c \in Proofs \ {"activity"} /\ h[c] /\ c \notin simulated
           \/ c = "activity" /\ why = "none" /\ "intent" \notin simulated]
      /\ reason' = [NoReasons EXCEPT
           !["intent"] = IF "intent" \in simulated THEN "simulated_intent_resolution_failure"
                         ELSE IF h["intent"] THEN "none" ELSE "no_launcher_activity",
           !["activity"] = IF "intent" \in simulated THEN "intent_resolution_not_ready"
                           ELSE why]
      /\ IF "storage" \in simulated
         THEN disk' = [f \in Files |-> Missing] /\ dirs' = {}
         ELSE disk' = disk /\ dirs' = dirs
      /\ phase' = "launch" /\ at' = FirstFile
  BY DEF RunProofs
<1>2. /\ options' = options /\ fault' = fault /\ rootSeen' = rootSeen /\ work' = work
      /\ recoverable' = recoverable /\ journal' = journal /\ verdict' = verdict
      /\ launchHealth' = launchHealth /\ found' = found
      /\ plan' = plan /\ launches' = launches /\ upsets' = upsets
  BY DEF RunProofs, watchdog, counters
<1>3. Types /\ Places /\ DamageIsTraced
  BY DEF IInv
<1>4. at' \in (Files \cap Requested) \cup {"finalize"} /\ FilesBefore(at') \cap Requested = {}
  BY <1>1, <1>3, FirstFileIsFirst
<1>5. Requested' = Requested /\ SelfHeal(options)' = SelfHeal(options)
  BY <1>2 DEF Requested
<1>6. /\ why \in Reasons
      /\ why = "none" <=> o = "succeeded" /\ \A c \in NeededByActivity : h[c]
  BY ActivityReasonType
<1>7. \A c \in Proofs \ {"activity"} :
        h[c] <=> WorksAtFirst(c) /\ (c \in {"surface", "lifecycle"} => o = "succeeded")
  BY DEF Answers
<1>8. "storage" \in simulated => fault["storage"] = "simulated"
  OBVIOUS
<1>9. \A c \in simulated : fault[c] # "ok"
  OBVIOUS
<1>10. simulated \subseteq Requested \cap Faultable
  OBVIOUS
<1> HIDE DEF h, why, simulated
<1>11. Types'
  <2>1. disk' \in [Files -> ContentType]
    <3>1. Missing \in ContentType
      BY DEF Missing, Content, ContentType, Kinds, Reasons
    <3>2. QED
      BY <1>1, <1>3, <3>1 DEF Types, TypeOK
  <2>2. dirs' \subseteq Roots
    BY <1>1, <1>3 DEF Types, TypeOK
  <2>3. ready' \in [Contracts -> BOOLEAN]
    <3>1. \A c \in Contracts : ready'[c] \in BOOLEAN
      BY <1>1
    <3>2. QED
      BY <1>1, <3>1
  <2>4. reason' \in [Files \cup {"intent", "activity"} -> Reasons]
    <3>1. NoReasons \in [Files \cup {"intent", "activity"} -> Reasons]
      BY ReasonsExist DEF NoReasons
    <3>2. QED
      BY <1>1, <1>6, <3>1, ReasonsExist
  <2>5. at' \in Steps
    BY <1>4 DEF Steps
  <2>6. TypeOK'
    BY <1>1, <1>2, <1>3, <2>1, <2>2, <2>3, <2>4, <2>5 DEF Types, TypeOK, Phases
  <2>7. QED
    BY <1>2, <1>3, <2>6 DEF Types
<1>12. Places'
  BY <1>1, <1>2, <1>3, <1>4, <1>5 DEF Places
<1>13. FilesTellSoFar'
  BY <1>4, <1>5 DEF FilesTellSoFar
<1>14. ReadyLasts'
  <2>1. ASSUME NEW c \in Proofs \cap Requested, ready'[c]
        PROVE  Lasts(c)'
    <3>1. WorksLater(c)' = WorksLater(c) /\ \A d : WorksLater(d)' = WorksLater(d)
      BY <1>2 DEF WorksLater
    <3>2. CASE c = "activity"
      <4>1. why = "none"
        BY <1>1, <2>1, <3>2, ProofsAreContracts
      <4>2. o = "succeeded" /\ \A d \in NeededByActivity : WorksAtFirst(d)
        BY <1>6, <1>7, <4>1, ProofsAreContracts
      <4>3. QED
        BY <1>1, <3>1, <3>2, <4>2, WorksOn DEF Lasts, Launched
    <3>3. CASE c # "activity"
      <4>1. h[c]
        BY <1>1, <2>1, <3>3, ProofsAreContracts
      <4>2. WorksLater(c)
        BY <1>7, <3>3, <4>1, WorksOn
      <4>3. QED
        BY <3>1, <3>3, <4>2 DEF Lasts
    <3>4. QED
      BY <3>2, <3>3
  <2>2. QED
    BY <1>1, <1>5, <2>1 DEF ReadyLasts
<1>15. VouchedLasts'
  BY <1>1 DEF VouchedLasts
<1>16. ReadySoFar'
  <2>1. SUFFICES ASSUME LastRun', Promising'
                 PROVE  \A c \in Proofs \cup FilesBefore(at') : ready'[c]
    BY DEF ReadySoFar
  <2>2. o = "succeeded" /\ \A c \in Faultable : fault[c] = "ok"
    BY <1>1, <1>2, <1>5, <2>1 DEF LastRun, Promising, Launched
  <2>3. simulated = {}
    BY <1>9, <1>10, <2>2
  <2>4. \A c \in Proofs \ {"activity"} : h[c]
    BY <1>7, <2>2 DEF WorksAtFirst
  <2>5. why = "none"
    BY <1>6, <2>2, <2>4, ProofsAreContracts
  <2>6. \A c \in Proofs : ready'[c]
    BY <1>1, <2>3, <2>4, <2>5, ProofsAreContracts
  <2>7. \A c \in Contracts \ Requested : ready'[c]
    BY <1>1
  <2>8. FilesBefore(at') \subseteq Contracts
    BY DEF FilesBefore, Contracts, Files
  <2>9. QED
    BY <1>4, <2>6, <2>7, <2>8
<1>17. DamageIsTraced'
  <2>1. Spared' => disk' = disk
    BY <1>1, <1>2, <1>8 DEF Spared
  <2>2. QED
    BY <1>1, <1>2, <1>3, <1>4, <1>5, <2>1 DEF DamageIsTraced
<1>18. Promises'
  BY <1>1, NotSettledYet
<1>19. QED
  BY <1>11, <1>12, <1>13, <1>14, <1>15, <1>16, <1>17, <1>18 DEF IInv

LEMMA RefreshProofsKeeps ==
  ASSUME IInv, RefreshProofs
  PROVE  IInv'
<1> DEFINE h == Answers({c \in Proofs : WorksLater(c)}, Launched)
           why == ActivityReason(h, Launched, "no_launcher_activity")
<1>1. /\ phase = "refresh" /\ at = "proofs" /\ phase' = phase /\ at' = FirstFile
      /\ ready' = [c \in Contracts |->
           IF c \in Files THEN ready[c]
           ELSE c \notin Requested \/ (IF c = "activity" THEN why = "none" ELSE h[c])]
      /\ reason' = [reason EXCEPT
           !["intent"] = IF h["intent"] THEN "none" ELSE "no_launcher_activity",
           !["activity"] = why]
  BY DEF RefreshProofs
<1>2. /\ disk' = disk /\ dirs' = dirs /\ outcome' = outcome
      /\ options' = options /\ fault' = fault /\ rootSeen' = rootSeen /\ work' = work
      /\ recoverable' = recoverable /\ journal' = journal /\ verdict' = verdict
      /\ launchHealth' = launchHealth /\ found' = found
      /\ plan' = plan /\ launches' = launches /\ upsets' = upsets
  BY DEF RefreshProofs, watchdog, counters
<1>3. Types /\ Places /\ VouchedLasts /\ DamageIsTraced
  BY DEF IInv
<1>4. at' \in (Files \cap Requested) \cup {"finalize"} /\ FilesBefore(at') \cap Requested = {}
  BY <1>1, <1>3, FirstFileIsFirst
<1>5. Requested' = Requested
  BY <1>2 DEF Requested
<1>6. /\ why \in Reasons
      /\ why = "none" <=> Launched /\ \A c \in NeededByActivity : h[c]
  BY ActivityReasonType
<1>7. \A c \in Proofs \ {"activity"} :
        h[c] <=> WorksLater(c) /\ (c \in {"surface", "lifecycle"} => Launched)
  BY DEF Answers
<1>8. ready \in [Contracts -> BOOLEAN]
  BY <1>3 DEF Types, TypeOK
<1>9. \A c \in Proofs \ {"activity"} : h[c] \in BOOLEAN
  BY DEF Answers
<1> HIDE DEF h, why
<1>10. Types'
  <2>1. ready' \in [Contracts -> BOOLEAN]
    <3>1. \A c \in Contracts : ready'[c] \in BOOLEAN
      BY <1>1, <1>8, <1>9, ProofsAreContracts
    <3>2. QED
      BY <1>1, <3>1
  <2>2. reason' \in [Files \cup {"intent", "activity"} -> Reasons]
    BY <1>1, <1>3, <1>6, ReasonsExist DEF Types, TypeOK
  <2>3. at' \in Steps
    BY <1>4 DEF Steps
  <2>4. TypeOK'
    BY <1>1, <1>2, <1>3, <2>1, <2>2, <2>3 DEF Types, TypeOK
  <2>5. QED
    BY <1>2, <1>3, <2>4 DEF Types
<1>11. Places'
  <2>1. \A c \in Contracts \ Requested : ready'[c]
    BY <1>1, <1>3 DEF Places
  <2>2. QED
    BY <1>1, <1>2, <1>3, <1>4, <1>5, <2>1 DEF Places
<1>12. FilesTellSoFar'
  BY <1>4, <1>5 DEF FilesTellSoFar
<1>13. ReadyLasts'
  BY <1>1 DEF ReadyLasts
<1>14. VouchedLasts'
  BY <1>1, <1>2, <1>3, <1>5 DEF VouchedLasts, SelfHealingVouches, Lasts, WorksLater, Launched
<1>15. ReadySoFar'
  <2>1. SUFFICES ASSUME Promising'
                 PROVE  \A c \in Proofs \cup FilesBefore(at') : ready'[c]
    BY DEF ReadySoFar
  <2>2. Launched /\ SelfHeal(options)
    BY <1>1, <1>2, <1>3, <2>1 DEF Promising, Launched, Places
  <2>3. SelfHealingVouches \/ \A c \in Faultable : fault[c] # "permanent"
    BY <1>2, <2>1, <2>2 DEF Promising, SelfHealingVouches
  <2>4. \A c \in Proofs \cap Requested : Lasts(c)
    <3>1. CASE SelfHealingVouches
      BY <1>1, <1>3, <3>1 DEF VouchedLasts
    <3>2. CASE \A c \in Faultable : fault[c] # "permanent"
      BY <2>2, <3>2 DEF Lasts, WorksLater
    <3>3. QED
      BY <2>3, <3>1, <3>2
  <2>5. ASSUME NEW c \in Proofs \cap Requested
        PROVE  ready'[c]
    <3>1. CASE c = "activity"
      <4>1. \A d \in NeededByActivity : WorksLater(d)
        BY <2>4, <2>5, <3>1 DEF Lasts
      <4>2. why = "none"
        BY <1>6, <1>7, <2>2, <4>1, ProofsAreContracts
      <4>3. QED
        BY <1>1, <3>1, <4>2, ProofsAreContracts
    <3>2. CASE c # "activity"
      <4>1. WorksLater(c)
        BY <2>4, <3>2 DEF Lasts
      <4>2. h[c]
        BY <1>7, <2>2, <3>2, <4>1
      <4>3. QED
        BY <1>1, <3>2, <4>2, ProofsAreContracts
    <3>3. QED
      BY <3>1, <3>2
  <2>6. \A c \in Contracts \ Requested : ready'[c]
    BY <1>1, <1>3 DEF Places
  <2>7. FilesBefore(at') \subseteq Contracts
    BY DEF FilesBefore, Contracts, Files
  <2>8. QED
    BY <1>4, <2>5, <2>6, <2>7, ProofsAreContracts
<1>16. DamageIsTraced'
  BY <1>1, <1>2, <1>3 DEF DamageIsTraced, Spared, Rebuilt
<1>17. Promises'
  BY <1>1, NotSettledYet
<1>18. QED
  BY <1>10, <1>11, <1>12, <1>13, <1>14, <1>15, <1>16, <1>17 DEF IInv

LEMMA FaultableHas == "art" \in Faultable /\ "runtime" \in Faultable
<1> DEFINE art == <<"art", "permanent">>
           runtime == <<"runtime", "simulated">>
<1>1. art \in FaultPoints /\ runtime \in FaultPoints
  BY DEF FaultPoints
<1>2. art[1] = "art" /\ runtime[1] = "runtime"
  OBVIOUS
<1> HIDE DEF art, runtime
<1>3. QED
  BY <1>1, <1>2 DEF Faultable

LEMMA RootSeenType ==
  ASSUME Types, NEW f
  PROVE  RootSeen(f) \in BOOLEAN
<1>1. rootSeen \in BOOLEAN
  BY DEF Types, TypeOK
<1>2. CASE f = "process"
  BY <1>1, <1>2 DEF RootSeen
<1>3. CASE f # "process"
  <2>1. RootSeen(f) = (Root(f) \in dirs)
    BY <1>3 DEF RootSeen
  <2>2. (Root(f) \in dirs) \in BOOLEAN
    OBVIOUS
  <2>3. QED
    BY <2>1, <2>2
<1>4. QED
  BY <1>2, <1>3

(* A bridge run by the launch or by the refresh answers into the report.        *)
LEMMA BuildForTheReportKeeps ==
  ASSUME IInv, NEW f \in Files, BuildContract(f), phase # "heal"
  PROVE  IInv'
<1> DEFINE built == Built(f)
<1>1. /\ phase \in {"launch", "refresh"} /\ at = f /\ phase' = phase /\ at' = FileAfter(f)
      /\ disk' = [disk EXCEPT ![f] = built.content] /\ dirs' = dirs \cup {Root(f)}
      /\ rootSeen' = IF f = "activity_manager" THEN RootSeen(f) ELSE rootSeen
      /\ ready' = [ready EXCEPT ![f] = built.ready]
      /\ reason' = [reason EXCEPT ![f] = built.reason]
  BY DEF BuildContract, AtBridge
<1>2. /\ outcome' = outcome /\ options' = options /\ fault' = fault /\ work' = work
      /\ recoverable' = recoverable /\ journal' = journal /\ verdict' = verdict
      /\ launchHealth' = launchHealth /\ found' = found
      /\ plan' = plan /\ launches' = launches /\ upsets' = upsets
  BY DEF BuildContract, counters
<1>3. Types /\ Places /\ FilesTellSoFar /\ ReadyLasts /\ VouchedLasts /\ ReadySoFar
      /\ DamageIsTraced
  BY DEF IInv
<1>4. f \in Files \cap Requested
  BY <1>1, <1>3 DEF Places, Files
<1>5. /\ at' \in (Files \cap Requested) \cup {"finalize"}
      /\ FilesBefore(at') \cap Requested = (FilesBefore(f) \cup {f}) \cap Requested
  BY <1>1, <1>3, <1>4, FileAfterIsNext
<1>6. Requested' = Requested
  BY <1>2 DEF Requested
<1>7. /\ built.ready \in BOOLEAN /\ built.reason \in Reasons /\ built.content \in ContentType
      /\ AllowPersistedContractRepair =>
           /\ built.content.kind = "json" /\ built.content.reason = built.reason
           /\ built.reason = ContractReason(f, HealthsGiven, ActivityManagerAnswer)
           /\ built.ready = ContractOk(f, built.reason)
      /\ ~AllowPersistedContractRepair /\ Damaged(disk[f]) =>
           ~built.ready /\ built.content = disk[f]
  BY <1>3, BuiltContract
<1>8. /\ disk \in [Files -> ContentType] /\ ready \in [Contracts -> BOOLEAN]
      /\ reason \in [Files \cup {"intent", "activity"} -> Reasons]
  BY <1>3 DEF Types, TypeOK
<1>9. rootSeen' \in BOOLEAN
  BY <1>1, <1>3, RootSeenType DEF Types, TypeOK
<1> HIDE DEF built
<1>10. Types'
  <2>1. disk' \in [Files -> ContentType] /\ ready' \in [Contracts -> BOOLEAN]
        /\ reason' \in [Files \cup {"intent", "activity"} -> Reasons]
    BY <1>1, <1>7, <1>8, ProofsAreContracts
  <2>2. dirs' \subseteq Roots
    BY <1>1, <1>3 DEF Types, TypeOK, Root, Roots
  <2>3. at' \in Steps
    BY <1>5 DEF Steps
  <2>4. TypeOK'
    BY <1>1, <1>2, <1>3, <1>9, <2>1, <2>2, <2>3 DEF Types, TypeOK
  <2>5. QED
    BY <1>2, <1>3, <2>4 DEF Types
<1>11. Places'
  <2>1. \A c \in Contracts \ Requested : ready'[c] = ready[c]
    BY <1>1, <1>4, <1>8
  <2>2. QED
    BY <1>1, <1>2, <1>3, <1>5, <1>6, <2>1 DEF Places
<1>12. LastRun' => LastRun /\ AllowPersistedContractRepair
  BY <1>1, <1>2 DEF LastRun, AllowPersistedContractRepair, Files
<1>13. FilesTellSoFar'
  <2>1. SUFFICES ASSUME LastRun', NEW g \in FilesBefore(at') \cap Requested
                 PROVE  disk'[g].kind = "json" /\ disk'[g].reason = reason'[g]
    BY <1>6 DEF FilesTellSoFar
  <2>2. FilesBefore(f) \subseteq Files
    BY DEF FilesBefore, Files
  <2>3. CASE g = f
    BY <1>1, <1>7, <1>8, <1>12, <2>1, <2>3
  <2>4. CASE g # f
    <3>1. g \in FilesBefore(at) \cap Requested /\ g \in Files
      BY <1>1, <1>5, <2>1, <2>2, <2>4
    <3>2. disk[g].kind = "json" /\ disk[g].reason = reason[g]
      BY <1>3, <1>12, <2>1, <3>1 DEF FilesTellSoFar
    <3>3. QED
      BY <1>1, <1>8, <2>4, <3>1, <3>2
  <2>5. QED
    BY <2>3, <2>4
<1>14. ReadyLasts'
  <2>1. \A c \in Proofs : ready'[c] = ready[c]
    BY <1>1, <1>8, ProofsAreContracts
  <2>2. \A c : Lasts(c)' = Lasts(c)
    BY <1>2 DEF Lasts, Launched, WorksLater
  <2>3. QED
    BY <1>1, <1>2, <1>3, <1>6, <2>1, <2>2 DEF ReadyLasts
<1>15. VouchedLasts'
  BY <1>1, <1>2, <1>3, <1>6 DEF VouchedLasts, SelfHealingVouches, Lasts, WorksLater, Launched
<1>16. ReadySoFar'
  <2>1. SUFFICES ASSUME LastRun', Promising'
                 PROVE  \A c \in Proofs \cup FilesBefore(at') : ready'[c]
    BY DEF ReadySoFar
  <2>2. Promising
    BY <1>2, <2>1 DEF Promising, Launched, SelfHealingVouches
  <2>3. \A c \in Proofs \cup FilesBefore(f) : ready[c]
    BY <1>1, <1>3, <1>12, <2>1, <2>2 DEF ReadySoFar
  <2>4. HealthsGiven = ready
    BY <1>1 DEF HealthsGiven
  <2>5. Launched
    BY <2>2 DEF Promising
  <2>6. ~BootstrapFails
    <3>1. CASE phase = "launch"
      <4>1. ~SelfHeal(options)
        BY <1>12, <2>1, <3>1 DEF LastRun
      <4>2. fault["runtime"] = "ok"
        BY <2>2, <4>1, FaultableHas DEF Promising
      <4>3. QED
        BY <4>2 DEF BootstrapFails
    <3>2. CASE phase # "launch"
      BY <3>2 DEF BootstrapFails
    <3>3. QED
      BY <3>1, <3>2
  <2>7. SelfHealingVouches \/ ArtAvailable
    <3>1. fault["art"] = "ok" \/ <<"art", fault["art"]>> \in FaultPoints
      BY <1>3, FaultableHas DEF Types
    <3>2. fault["art"] = "ok" \/ fault["art"] = "permanent"
      BY <3>1 DEF FaultPoints
    <3>3. QED
      BY <2>2, <3>2, FaultableHas DEF Promising, ArtAvailable
  <2>8. ContractOk(f, ContractReason(f, ready, ActivityManagerAnswer))
    BY <2>3, <2>5, <2>6, <2>7, NothingToBlame
  <2>9. ready'[f]
    BY <1>1, <1>7, <1>8, <1>12, <2>1, <2>4, <2>8, ProofsAreContracts
  <2>10. \A c \in Contracts \ {f} : ready'[c] = ready[c]
    BY <1>1, <1>8
  <2>11. \A c \in Contracts \ Requested : ready[c]
    BY <1>1, <1>3 DEF Places
  <2>12. FilesBefore(at') \subseteq Contracts
    BY DEF FilesBefore, Contracts, Files
  <2>13. QED
    BY <1>5, <2>3, <2>9, <2>10, <2>11, <2>12, ProofsAreContracts
<1>17. DamageIsTraced'
  <2>1. CASE phase = "launch" /\ Spared
    <3>1. ~AllowPersistedContractRepair
      BY <2>1 DEF AllowPersistedContractRepair, Spared
    <3>2. ASSUME NEW g \in found
          PROVE  /\ Damaged(disk'[g])
                 /\ g \in FilesBefore(at') \cap Requested => ~ready'[g]
      <4>1. Damaged(disk[g]) /\ (g \in FilesBefore(at) \cap Requested => ~ready[g])
        BY <1>3, <2>1, <3>2 DEF DamageIsTraced
      <4>2. g \in Files
        BY <1>3, <3>2 DEF Types, TypeOK
      <4>3. CASE g = f
        BY <1>1, <1>7, <1>8, <3>1, <4>1, <4>2, <4>3, ProofsAreContracts
      <4>4. CASE g # f
        BY <1>1, <1>5, <1>8, <4>1, <4>2, <4>4, ProofsAreContracts
      <4>5. QED
        BY <4>3, <4>4
    <3>3. QED
      BY <1>1, <1>2, <1>6, <2>1, <3>2 DEF DamageIsTraced
  <2>2. CASE ~(phase = "launch" /\ Spared)
    BY <1>1, <1>2, <1>3, <2>2 DEF DamageIsTraced, Spared, Rebuilt
  <2>3. QED
    BY <2>1, <2>2
<1>18. Promises'
  BY <1>1, NotSettledYet
<1>19. QED
  BY <1>10, <1>11, <1>13, <1>14, <1>15, <1>16, <1>17, <1>18 DEF IInv

(* During the watchdog's pass it is the proofs' answers and the journal that     *)
(* must be kept.                                                                *)
LEMMA HealingKeeps ==
  ASSUME IInv, Types', phase = "heal", phase' = "heal", at' \in HealSteps,
         options' = options, fault' = fault, outcome' = outcome, ready' = ready,
         \A c \in Proofs \cap Requested : work'[c] => Lasts(c),
         Spared => \A f \in found' \ {"java"} : Rebuilt(f)' \/ Awaits(f)'
  PROVE  IInv'
<1>1. Types /\ Places /\ ReadyLasts
  BY DEF IInv
<1>2. Requested' = Requested
  BY DEF Requested
<1>3. \A c : Lasts(c)' = Lasts(c)
  BY DEF Lasts, Launched, WorksLater
<1>4. Places'
  BY <1>1, <1>2 DEF Places
<1>5. ~LastRun' /\ VouchedLasts'
  BY DEF LastRun, VouchedLasts
<1>6. ReadyLasts'
  BY <1>1, <1>2, <1>3 DEF ReadyLasts
<1>7. DamageIsTraced'
  <2>1. Spared' = Spared
    BY DEF Spared
  <2>2. QED
    BY <2>1 DEF DamageIsTraced
<1>8. Promises'
  BY NotSettledYet
<1>9. QED
  BY <1>4, <1>5, <1>6, <1>7, <1>8 DEF IInv, FilesTellSoFar, ReadySoFar

(* The order of the watchdog's steps.                                           *)
LEMMA FollowingType ==
  ASSUME NEW step \in DOMAIN Following
  PROVE  /\ Following[step] \in HealSteps
         /\ step \in EarlySteps \ {"activity_manager"} => Following[step] \in EarlySteps
         /\ step = "activity_manager" => Following[step] = "process"
         /\ step = "process" => Following[step] = "window"
         /\ step = "window" => Following[step] = "runtime"
  BY DEF Following, HealSteps, EarlySteps

LEMMA HealStepsType == HealSteps \subseteq Steps /\ "verdict" \in HealSteps
                       /\ "window" \in HealSteps
                       /\ HealSteps = EarlySteps \cup {"process", "window", "runtime", "verdict"}
                       /\ DOMAIN Following = EarlySteps \cup {"process", "window", "runtime"}
  BY DEF HealSteps, Steps, Following, EarlySteps

(* A bridge run by the watchdog answers into its working copy.                  *)
LEMMA BuildForTheWatchdogKeeps ==
  ASSUME IInv, NEW f \in Files, BuildContract(f), phase = "heal"
  PROVE  IInv'
<1> DEFINE built == Built(f)
           ok == built.ready /\ (f = "process" => work["activity_manager"])
<1>1. /\ f # "java" /\ at = f /\ phase' = phase /\ at' = Following[f]
      /\ disk' = [disk EXCEPT ![f] = built.content] /\ dirs' = dirs \cup {Root(f)}
      /\ rootSeen' = IF f = "activity_manager" THEN RootSeen(f) ELSE rootSeen
      /\ work' = [work EXCEPT ![f] = built.ready]
      /\ journal' = IF f = "activity_manager" THEN journal
                    ELSE Append(journal, Entry(RepairAction[f], Outcome(ok)))
      /\ ready' = ready /\ reason' = reason
  BY DEF BuildContract, AtBridge
<1>2. /\ outcome' = outcome /\ options' = options /\ fault' = fault
      /\ recoverable' = recoverable /\ verdict' = verdict
      /\ launchHealth' = launchHealth /\ found' = found
      /\ plan' = plan /\ launches' = launches /\ upsets' = upsets
  BY DEF BuildContract, counters
<1>3. Types /\ ReadyLasts /\ DamageIsTraced
  BY DEF IInv
<1>4. built.ready \in BOOLEAN /\ built.content \in ContentType
  BY <1>3, BuiltContract
<1>5. /\ disk \in [Files -> ContentType] /\ work \in [Contracts -> BOOLEAN]
  BY <1>3 DEF Types, TypeOK
<1>6. rootSeen' \in BOOLEAN
  BY <1>1, <1>3, RootSeenType DEF Types, TypeOK
<1>7. Outcome(ok) \in Results
  BY DEF Outcome, Results
<1> HIDE DEF built, ok
<1>8. f \in {"activity_manager", "process", "window", "runtime"}
  BY <1>1 DEF Files
<1>9. f \in DOMAIN Following /\ (f # "activity_manager" => f \in DOMAIN RepairAction)
  BY <1>8 DEF Following, RepairAction
<1>10. at' \in HealSteps
  BY <1>1, <1>9, FollowingType
<1> DEFINE e == Entry(RepairAction[f], Outcome(ok))
<1>11. f # "activity_manager" => e \in Entries /\ e.action = RebuildOf(f)
  BY <1>7, <1>9, EntryType DEF Entry, RebuildOf
<1> HIDE DEF e
<1>12. /\ journal' \in Seq(Entries)
       /\ \A g : Rebuilt(g) => Rebuilt(g)'
       /\ f # "activity_manager" => \A g : RebuildOf(g) = RebuildOf(f) => Rebuilt(g)'
  <2>1. CASE f = "activity_manager"
    <3>1. journal' = journal
      BY <1>1, <2>1
    <3>2. QED
      BY <1>3, <2>1, <3>1 DEF Types, Rebuilt
  <2>2. CASE f # "activity_manager"
    <3>1. journal' = Append(journal, e)
      BY <1>1, <2>2 DEF e
    <3>2. QED
      BY <1>3, <1>11, <2>2, <3>1, AppendKeeps
  <2>3. QED
    BY <2>1, <2>2
<1>13. Types'
  <2>1. disk' \in [Files -> ContentType] /\ work' \in [Contracts -> BOOLEAN]
    BY <1>1, <1>4, <1>5, ProofsAreContracts
  <2>2. dirs' \subseteq Roots
    BY <1>1, <1>3 DEF Types, TypeOK, Root, Roots
  <2>3. at' \in Steps
    BY <1>10, HealStepsType
  <2>4. \A i \in DOMAIN journal' : journal'[i].result \in Results
    BY <1>12, JournalResults
  <2>5. TypeOK'
    BY <1>1, <1>2, <1>3, <1>6, <2>1, <2>2, <2>3, <2>4 DEF Types, TypeOK
  <2>6. QED
    BY <1>2, <1>3, <1>12, <2>5 DEF Types
<1>14. \A c \in Proofs \cap Requested : work'[c] => Lasts(c)
  BY <1>1, <1>3, <1>5, ProofsAreContracts DEF ReadyLasts
<1>15. ASSUME Spared, NEW g \in found' \ {"java"}
       PROVE  Rebuilt(g)' \/ Awaits(g)'
  <2>1. g \in {"activity_manager", "process", "window", "runtime"}
    BY <1>2, <1>3, <1>15 DEF Types, TypeOK, Files
  <2>2. Rebuilt(g) \/ Awaits(g)
    BY <1>2, <1>3, <1>15 DEF DamageIsTraced
  <2>3. \A c \in Contracts \ {f} : work'[c] = work[c]
    BY <1>1, <1>5
  <2>4. CASE f = "activity_manager"
    <3>1. at' = "process"
      BY <1>1, <1>9, <2>4, FollowingType
    <3>2. g \in {"window", "runtime"} => work'[g] = work[g]
      BY <2>3, <2>4, ProofsAreContracts DEF Files
    <3>3. Awaits(g) => Awaits(g)'
      BY <2>1, <3>1, <3>2 DEF Awaits
    <3>4. QED
      BY <1>12, <2>2, <3>3
  <2>5. CASE f # "activity_manager"
    <3>1. CASE RebuildOf(g) = RebuildOf(f)
      BY <1>12, <2>5, <3>1
    <3>2. CASE RebuildOf(g) # RebuildOf(f)
      <4>1. g # f /\ ~(f = "process" /\ g = "activity_manager")
        BY <3>2 DEF RebuildOf
      <4>2. work'[g] = work[g]
        BY <2>1, <2>3, <4>1, ProofsAreContracts DEF Files
      <4>3. Awaits(g) => Awaits(g)'
        BY <1>1, <1>8, <1>9, <2>1, <2>5, <4>1, <4>2, FollowingType DEF Awaits, EarlySteps
      <4>4. QED
        BY <1>12, <2>2, <4>3
    <3>3. QED
      BY <3>1, <3>2
  <2>6. QED
    BY <2>4, <2>5
<1>16. QED
  BY <1>1, <1>2, <1>10, <1>13, <1>14, <1>15, HealingKeeps

LEMMA StartWatchdogKeeps ==
  ASSUME IInv, StartWatchdog
  PROVE  IInv'
<1>1. /\ phase = "launch" /\ at = "finalize" /\ SelfHeal(options) /\ phase' = "heal"
      /\ work' = ready /\ recoverable' = ~EverythingReady
      /\ verdict' = Verdict(ClassifyHealth(ready, ~EverythingReady), "none")
      /\ IF AllContractsReady(ready)
         THEN journal' = <<Entry("no_action", "skipped")>> /\ at' = "verdict"
         ELSE journal' = <<>> /\ at' = "permission"
  BY DEF StartWatchdog
<1>2. /\ disk' = disk /\ dirs' = dirs /\ outcome' = outcome
      /\ options' = options /\ fault' = fault /\ rootSeen' = rootSeen /\ ready' = ready
      /\ reason' = reason /\ launchHealth' = launchHealth /\ found' = found
      /\ plan' = plan /\ launches' = launches /\ upsets' = upsets
  BY DEF StartWatchdog, report, counters
<1>3. Types /\ Places /\ ReadyLasts /\ DamageIsTraced
  BY DEF IInv
<1>4. journal' \in Seq(Entries)
  <2>1. "no_action" \in Actions /\ "skipped" \in Results
    BY Zenon DEF Actions, Results
  <2> DEFINE e == Entry("no_action", "skipped")
  <2>2. e \in Entries
    BY <2>1 DEF Entry, Entries
  <2>3. journal' = <<e>> \/ journal' = <<>>
    BY <1>1
  <2> HIDE DEF e
  <2>4. <<e>> \in Seq(Entries)
    BY <2>2
  <2>5. <<>> \in Seq(Entries)
    OBVIOUS
  <2>6. QED
    BY <2>3, <2>4, <2>5
<1>5. verdict.initial' \in Healths /\ verdict.final' \in Healths
      /\ verdict' = Verdict(verdict.initial, verdict.final)'
  <2>1. ClassifyHealth(ready, ~EverythingReady) \in Healths
    BY DEF ClassifyHealth, Healths
  <2>2. QED
    BY <1>1, <2>1 DEF Verdict, Healths
<1>6. Types'
  <2>1. at' \in HealSteps /\ at' \in Steps
    BY <1>1, HealStepsType DEF EarlySteps
  <2>2. \A i \in DOMAIN journal' : journal'[i].result \in Results
    BY <1>4, JournalResults
  <2>3. recoverable' \in BOOLEAN
    BY <1>1 DEF EverythingReady
  <2>4. TypeOK'
    BY <1>1, <1>2, <1>3, <1>5, <2>1, <2>2, <2>3 DEF Types, TypeOK, Phases
  <2>5. QED
    BY <1>2, <1>3, <1>4, <1>5, <2>4 DEF Types
<1>7. Requested' = Requested
  BY <1>2 DEF Requested
<1>8. Places'
  <2>1. at' \in HealSteps
    BY <1>1, HealStepsType DEF EarlySteps
  <2>2. QED
    BY <1>1, <1>2, <1>3, <1>7, <2>1 DEF Places
<1>9. ~LastRun' /\ VouchedLasts'
  BY <1>1 DEF LastRun, VouchedLasts
<1>10. ReadyLasts'
  BY <1>1, <1>2, <1>3, <1>7 DEF ReadyLasts, Lasts, Launched, WorksLater
<1>11. DamageIsTraced'
  <2>1. ASSUME Spared, NEW f \in found \ {"java"}
        PROVE  Awaits(f)'
    <3>1. f \in Files \ {"java"}
      BY <1>3, <2>1 DEF Types, TypeOK
    <3>2. f \in Requested
      BY <1>1, <1>3, <3>1, RequestedChain DEF Files
    <3>3. ~ready[f]
      BY <1>1, <1>3, <2>1, <3>1, <3>2 DEF DamageIsTraced, FilesBefore
    <3>4. ~AllContractsReady(ready)
      BY <3>1, <3>3, ProofsAreContracts DEF AllContractsReady
    <3>5. at' = "permission" /\ ~work'[f]
      BY <1>1, <3>3, <3>4
    <3>6. QED
      BY <3>5 DEF Awaits, EarlySteps
  <2>2. Spared' = Spared
    BY <1>2 DEF Spared
  <2>3. QED
    BY <1>1, <1>2, <2>1, <2>2 DEF DamageIsTraced
<1>12. Promises'
  BY <1>1, NotSettledYet
<1>13. QED
  BY <1>6, <1>8, <1>9, <1>10, <1>11, <1>12 DEF IInv, FilesTellSoFar, ReadySoFar

LEMMA NothingToRepairKeeps ==
  ASSUME IInv, NEW step \in Steps, NothingToRepair(step)
  PROVE  IInv'
<1>1. /\ phase = "heal" /\ at = step /\ step # "process" /\ step # "verdict" /\ ~Needed(step)
      /\ at' = IF step = "activity_manager" THEN "window" ELSE Following[step]
      /\ phase' = phase
  BY DEF NothingToRepair, AtHealStep
<1>2. /\ disk' = disk /\ dirs' = dirs /\ outcome' = outcome
      /\ options' = options /\ fault' = fault /\ rootSeen' = rootSeen /\ ready' = ready
      /\ reason' = reason /\ work' = work /\ recoverable' = recoverable
      /\ journal' = journal /\ verdict' = verdict
      /\ launchHealth' = launchHealth /\ found' = found
      /\ plan' = plan /\ launches' = launches /\ upsets' = upsets
  BY DEF NothingToRepair, report, watchdog, counters
<1>3. Types /\ Places /\ ReadyLasts /\ DamageIsTraced
  BY DEF IInv
<1>4. step \in DOMAIN Following
  BY <1>1, <1>3 DEF Places, HealSteps
<1>5. at' \in HealSteps
  BY <1>1, <1>4, FollowingType, HealStepsType
<1>6. Types'
  <2>1. at' \in Steps
    BY <1>5, HealStepsType
  <2>2. TypeOK'
    BY <1>1, <1>2, <1>3, <2>1 DEF Types, TypeOK
  <2>3. QED
    BY <1>2, <1>3, <2>2 DEF Types
<1>7. \A c \in Proofs \cap Requested : work'[c] => Lasts(c)
  BY <1>1, <1>2, <1>3 DEF ReadyLasts
<1>8. ASSUME Spared, NEW f \in found' \ {"java"}
      PROVE  Rebuilt(f)' \/ Awaits(f)'
  <2>1. f \in {"activity_manager", "process", "window", "runtime"}
    BY <1>2, <1>3, <1>8 DEF Types, TypeOK, Files
  <2>2. Rebuilt(f) \/ Awaits(f)
    BY <1>1, <1>2, <1>3, <1>8 DEF DamageIsTraced
  <2>3. Rebuilt(f) => Rebuilt(f)'
    BY <1>2 DEF Rebuilt
  <2>4. Needed(step) <=> IF step = "activity_manager"
                         THEN ~work["activity_manager"] \/ ~work["process"]
                         ELSE IF step = "intent" THEN ~work["intent"] \/ ~work["activity"]
                         ELSE step \in Contracts /\ ~work[step]
    BY <1>1 DEF Needed
  <2>5. Awaits(f) => Awaits(f)'
    <3>1. CASE step \in EarlySteps \ {"activity_manager"}
      <4>1. at' \in EarlySteps
        BY <1>1, <1>4, <3>1, FollowingType
      <4>2. QED
        BY <1>1, <1>2, <3>1, <4>1 DEF Awaits, EarlySteps
    <3>2. CASE step = "activity_manager"
      BY <1>1, <1>2, <2>1, <2>4, <3>2 DEF Awaits, EarlySteps
    <3>3. CASE step \in {"window", "runtime"}
      <4>1. work[step]
        BY <1>1, <2>4, <3>3, ProofsAreContracts DEF Files
      <4>2. step = "window" => at' = "runtime"
        BY <1>1, <1>4, FollowingType
      <4>3. QED
        BY <1>1, <1>2, <2>1, <3>3, <4>1, <4>2 DEF Awaits, EarlySteps
    <3>4. QED
      BY <1>1, <1>4, <3>1, <3>2, <3>3, HealStepsType
  <2>6. QED
    BY <2>2, <2>3, <2>5
<1>9. QED
  BY <1>1, <1>2, <1>5, <1>6, <1>7, <1>8, HealingKeeps

(* A repair that adds its entry to the journal before the contracts' turn.      *)
LEMMA EarlyRepairKeeps ==
  ASSUME IInv, NEW step \in (DOMAIN RepairAction) \cap EarlySteps \cap Proofs, NEW ok \in BOOLEAN,
         phase = "heal", phase' = phase, at = step, at' = Following[step],
         journal' = Append(journal, Entry(RepairAction[step], Outcome(ok))),
         work' \in [Contracts -> BOOLEAN], \A f \in Files : work'[f] = work[f],
         \A c \in Proofs \cap Requested : work'[c] => Lasts(c),
         recoverable' \in BOOLEAN,
         disk' = disk, dirs' = dirs, report' = report, verdict' = verdict,
         launchHealth' = launchHealth, found' = found, counters' = counters
  PROVE  IInv'
<1>1. /\ outcome' = outcome /\ options' = options /\ fault' = fault
      /\ rootSeen' = rootSeen /\ ready' = ready /\ reason' = reason
      /\ plan' = plan /\ launches' = launches /\ upsets' = upsets
  BY DEF report, counters
<1>2. Types /\ DamageIsTraced
  BY DEF IInv
<1> DEFINE e == Entry(RepairAction[step], Outcome(ok))
<1>3. e \in Entries
  <2>1. Outcome(ok) \in Results
    BY DEF Outcome, Results
  <2>2. QED
    BY <2>1, EntryType
<1>4. journal' = Append(journal, e)
  OBVIOUS
<1> HIDE DEF e
<1>5. journal' \in Seq(Entries) /\ \A f : Rebuilt(f) => Rebuilt(f)'
  BY <1>2, <1>3, <1>4, AppendKeeps
<1>6. step \in DOMAIN Following /\ step # "activity_manager"
  BY HealStepsType DEF Proofs
<1>7. at' \in HealSteps /\ at' \in EarlySteps
  BY <1>6, FollowingType
<1>8. Types'
  <2>1. at' \in Steps
    BY <1>7, HealStepsType
  <2>2. \A i \in DOMAIN journal' : journal'[i].result \in Results
    BY <1>5, JournalResults
  <2>3. TypeOK'
    BY <1>1, <1>2, <2>1, <2>2 DEF Types, TypeOK
  <2>4. QED
    BY <1>1, <1>2, <1>5, <2>3 DEF Types
<1>9. ASSUME Spared, NEW f \in found' \ {"java"}
      PROVE  Rebuilt(f)' \/ Awaits(f)'
  <2>1. f \in Files
    BY <1>2, <1>9 DEF Types, TypeOK
  <2>2. Rebuilt(f) \/ Awaits(f)
    BY <1>2, <1>9 DEF DamageIsTraced
  <2>3. work'[f] = work[f]
    BY <2>1
  <2>4. Awaits(f) => Awaits(f)'
    BY <1>7, <2>3 DEF Awaits, EarlySteps
  <2>5. QED
    BY <1>5, <2>2, <2>4
<1>10. QED
  BY <1>1, <1>7, <1>8, <1>9, HealingKeeps

LEMMA AttemptRepairKeeps ==
  ASSUME IInv, NEW step \in Steps, AttemptRepair(step)
  PROVE  IInv'
<1>1. /\ phase = "heal" /\ phase' = phase /\ at = step /\ at' = Following[step]
      /\ step \in Proofs \ {"intent", "activity"}
      /\ work' = [work EXCEPT ![step] = RepairWorks(step)]
      /\ journal' = Append(journal, Entry(RepairAction[step], Outcome(RepairWorks(step))))
      /\ recoverable' = recoverable
      /\ disk' = disk /\ dirs' = dirs /\ report' = report /\ verdict' = verdict
      /\ launchHealth' = launchHealth /\ found' = found /\ counters' = counters
  BY DEF AttemptRepair, AtHealStep, report, counters
<1>2. Types /\ ReadyLasts
  BY DEF IInv
<1>3. work \in [Contracts -> BOOLEAN] /\ recoverable \in BOOLEAN
  BY <1>2 DEF Types, TypeOK
<1>4. RepairWorks(step) \in BOOLEAN /\ (RepairWorks(step) => WorksLater(step))
  <2>1. "lifecycle" \notin Faultable
    BY DEF Faultable, FaultPoints
  <2>2. WorksLater(step) \in BOOLEAN /\ WorksLater("lifecycle")
    BY <2>1 DEF WorksLater
  <2>3. QED
    BY <2>2 DEF RepairWorks, Launched
<1>5. step \in (DOMAIN RepairAction) \cap EarlySteps \cap Proofs
  BY <1>1 DEF RepairAction, EarlySteps, Proofs
<1>6. work' \in [Contracts -> BOOLEAN] /\ \A f \in Files : work'[f] = work[f]
  BY <1>1, <1>3, <1>4, ProofsAreContracts
<1>7. ASSUME NEW c \in Proofs \cap Requested, work'[c]
      PROVE  Lasts(c)
  <2>1. CASE c = step
    BY <1>1, <1>3, <1>4, <1>7, <2>1, ProofsAreContracts DEF Lasts
  <2>2. CASE c # step
    BY <1>1, <1>2, <1>3, <1>7, <2>2, ProofsAreContracts DEF ReadyLasts
  <2>3. QED
    BY <2>1, <2>2
<1>8. QED
  BY <1>1, <1>3, <1>4, <1>5, <1>6, <1>7, EarlyRepairKeeps

LEMMA AttemptRerunIntentResolutionKeeps ==
  ASSUME IInv, AttemptRerunIntentResolution
  PROVE  IInv'
<1> DEFINE ok == ActivityAfterRerun = "none"
<1>1. /\ phase = "heal" /\ phase' = phase /\ at = "intent" /\ at' = Following["intent"]
      /\ work' = [work EXCEPT !["intent"] = WorksLater("intent"), !["activity"] = ok]
      /\ recoverable' = (recoverable /\ WorksLater("intent"))
      /\ journal' = Append(journal, Entry(RepairAction["intent"], Outcome(ok)))
      /\ disk' = disk /\ dirs' = dirs /\ report' = report /\ verdict' = verdict
      /\ launchHealth' = launchHealth /\ found' = found /\ counters' = counters
  BY DEF AttemptRerunIntentResolution, AtHealStep, report, counters
<1>2. Types /\ ReadyLasts
  BY DEF IInv
<1>3. /\ work \in [Contracts -> BOOLEAN] /\ ready \in [Contracts -> BOOLEAN]
  BY <1>2 DEF Types, TypeOK
<1>4. WorksLater("intent") \in BOOLEAN /\ ok \in BOOLEAN
  BY DEF WorksLater
<1>5. "activity" \in Requested /\ ok => Lasts("activity")
  <2>1. SUFFICES ASSUME "activity" \in Requested, ok
                 PROVE  Lasts("activity")
    OBVIOUS
  <2> DEFINE h == [ready EXCEPT !["intent"] = WorksLater("intent")]
  <2>2. Launched /\ \A d \in NeededByActivity : h[d]
    BY <2>1, ActivityReasonType DEF ActivityAfterRerun
  <2>3. ASSUME NEW d \in NeededByActivity
        PROVE  WorksLater(d)
    <3>1. d \in Requested /\ d \in Proofs \ {"activity"}
      BY <1>2, <2>1, RequestedChain, ProofsAreContracts
    <3>2. CASE d = "intent"
      BY <1>3, <2>2, <3>2, ProofsAreContracts
    <3>3. CASE d # "intent"
      BY <1>1, <1>2, <1>3, <2>2, <3>1, <3>3 DEF ReadyLasts, Lasts
    <3>4. QED
      BY <3>2, <3>3
  <2>4. QED
    BY <2>2, <2>3 DEF Lasts
<1> HIDE DEF ok
<1>6. work' \in [Contracts -> BOOLEAN] /\ \A f \in Files : work'[f] = work[f]
  BY <1>1, <1>3, <1>4, ProofsAreContracts DEF Files
<1>7. ASSUME NEW c \in Proofs \cap Requested, work'[c]
      PROVE  Lasts(c)
  <2>1. CASE c = "intent"
    <3>1. WorksLater("intent")
      BY <1>1, <1>3, <1>7, <2>1, ProofsAreContracts
    <3>2. QED
      BY <2>1, <3>1 DEF Lasts
  <2>2. CASE c = "activity"
    BY <1>1, <1>3, <1>5, <1>7, <2>2, ProofsAreContracts
  <2>3. CASE c \notin {"intent", "activity"}
    BY <1>1, <1>2, <1>3, <1>7, <2>3, ProofsAreContracts DEF ReadyLasts
  <2>4. QED
    BY <2>1, <2>2, <2>3
<1>8. "intent" \in (DOMAIN RepairAction) \cap EarlySteps \cap Proofs
  BY DEF RepairAction, EarlySteps, Proofs
<1>9. recoverable' \in BOOLEAN
  BY <1>1, <1>4
<1>10. QED
  BY <1>1, <1>4, <1>6, <1>7, <1>8, <1>9, EarlyRepairKeeps

LEMMA GateKeeps ==
  ASSUME IInv, GateLaunchDependentRepairs
  PROVE  IInv'
<1>1. phase = "heal" /\ phase' = phase /\ at = "surface" /\ at' = "verdict"
  BY DEF GateLaunchDependentRepairs
<1>2. /\ disk' = disk /\ dirs' = dirs /\ outcome' = outcome
      /\ options' = options /\ fault' = fault /\ rootSeen' = rootSeen /\ ready' = ready
      /\ reason' = reason /\ work' = work /\ recoverable' = recoverable
      /\ verdict' = verdict /\ launchHealth' = launchHealth /\ found' = found
      /\ plan' = plan /\ launches' = launches /\ upsets' = upsets
  BY DEF GateLaunchDependentRepairs, report, counters
<1>3. Types /\ ReadyLasts /\ DamageIsTraced
  BY DEF IInv
<1>4. /\ journal' \in Seq(Entries)
      /\ \A f : Rebuilt(f) => Rebuilt(f)'
      /\ \A f \in Files \ {"java"} : ~work[f] => Rebuilt(f)'
  BY <1>3, GateJournals
<1>5. at' \in HealSteps
  BY <1>1, HealStepsType
<1>6. Types'
  <2>1. at' \in Steps
    BY <1>5, HealStepsType
  <2>2. \A i \in DOMAIN journal' : journal'[i].result \in Results
    BY <1>4, JournalResults
  <2>3. TypeOK'
    BY <1>1, <1>2, <1>3, <2>1, <2>2 DEF Types, TypeOK
  <2>4. QED
    BY <1>2, <1>3, <1>4, <2>3 DEF Types
<1>7. ASSUME Spared, NEW f \in found' \ {"java"}
      PROVE  Rebuilt(f)'
  <2>1. f \in Files \ {"java"}
    BY <1>2, <1>3, <1>7 DEF Types, TypeOK
  <2>2. Rebuilt(f) \/ ~work[f]
    BY <1>1, <1>2, <1>3, <1>7 DEF DamageIsTraced, Awaits
  <2>3. QED
    BY <1>4, <2>1, <2>2
<1>8. \A c \in Proofs \cap Requested : work'[c] => Lasts(c)
  BY <1>1, <1>2, <1>3 DEF ReadyLasts
<1>9. QED
  BY <1>1, <1>2, <1>5, <1>6, <1>7, <1>8, HealingKeeps

LEMMA DecideVerdictKeeps ==
  ASSUME IInv, DecideVerdict
  PROVE  IInv'
<1> DEFINE raw == ClassifyHealth(work, recoverable)
           final == IF verdict.initial # "healthy" /\ raw = "healthy" THEN "recovered" ELSE raw
<1>1. /\ phase = "heal" /\ at = "verdict" /\ phase' = "refresh" /\ at' = "proofs"
      /\ verdict' = Verdict(verdict.initial, final)
  BY DEF DecideVerdict
<1>2. /\ disk' = disk /\ dirs' = dirs /\ outcome' = outcome
      /\ options' = options /\ fault' = fault /\ rootSeen' = rootSeen /\ ready' = ready
      /\ reason' = reason /\ work' = work /\ recoverable' = recoverable
      /\ journal' = journal /\ launchHealth' = launchHealth /\ found' = found
      /\ plan' = plan /\ launches' = launches /\ upsets' = upsets
  BY DEF DecideVerdict, report, counters
<1>3. Types /\ Places /\ ReadyLasts /\ DamageIsTraced
  BY DEF IInv
<1>4. raw \in {"healthy", "degraded", "blocked", "unrecoverable"}
      /\ (raw = "healthy" => AllContractsReady(work))
  BY DEF ClassifyHealth
<1> HIDE DEF raw
<1>5. final \in Healths /\ (final \in {"healthy", "recovered"} => AllContractsReady(work))
  BY <1>4 DEF Healths
<1> HIDE DEF final
<1>6. /\ verdict'.initial = verdict.initial /\ verdict'.final = final
      /\ verdict' = Verdict(verdict'.initial, verdict'.final)
  BY <1>1 DEF Verdict
<1>7. Types'
  <2>1. at' \in Steps /\ phase' \in Phases
    BY <1>1 DEF Steps, Phases
  <2>2. TypeOK'
    BY <1>2, <1>3, <1>5, <1>6, <2>1 DEF Types, TypeOK
  <2>3. QED
    BY <1>2, <1>3, <1>6, <2>2 DEF Types
<1>8. Requested' = Requested
  BY <1>2 DEF Requested
<1>9. Places'
  BY <1>1, <1>2, <1>3, <1>8 DEF Places
<1>10. ~LastRun' /\ ReadyLasts'
  BY <1>1 DEF LastRun, ReadyLasts
<1>11. VouchedLasts'
  <2>1. SUFFICES ASSUME SelfHealingVouches'
                 PROVE  Launched' /\ \A c \in Proofs \cap Requested : Lasts(c)'
    BY <1>8 DEF VouchedLasts
  <2>2. AllContractsReady(work)
    BY <1>5, <1>6, <2>1 DEF SelfHealingVouches
  <2>3. Launched /\ \A c \in Proofs : work[c]
    BY <2>2, ProofsAreContracts DEF AllContractsReady, Files
  <2>4. \A c \in Proofs \cap Requested : Lasts(c)
    BY <1>1, <1>3, <2>3 DEF ReadyLasts
  <2>5. QED
    BY <1>2, <2>3, <2>4 DEF Lasts, Launched, WorksLater
<1>12. DamageIsTraced'
  BY <1>1, <1>2, <1>3 DEF DamageIsTraced, Spared, Rebuilt, Awaits, EarlySteps
<1>13. Promises'
  BY <1>1, NotSettledYet
<1>14. QED
  BY <1>7, <1>9, <1>10, <1>11, <1>12, <1>13 DEF IInv, FilesTellSoFar, ReadySoFar

(* The last step is where the promises fall due.                                *)
LEMMA FinalizeKeeps ==
  ASSUME IInv, Finalize
  PROVE  IInv'
<1>1. /\ at = "finalize" /\ phase \in {"launch", "refresh"}
      /\ phase = "refresh" \/ ~SelfHeal(options)
      /\ launchHealth' = EverythingReady /\ phase' = "settled" /\ at' = "nowhere"
  BY DEF Finalize
<1>2. /\ disk' = disk /\ dirs' = dirs /\ outcome' = outcome
      /\ options' = options /\ fault' = fault /\ rootSeen' = rootSeen /\ ready' = ready
      /\ reason' = reason /\ work' = work /\ recoverable' = recoverable
      /\ verdict' = verdict /\ journal' = journal /\ found' = found
      /\ plan' = plan /\ launches' = launches /\ upsets' = upsets
  BY DEF Finalize, report, watchdog, counters
<1>3. Types /\ Places /\ FilesTellSoFar /\ VouchedLasts /\ ReadySoFar /\ DamageIsTraced
  BY DEF IInv
<1>4. LastRun /\ FilesBefore(at) = Files
  BY <1>1 DEF LastRun, FilesBefore
<1>5. Types'
  <2>1. at' \in Steps /\ phase' \in Phases /\ launchHealth' \in BOOLEAN
    BY <1>1 DEF Steps, Phases, EverythingReady
  <2>2. TypeOK'
    BY <1>2, <1>3, <2>1 DEF Types, TypeOK
  <2>3. QED
    BY <1>2, <1>3, <2>2 DEF Types
<1>6. Places' /\ ~LastRun' /\ ReadyLasts' /\ VouchedLasts' /\ DamageIsTraced'
  BY <1>1 DEF Places, LastRun, ReadyLasts, VouchedLasts, DamageIsTraced
<1>7. Promising => EverythingReady
  <2>1. Promising => \A c \in Contracts : ready[c]
    BY <1>3, <1>4, ProofsAreContracts DEF ReadySoFar
  <2>2. QED
    BY <2>1 DEF EverythingReady, Promising
<1>8. VerdictIsHonest'
  <2>1. SUFFICES ASSUME verdict.final \in {"healthy", "recovered"}
                 PROVE  EverythingReady
    BY <1>1, <1>2 DEF VerdictIsHonest
  <2>2. phase = "refresh"
    BY <1>1, <1>3, <2>1 DEF Places, NoVerdict, Verdict
  <2>3. Launched /\ SelfHeal(options)
    BY <1>3, <2>1, <2>2 DEF VouchedLasts, SelfHealingVouches, Places
  <2>4. QED
    BY <1>7, <2>1, <2>3 DEF Promising, SelfHealingVouches
<1>9. HealableIsHealed'
  <2>1. SUFFICES ASSUME Launched,
                        \A c \in Faultable : IF SelfHeal(options) THEN fault[c] # "permanent"
                                             ELSE fault[c] = "ok"
                 PROVE  EverythingReady
    BY <1>1, <1>2 DEF HealableIsHealed, Launched
  <2>2. QED
    BY <1>7, <2>1 DEF Promising
<1>10. FilesTellTheReport'
  BY <1>2, <1>3, <1>4 DEF FilesTellSoFar, FilesTellTheReport, Requested
<1>11. NoSilentHealing'
  BY <1>1, <1>2, <1>3 DEF NoSilentHealing, DamageIsTraced, Spared, Rebuilt
<1>12. QED
  BY <1>5, <1>6, <1>8, <1>9, <1>10, <1>11 DEF IInv, Promises, FilesTellSoFar, ReadySoFar

LEMMA StutterKeeps ==
  ASSUME IInv, UNCHANGED vars
  PROVE  IInv'
<1>1. /\ disk' = disk /\ dirs' = dirs /\ phase' = phase /\ at' = at /\ outcome' = outcome
      /\ options' = options /\ fault' = fault /\ rootSeen' = rootSeen /\ ready' = ready
      /\ reason' = reason /\ work' = work /\ recoverable' = recoverable
      /\ verdict' = verdict /\ journal' = journal /\ launchHealth' = launchHealth
      /\ found' = found /\ plan' = plan /\ launches' = launches /\ upsets' = upsets
  BY DEF vars, report, watchdog, counters
<1>2. Types'
  BY <1>1 DEF IInv, Types, TypeOK
<1>3. /\ Requested' = Requested /\ \A c : Lasts(c)' = Lasts(c)
      /\ Spared' = Spared /\ SelfHealingVouches' = SelfHealingVouches
      /\ Launched' = Launched
  BY <1>1 DEF Requested, Lasts, Launched, WorksLater, Spared, SelfHealingVouches
<1>4. \A f : (Rebuilt(f)' <=> Rebuilt(f)) /\ (Awaits(f)' <=> Awaits(f))
  BY <1>1 DEF Rebuilt, Awaits
<1>5. Places' /\ FilesTellSoFar' /\ ReadyLasts' /\ VouchedLasts' /\ DamageIsTraced'
  BY <1>1, <1>3, <1>4 DEF IInv, Places, FilesTellSoFar, LastRun, ReadyLasts, VouchedLasts,
                         DamageIsTraced
<1>6. ReadySoFar'
  BY <1>1, <1>3 DEF IInv, ReadySoFar, LastRun, Promising
<1>7. Promises'
  BY <1>1, <1>3 DEF IInv, Promises, VerdictIsHonest, HealableIsHealed, FilesTellTheReport,
                    NoSilentHealing, Settled
<1>8. QED
  BY <1>2, <1>5, <1>6, <1>7 DEF IInv

LEMMA NextKeeps ==
  ASSUME IInv, [Next]_vars
  PROVE  IInv'
<1>1. Types
  BY DEF IInv
<1>2. CASE UNCHANGED vars
  BY <1>2, StutterKeeps
<1>3. ASSUME NEW o \in plan.requests, BeginLaunch(o)
      PROVE  IInv'
  BY <1>1, <1>3, BeginLaunchKeeps
<1>4. ASSUME NEW p \in FaultPoints, Break(p[1], p[2])
      PROVE  IInv'
  BY <1>4, BreakKeeps
<1>5. ASSUME NEW o \in Outcomes, RunProofs(o)
      PROVE  IInv'
  BY <1>5, RunProofsKeeps
<1>6. CASE RefreshProofs
  BY <1>6, RefreshProofsKeeps
<1>7. ASSUME NEW f \in Files, BuildContract(f)
      PROVE  IInv'
  BY <1>7, BuildForTheReportKeeps, BuildForTheWatchdogKeeps
<1>8. CASE StartWatchdog
  BY <1>8, StartWatchdogKeeps
<1>9. ASSUME NEW step \in Steps, NothingToRepair(step)
      PROVE  IInv'
  BY <1>9, NothingToRepairKeeps
<1>10. ASSUME NEW step \in Steps, AttemptRepair(step)
       PROVE  IInv'
  BY <1>10, AttemptRepairKeeps
<1>11. CASE AttemptRerunIntentResolution
  BY <1>11, AttemptRerunIntentResolutionKeeps
<1>12. CASE GateLaunchDependentRepairs
  BY <1>12, GateKeeps
<1>13. CASE DecideVerdict
  BY <1>13, DecideVerdictKeeps
<1>14. CASE Finalize
  BY <1>14, FinalizeKeeps
<1>15. CASE Crash
  BY <1>1, <1>15, CrashKeeps
<1>16. ASSUME NEW f \in Files, CrashWhileWriting(f)
       PROVE  IInv'
  BY <1>1, <1>16, CrashWhileWritingKeeps
<1>17. ASSUME NEW f \in Files, Damage(f)
       PROVE  IInv'
  BY <1>1, <1>17, DamageKeeps
<1>18. QED
  BY <1>2, <1>3, <1>4, <1>5, <1>6, <1>7, <1>8, <1>9, <1>10, <1>11, <1>12, <1>13, <1>14,
     <1>15, <1>16, <1>17 DEF Next

LEMMA SelfHealingInvariant == Spec => []IInv
<1>1. Init => IInv
  BY InitKeeps
<1>2. IInv /\ [Next]_vars => IInv'
  BY NextKeeps
<1>3. QED
  BY <1>1, <1>2, PTL DEF Spec

--------------------------------------------------------------------------------
(* What follows for every behaviour.                                            *)

(* The contract files, the report, the watchdog's copy of it, the journal and   *)
(* the verdict keep their shapes through every launch, repair, crash and        *)
(* damage: a bridge whose ladder runs through always names a known reason.      *)
THEOREM SelfHealingTypesOK == Spec => []TypeOK
<1>1. IInv => TypeOK
  BY DEF IInv, Types
<1>2. QED
  BY <1>1, SelfHealingInvariant, PTL

(* The watchdog works on its own copy of the answers; when it calls the session *)
(* healthy or recovered, the proofs the launch runs again after it all pass     *)
(* (RunSelfHealingWatchdog, FinalizeNativeApkLaunchReport).                     *)
THEOREM VerdictsAreHonest == Spec => []VerdictIsHonest
<1>1. IInv => VerdictIsHonest
  BY DEF IInv, Promises
<1>2. QED
  BY <1>1, SelfHealingInvariant, PTL

(* Whatever earlier launches, crashes and damages left in the sandbox, a launch *)
(* whose native code ran and whose remaining faults do not last ends ready.     *)
THEOREM HealableSessionsAreHealed == Spec => []HealableIsHealed
<1>1. IInv => HealableIsHealed
  BY DEF IInv, Promises
<1>2. QED
  BY <1>1, SelfHealingInvariant, PTL

(* After a launch every requested contract file tells the reason its report     *)
(* tells: nothing blamed on an old file and nothing of the watchdog's copy      *)
(* survives the refresh.                                                        *)
THEOREM FilesAlwaysTellTheReport == Spec => []FilesTellTheReport
<1>1. IInv => FilesTellTheReport
  BY DEF IInv, Promises
<1>2. QED
  BY <1>1, SelfHealingInvariant, PTL

(* A damaged contract that a self-healing launch finds is never replaced        *)
(* without an entry in the recovery journal, java's aside.                      *)
THEOREM HealingIsNeverSilent == Spec => []NoSilentHealing
<1>1. IInv => NoSilentHealing
  BY DEF IInv, Promises
<1>2. QED
  BY <1>1, SelfHealingInvariant, PTL
================================================================================
