-------------------------- MODULE DeviceBridgeProofs --------------------------
(* What the runtime bridge's reports promise, for any scripts of commands, any  *)
(* devices and compat roots, and however often these change while a command is  *)
(* under way (DeviceBridge).                                                    *)
EXTENDS DeviceBridge, TLAPS

AnswerFields ==
  {"targets", "serial", "notes", "component", "visible", "component_ready",
   "probe_ready", "planned", "ready", "launch_ok", "install_ok", "enable_ok", "set_ok",
   "asked", "seen", "readback_ok", "settings_ok", "usable"}
IsAnswer(a) == a = [f \in AnswerFields |-> a[f]]

(* What a finished report can be relied on for: the three properties, of one    *)
(* request and its answer.                                                      *)
RightImeReport(r, a) ==
  /\ a.ready => a.usable
  /\ Progress(r, a) = 100 <=> a.ready
RightPreflight(r, a) ==
  /\ a.notes = "looks_ready" => a.ready
  /\ a.ready => a.notes \in {"looks_ready", "auto_selected"}
Right(r, a) ==
  /\ r.command = "provision-ime" => RightImeReport(r, a)
  /\ r.command = "preflight-runtime" => RightPreflight(r, a)

(* What is known of a report at each step of a command. *)
ImeSteps       == {"install", "enable", "set", "query", "settings"}
PreflightSteps == {"discover", "visible", "launcher", "lookup", "diagnose"}

ImeSoFar(r, s, a) ==
  /\ r.command = "provision-ime" => s \in ImeSteps
  /\ s \in ImeSteps => r.command \in {"provision-ime", "adb-ime-status"}
  /\ r.command = "provision-ime" /\ s # "install" => r.matches
  /\ a.install_ok \in BOOLEAN /\ a.enable_ok \in BOOLEAN /\ a.set_ok \in BOOLEAN
  /\ a.readback_ok = FALSE /\ a.settings_ok = FALSE
  /\ a.usable \in BOOLEAN /\ a.seen \subseteq AllFacts
  /\ s = "install" => a.install_ok = FALSE /\ a.enable_ok = FALSE /\ a.set_ok = FALSE
  /\ s \in {"install", "enable", "set"} => a.asked = 0 /\ a.seen = {}
  /\ s = "query" => a.asked \in 0 .. 3 /\ "default" \notin a.seen
  /\ s = "settings" => r.settings /\ ("default" \in a.seen => a.usable)

PreflightSoFar(r, s, a) ==
  /\ s \in PreflightSteps
  /\ a.notes \in {"none", "auto_selected"} /\ a.probe_ready = FALSE
  /\ s = "discover" => a.notes = "none"
  /\ s \in {"visible", "launcher"} => r.backend = "attached-adb"
  /\ s = "launcher" => a.visible = TRUE
  /\ s \in {"lookup", "diagnose"} => r.backend = "native" /\ r.package
  /\ s = "diagnose" => a.visible = TRUE /\ a.component_ready = TRUE

SoFar(r, s, a) ==
  /\ IsAnswer(a) /\ a.ready = FALSE
  /\ ImeSoFar(r, s, a)
  /\ r.command = "preflight-runtime" => PreflightSoFar(r, s, a)

WorldOK ==
  /\ world = [adb |-> world.adb, waydroid |-> world.waydroid, staged |-> world.staged]
  /\ world.adb \in [DOMAIN world.adb -> Devices]
  /\ "none" \notin DOMAIN world.adb
  /\ \A k \in DOMAIN script :
       AsksDevice(script[k]) => script[k].serial \in DOMAIN world.adb

ScriptInv ==
  /\ script \in Seq(Requests)
  /\ answers \in Seq({answers[k] : k \in DOMAIN answers})
  /\ Len(answers) <= Len(script)
  /\ step # "over" => Len(answers) < Len(script)
  /\ \A k \in DOMAIN answers : Right(script[k], answers[k])
  /\ step \notin {"over", "hung"} => SoFar(Request, step, answer)

DeviceInv == WorldOK /\ ScriptInv

--------------------------------------------------------------------------------
(* A command begins.                                                            *)

LEMMA BlankIsAnswer == IsAnswer(Blank)
BY DEF IsAnswer, AnswerFields, Blank

LEMMA Begins ==
  ASSUME NEW r \in Requests
  PROVE  SoFar(r, FirstStep(r), FirstAnswer(r)) /\ FirstStep(r) \notin {"over", "hung"}
<1>1. DEFINE a == FirstAnswer(r)
<1>2. IsAnswer(a)
  BY DEF FirstAnswer, Blank, IsAnswer, AnswerFields
<1>3. /\ a.ready = FALSE /\ a.notes = "none" /\ a.probe_ready = FALSE
      /\ a.install_ok = FALSE /\ a.enable_ok = FALSE /\ a.set_ok = FALSE
      /\ a.readback_ok = FALSE /\ a.settings_ok = FALSE /\ a.usable = FALSE
      /\ a.asked = 0 /\ a.seen = {}
  BY DEF FirstAnswer, Blank
<1>4. /\ FirstStep(r) \in ImeSteps => r.command \in {"provision-ime", "adb-ime-status"}
      /\ r.command = "provision-ime" => FirstStep(r) = "install"
      /\ r.command = "preflight-runtime" => FirstStep(r) = "discover"
      /\ FirstStep(r) \notin {"over", "hung", "settings"}
  BY DEF FirstStep, ImeSteps, Requests
<1>5. ImeSoFar(r, FirstStep(r), a)
  <2>1. /\ a.install_ok \in BOOLEAN /\ a.enable_ok \in BOOLEAN
        /\ a.set_ok \in BOOLEAN /\ a.usable \in BOOLEAN
    BY <1>3
  <2>2. a.seen \subseteq AllFacts /\ "default" \notin a.seen /\ a.asked \in 0 .. 3
    BY <1>3
  <2>3. QED
    BY <1>3, <1>4, <2>1, <2>2 DEF ImeSoFar, ImeSteps
<1>6. r.command = "preflight-runtime" => PreflightSoFar(r, FirstStep(r), a)
  BY <1>3, <1>4 DEF PreflightSoFar, PreflightSteps
<1>7. QED
  BY <1>2, <1>3, <1>4, <1>5, <1>6 DEF SoFar

LEMMA InitDeviceInv == DeviceInit => DeviceInv
<1>1. SUFFICES ASSUME DeviceInit PROVE DeviceInv
  OBVIOUS
<1>2. WorldOK
  BY <1>1, DeviceAssumption DEF DeviceInit, WorldOK
<1>3. script \in Seq(Requests) /\ Len(script) > 0 /\ script[1] \in Requests
  BY <1>1, DeviceAssumption DEF DeviceInit
<1>4. Len(answers) = 0 /\ answers = << >> /\ Request = script[1]
  BY <1>1 DEF DeviceInit, Request
<1>5. ScriptInv
  BY <1>1, <1>3, <1>4, Begins DEF DeviceInit, ScriptInv
<1>6. QED
  BY <1>2, <1>5 DEF DeviceInv

--------------------------------------------------------------------------------
(* A command goes on to another step, or ends with a report.                    *)

MovesOn ==
  \/ \E next, a : /\ next \notin {"over", "hung"}
                  /\ Go(next, a) /\ SoFar(Request, next, a)
  \/ \E a : Finish(a) /\ Right(Request, a)

LEMMA AdvanceKeepsScriptInv ==
  ASSUME ScriptInv, step \notin {"over", "hung"}, MovesOn, UNCHANGED script
  PROVE  ScriptInv'
<1>1. CASE \E next, a : /\ next \notin {"over", "hung"}
                       /\ Go(next, a) /\ SoFar(Request, next, a)
  <2>1. PICK next, a : /\ next \notin {"over", "hung"}
                       /\ Go(next, a) /\ SoFar(Request, next, a)
    BY <1>1
  <2>2. Request' = Request /\ answers' = answers /\ step' = next /\ answer' = a
    BY <2>1 DEF Go, Request
  <2>3. SoFar(Request, step, answer)'
    BY <2>1, <2>2
  <2>4. QED
    BY <2>1, <2>2, <2>3 DEF ScriptInv
<1>2. CASE \E a : Finish(a) /\ Right(Request, a)
  <2>1. PICK a : Finish(a) /\ Right(Request, a)
    BY <1>2
  <2>2. /\ Len(answers) \in Nat /\ Len(script) \in Nat
        /\ Len(answers) < Len(script)
        /\ DOMAIN answers = 1 .. Len(answers)
    BY DEF ScriptInv
  <2>3. /\ answers' = Append(answers, a)
        /\ Len(answers') = Len(answers) + 1
        /\ DOMAIN answers' = 1 .. Len(answers) + 1
        /\ answers'[Len(answers) + 1] = a
        /\ \A k \in DOMAIN answers : answers'[k] = answers[k]
        /\ answers' \in Seq({answers'[k] : k \in DOMAIN answers'})
    <3>1. DEFINE S == {answers[k] : k \in DOMAIN answers} \cup {a}
    <3>2. answers \in Seq(S)
      BY <2>2 DEF ScriptInv
    <3>3. answers' = Append(answers, a)
      BY <2>1 DEF Finish
    <3>4. a \in S
      OBVIOUS
    <3>5. HIDE DEF S
    <3>6. /\ Len(answers') = Len(answers) + 1
          /\ DOMAIN answers' = 1 .. Len(answers) + 1
          /\ answers'[Len(answers) + 1] = a
          /\ \A k \in DOMAIN answers : answers'[k] = answers[k]
          /\ answers' \in Seq(S)
      BY <3>2, <3>3, <3>4
    <3>7. answers' \in Seq({answers'[k] : k \in DOMAIN answers'})
      BY <3>6
    <3>8. QED
      BY <3>3, <3>6, <3>7
  <2>4. ASSUME NEW k \in DOMAIN answers' PROVE Right(script'[k], answers'[k])
    <3>1. CASE k = Len(answers) + 1
      BY <2>1, <2>3, <3>1 DEF Request
    <3>2. CASE k \in DOMAIN answers
      BY <2>3, <3>2 DEF ScriptInv
    <3>3. QED
      BY <2>2, <2>3, <3>1, <3>2
  <2>5. CASE Len(answers') < Len(script)
    <3>1. Request' \in Requests
      BY <2>2, <2>3, <2>5 DEF Request, ScriptInv
    <3>2. step' = FirstStep(Request') /\ answer' = FirstAnswer(Request')
      BY <2>1, <2>5 DEF Finish, Request
    <3>3. SoFar(Request', step', answer')
      BY <3>1, <3>2, Begins
    <3>4. QED
      BY <2>2, <2>3, <2>4, <2>5, <3>3 DEF ScriptInv
  <2>6. CASE ~(Len(answers') < Len(script))
    <3>1. step' = "over"
      BY <2>1, <2>6 DEF Finish
    <3>2. QED
      BY <2>2, <2>3, <2>4, <3>1 DEF ScriptInv
  <2>7. QED
    BY <2>5, <2>6
<1>3. QED
  BY <1>1, <1>2 DEF MovesOn

(* Steps that have nothing to do with input methods leave their part alone.     *)
SameIme(a, b) ==
  /\ b.install_ok = a.install_ok /\ b.enable_ok = a.enable_ok /\ b.set_ok = a.set_ok
  /\ b.readback_ok = a.readback_ok /\ b.settings_ok = a.settings_ok
  /\ b.usable = a.usable /\ b.seen = a.seen

LEMMA ElsewhereImeIsKept ==
  ASSUME NEW r, NEW s, NEW t, NEW a, NEW b,
         ImeSoFar(r, s, a), s \notin ImeSteps, t \notin ImeSteps, SameIme(a, b)
  PROVE  ImeSoFar(r, t, b) /\ r.command # "provision-ime"
BY DEF ImeSoFar, SameIme, ImeSteps

--------------------------------------------------------------------------------
(* Discovery.                                                                   *)

LEMMA SelectionNotes ==
  ASSUME NEW available, NEW targets
  PROVE  SelectionNote(available, targets) \in
           {"none", "backend_unavailable", "no_targets", "serial_unknown",
            "target_offline", "none_online", "several_online"}
BY DEF SelectionNote

LEMMA SelectedFacts ==
  ASSUME NEW targets, IsAnswer(answer)
  PROVE  LET b == Selected(targets) IN
         /\ IsAnswer(b) /\ SameIme(answer, b)
         /\ b.ready = answer.ready /\ b.probe_ready = answer.probe_ready
         /\ b.notes \in {"none", "auto_selected"}
<1>1. DEFINE serial == IF Request.serial # "none" THEN answer.serial
                       ELSE CHOOSE s \in Online(targets) : TRUE
             notes  == IF Request.serial # "none" THEN "none" ELSE "auto_selected"
<1>2. Selected(targets) =
        [answer EXCEPT !.targets = targets, !.serial = serial, !.notes = notes]
  BY Zenon DEF Selected
<1>3. notes \in {"none", "auto_selected"}
  OBVIOUS
<1>4. HIDE DEF serial, notes
<1>5. QED
  BY <1>2, <1>3 DEF IsAnswer, AnswerFields, SameIme

(* A verdict is ready just when its note says nothing against it.               *)
LEMMA VerdictIsRight ==
  ASSUME NEW a, IsAnswer(a),
         a.notes = "none" =>
           a.visible /\ a.component_ready
           /\ (OnNative /\ Request.package => a.probe_ready /\ a.planned),
         a.notes = "looks_ready" =>
           a.visible /\ a.component_ready
           /\ (OnNative /\ Request.package => a.probe_ready /\ a.planned),
         a.visible /\ a.component_ready
           /\ (OnNative /\ Request.package => a.probe_ready /\ a.planned) =>
             a.notes \in {"none", "looks_ready", "auto_selected"}
  PROVE  RightPreflight(Request, Verdict(a))
<1>1. /\ Verdict(a).notes = IF a.notes = "none" THEN "looks_ready" ELSE a.notes
      /\ Verdict(a).ready <=>
           a.visible /\ a.component_ready
           /\ (OnNative /\ Request.package => a.probe_ready /\ a.planned)
  BY DEF Verdict, IsAnswer, AnswerFields
<1>2. QED
  BY <1>1 DEF RightPreflight

LEMMA DiscoveredAdvances ==
  ASSUME SoFar(Request, step, answer), step = "discover",
         NEW available, NEW targets, Discovered(available, targets)
  PROVE  MovesOn
<1>1. /\ IsAnswer(answer) /\ answer.ready = FALSE
      /\ ImeSoFar(Request, "discover", answer)
      /\ "discover" \notin ImeSteps
      /\ Request.command # "provision-ime"
      /\ Request.command = "preflight-runtime" => answer.probe_ready = FALSE
  BY ElsewhereImeIsKept DEF SoFar, ImeSteps, PreflightSoFar, SameIme
<1>2. CASE Request.command = "discover-runtime"
  <2>1. PICK a : Finish(a)
    BY <1>2 DEF Discovered
  <2>2. QED
    BY <1>2, <2>1 DEF MovesOn, Right
<1>3. CASE Request.command # "discover-runtime"
           /\ SelectionNote(available, targets) # "none"
  <2>1. DEFINE a == [answer EXCEPT !.targets = targets,
                                   !.notes = SelectionNote(available, targets)]
  <2>2. Finish(a)
    BY <1>3 DEF Discovered
  <2>3. a.ready = FALSE /\ a.notes = SelectionNote(available, targets)
    BY <1>1 DEF IsAnswer, AnswerFields
  <2>4. Right(Request, a)
    BY <1>1, <1>3, <2>3, SelectionNotes DEF Right, RightPreflight
  <2>5. QED
    BY <2>2, <2>4 DEF MovesOn
<1>4. CASE Request.command # "discover-runtime"
           /\ SelectionNote(available, targets) = "none"
  <2>1. DEFINE b == Selected(targets)
  <2>2. Chosen(b)
    BY <1>4 DEF Discovered
  <2>3. /\ IsAnswer(b) /\ SameIme(answer, b) /\ b.ready = FALSE
        /\ b.notes \in {"none", "auto_selected"}
        /\ Request.command = "preflight-runtime" => b.probe_ready = FALSE
    BY <1>1, SelectedFacts
  <2>4. HIDE DEF b
  <2>5. CASE Request.package /\ OnAdb
    <3>1. SoFar(Request, "visible", b)
      BY <1>1, <2>3, <2>5, ElsewhereImeIsKept
         DEF SoFar, PreflightSoFar, PreflightSteps, ImeSteps, OnAdb
    <3>2. QED
      BY <2>2, <2>5, <3>1 DEF Chosen, MovesOn
  <2>6. CASE ~(Request.package /\ OnAdb) /\ Request.package /\ OnNative
    <3>1. SoFar(Request, "lookup", b)
      BY <1>1, <2>3, <2>6, ElsewhereImeIsKept
         DEF SoFar, PreflightSoFar, PreflightSteps, ImeSteps, OnNative
    <3>2. QED
      BY <2>2, <2>6, <3>1 DEF Chosen, MovesOn
  <2>7. CASE ~(Request.package /\ OnAdb) /\ ~(Request.package /\ OnNative)
    <3>1. DEFINE c == [b EXCEPT !.visible = TRUE, !.component_ready = TRUE]
    <3>2. Finish(Verdict(c))
      BY <2>2, <2>7 DEF Chosen
    <3>3. IsAnswer(c) /\ c.visible /\ c.component_ready /\ c.notes = b.notes
      BY <2>3 DEF IsAnswer, AnswerFields
    <3>4. HIDE DEF c
    <3>5. RightPreflight(Request, Verdict(c))
      BY <2>3, <2>7, <3>3, VerdictIsRight
    <3>6. QED
      BY <1>1, <3>2, <3>5 DEF Right, MovesOn
  <2>8. QED
    BY <2>5, <2>6, <2>7
<1>5. QED
  BY <1>2, <1>3, <1>4

LEMMA DiscoveryAdvances ==
  ASSUME SoFar(Request, step, answer), DiscoverAdb \/ DiscoverWaydroid \/ DiscoverNative
  PROVE  MovesOn
BY DiscoveredAdvances DEF DiscoverAdb, DiscoverWaydroid, DiscoverNative

--------------------------------------------------------------------------------
(* Questions about an app, and launches.                                        *)

(* What a step outside discovery and provisioning starts from.                  *)
LEMMA OutsideIme ==
  ASSUME SoFar(Request, step, answer), step \notin ImeSteps
  PROVE  /\ IsAnswer(answer) /\ answer.ready = FALSE
         /\ ImeSoFar(Request, step, answer) /\ Request.command # "provision-ime"
BY ElsewhereImeIsKept DEF SoFar, SameIme

LEMMA OthersMayEnd ==
  ASSUME Request.command \notin {"provision-ime", "preflight-runtime"},
         NEW a, Finish(a)
  PROVE  MovesOn
BY DEF MovesOn, Right

LEMMA CheckVisibleAdvances ==
  ASSUME SoFar(Request, step, answer), CheckVisible PROVE MovesOn
<1>1. step = "visible" /\ step \notin ImeSteps /\ "launcher" \notin ImeSteps
  BY DEF CheckVisible, ImeSteps
<1>2. PICK exit \in BoundedExits(answer.serial) :
        LET visible == exit = 0 /\ world.adb[answer.serial].setup > 0
            checked == [answer EXCEPT
              !.visible = visible,
              !.notes = IF TimedOut(exit) THEN "visibility_timeout"
                        ELSE IF visible THEN @
                        ELSE NoteIfNone(answer, "package_invisible")] IN
        IF Is({"inspect-package"})
          THEN IF visible THEN Go("launcher", checked) ELSE Finish(checked)
        ELSE IF visible /\ Request.component = "none" THEN Go("launcher", checked)
        ELSE Finish(Verdict([checked EXCEPT !.component_ready = visible]))
  BY DEF CheckVisible
<1>3. DEFINE visible == exit = 0 /\ world.adb[answer.serial].setup > 0
             notes == IF TimedOut(exit) THEN "visibility_timeout"
                      ELSE IF visible THEN answer.notes
                      ELSE NoteIfNone(answer, "package_invisible")
             checked == [answer EXCEPT !.visible = visible, !.notes = notes]
             judged == [checked EXCEPT !.component_ready = visible]
<1>4. /\ visible \in BOOLEAN
      /\ visible => notes = answer.notes
      /\ ~visible => notes \notin {"none", "looks_ready"}
                     \/ (notes = answer.notes /\ answer.notes # "none")
  <2>1. visible \in BOOLEAN
    OBVIOUS
  <2>2. exit = 0 => ~TimedOut(exit)
    BY DEF TimedOut, PcloseStatus, Timeout
  <2>3. visible => notes = answer.notes
    BY <2>2
  <2>4. notes \in {"visibility_timeout", "package_invisible", answer.notes}
    BY DEF NoteIfNone
  <2>5. ~visible /\ notes = answer.notes /\ answer.notes = "none" => FALSE
    BY DEF NoteIfNone
  <2>6. QED
    BY <2>1, <2>3, <2>4, <2>5
<1>5. \/ Go("launcher", checked) /\ visible
      \/ Finish(checked) /\ Request.command = "inspect-package"
      \/ Finish(Verdict(judged))
  BY <1>2, Zenon DEF Is
<1>6. HIDE DEF visible, notes
<1>7. /\ IsAnswer(checked) /\ SameIme(answer, checked)
      /\ checked.ready = FALSE /\ checked.probe_ready = answer.probe_ready
      /\ checked.visible = visible /\ checked.notes = notes
  BY <1>1, OutsideIme DEF IsAnswer, AnswerFields, SameIme
<1>8. HIDE DEF checked
<1>9. /\ IsAnswer(judged)
      /\ judged.visible = visible /\ judged.component_ready = visible
      /\ judged.notes = checked.notes
  BY <1>7 DEF IsAnswer, AnswerFields
<1>10. HIDE DEF judged
<1>11. Request.command = "preflight-runtime" =>
        /\ answer.notes \in {"none", "auto_selected"} /\ answer.probe_ready = FALSE
        /\ Request.backend = "attached-adb"
  BY <1>1 DEF SoFar, PreflightSoFar
<1>12. CASE Go("launcher", checked) /\ visible
  <2>1. SoFar(Request, "launcher", checked)
    BY <1>1, <1>4, <1>7, <1>11, <1>12, OutsideIme, ElsewhereImeIsKept
       DEF SoFar, PreflightSoFar, PreflightSteps
  <2>2. QED
    BY <1>12, <2>1 DEF MovesOn
<1>13. CASE Finish(checked) /\ Request.command = "inspect-package"
  BY <1>13, OthersMayEnd
<1>14. CASE Finish(Verdict(judged))
  <2>1. Request.command = "preflight-runtime" => RightPreflight(Request, Verdict(judged))
    BY <1>4, <1>7, <1>9, <1>11, VerdictIsRight DEF OnNative
  <2>2. QED
    BY <1>1, <1>14, <2>1, OutsideIme DEF Right, MovesOn
<1>15. QED
  BY <1>5, <1>12, <1>13, <1>14

LEMMA ResolveLauncherAdvances ==
  ASSUME SoFar(Request, step, answer), ResolveLauncher PROVE MovesOn
<1>1. step = "launcher" /\ step \notin ImeSteps /\ {"path", "start"} \cap ImeSteps = {}
  BY DEF ResolveLauncher, ImeSteps
<1>2. PICK exit \in BoundedExits(answer.serial) :
        LET found == Launcher(exit)
            resolved == [answer EXCEPT
              !.component = found,
              !.component_ready = found # "none",
              !.notes = IF found # "none" THEN @
                        ELSE NoteIfNone(answer, NoLauncherNote(exit))] IN
        IF Is({"preflight-runtime"}) THEN Finish(Verdict(resolved))
        ELSE IF Is({"inspect-package"}) THEN Go("path", resolved)
        ELSE IF found = "none" THEN Finish(resolved)
        ELSE Go("start", resolved)
  BY DEF ResolveLauncher
<1>3. DEFINE found == Launcher(exit)
             ready == found # "none"
             notes == IF found # "none" THEN answer.notes
                      ELSE NoteIfNone(answer, NoLauncherNote(exit))
             resolved == [answer EXCEPT
               !.component = found, !.component_ready = ready, !.notes = notes]
<1>4. /\ ready \in BOOLEAN
      /\ ready => notes = answer.notes
      /\ ~ready => notes \notin {"none", "looks_ready"}
                   \/ (notes = answer.notes /\ answer.notes # "none")
  <2>1. NoLauncherNote(exit) \in {"launcher_timeout", "no_launcher"}
    BY DEF NoLauncherNote
  <2>2. HIDE DEF found
  <2>3. QED
    BY <2>1 DEF NoteIfNone
<1>5. \/ Request.command = "preflight-runtime" /\ Finish(Verdict(resolved))
      \/ Request.command # "preflight-runtime"
         /\ (Go("path", resolved) \/ Finish(resolved) \/ Go("start", resolved))
  <2>1. step # "over"
    BY <1>1
  <2>2. QED
    BY <1>2, <2>1, Zenon DEF Is
<1>6. HIDE DEF found, ready, notes
<1>7. /\ IsAnswer(resolved) /\ SameIme(answer, resolved) /\ resolved.ready = FALSE
      /\ resolved.visible = answer.visible
      /\ resolved.component_ready = ready /\ resolved.notes = notes
  BY <1>1, OutsideIme DEF IsAnswer, AnswerFields, SameIme
<1>8. HIDE DEF resolved
<1>9. CASE Request.command = "preflight-runtime" /\ Finish(Verdict(resolved))
  <2>1. /\ answer.notes \in {"none", "auto_selected"} /\ answer.visible = TRUE
        /\ Request.backend = "attached-adb"
    BY <1>1, <1>9 DEF SoFar, PreflightSoFar
  <2>2. RightPreflight(Request, Verdict(resolved))
    BY <1>4, <1>7, <2>1, VerdictIsRight DEF OnNative
  <2>3. QED
    BY <1>9, <2>2 DEF Right, MovesOn
<1>10. CASE Request.command # "preflight-runtime"
           /\ (Go("path", resolved) \/ Finish(resolved) \/ Go("start", resolved))
  <2>1. SoFar(Request, "path", resolved) /\ SoFar(Request, "start", resolved)
    BY <1>1, <1>7, <1>10, OutsideIme, ElsewhereImeIsKept DEF SoFar
  <2>2. QED
    BY <1>1, <1>10, <2>1, OutsideIme, OthersMayEnd DEF MovesOn
<1>11. QED
  BY <1>5, <1>9, <1>10

(* Inspections and launches say nothing that Right is about.                    *)
LEMMA FurtherStepsAdvance ==
  ASSUME SoFar(Request, step, answer),
         InspectFurther \/ StartActivity \/ StartWaydroidApp \/ Execute
  PROVE  MovesOn
<1>1. /\ step \in {"path", "dump", "start", "execute"}
      /\ step \notin ImeSteps /\ step \notin PreflightSteps /\ "dump" \notin ImeSteps
  BY DEF InspectFurther, StartActivity, StartWaydroidApp, Execute, ImeSteps,
         PreflightSteps
<1>2. Request.command \notin {"provision-ime", "preflight-runtime"}
  BY <1>1, OutsideIme DEF SoFar, PreflightSoFar
<1>3. SoFar(Request, "dump", answer)
  BY <1>1, <1>2, OutsideIme, ElsewhereImeIsKept DEF SoFar, SameIme
<1>4. Go("dump", answer) \/ \E a : Finish(a)
  BY DEF InspectFurther, StartActivity, StartWaydroidApp, Execute
<1>5. QED
  BY <1>2, <1>3, <1>4, OthersMayEnd DEF MovesOn

--------------------------------------------------------------------------------
(* Apps in the compat root.                                                     *)

LEMMA LookUpAdvances ==
  ASSUME SoFar(Request, step, answer), LookUpStaged PROVE MovesOn
<1>1. step = "lookup" /\ step \notin ImeSteps /\ {"diagnose", "execute"} \cap ImeSteps = {}
  BY DEF LookUpStaged, ImeSteps
<1>2. DEFINE found == Found
             component == IF Request.component = "none" /\ found THEN Staged.launcher
                          ELSE Request.component
             ready == found /\ component # "none" /\ Request.component # "foreign"
             notes == IF ~found THEN "not_staged"
                      ELSE IF Request.component = "foreign" THEN "component_elsewhere"
                      ELSE IF component = "none" THEN "no_launcher" ELSE answer.notes
             looked == [answer EXCEPT !.visible = found, !.component = component,
                                      !.component_ready = ready, !.notes = notes]
<1>3. IF Is({"inspect-package"}) THEN Finish(looked)
      ELSE IF Is({"preflight-runtime"})
        THEN IF looked.component_ready THEN Go("diagnose", looked)
             ELSE Finish(Verdict(looked))
      ELSE IF found /\ component # "none" THEN Go("execute", looked) ELSE Finish(looked)
  BY DEF LookUpStaged
<1>4. /\ found \in BOOLEAN /\ ready \in BOOLEAN
      /\ ready => found /\ notes = answer.notes
      /\ ~ready => notes \in {"not_staged", "component_elsewhere", "no_launcher"}
  <2>1. found \in BOOLEAN
    BY DEF Found
  <2>2. ready \in BOOLEAN
    OBVIOUS
  <2>3. ready => found /\ notes = answer.notes
    OBVIOUS
  <2>4. ~ready => notes \in {"not_staged", "component_elsewhere", "no_launcher"}
    OBVIOUS
  <2>5. QED
    BY <2>1, <2>2, <2>3, <2>4
<1>5. HIDE DEF found, component, ready, notes
<1>6. /\ IsAnswer(looked) /\ SameIme(answer, looked)
      /\ looked.ready = FALSE /\ looked.probe_ready = answer.probe_ready
      /\ looked.visible = found /\ looked.component_ready = ready
      /\ looked.notes = notes
  BY <1>1, OutsideIme DEF IsAnswer, AnswerFields, SameIme
<1>7. HIDE DEF looked
<1>8. /\ ImeSoFar(Request, "diagnose", looked) /\ ImeSoFar(Request, "execute", looked)
      /\ Request.command # "provision-ime"
  BY <1>1, <1>6, OutsideIme, ElsewhereImeIsKept
<1>9. CASE Request.command = "preflight-runtime"
  <2>1. /\ answer.notes \in {"none", "auto_selected"} /\ answer.probe_ready = FALSE
        /\ Request.backend = "native" /\ Request.package
    BY <1>1, <1>9 DEF SoFar, PreflightSoFar
  <2>2. CASE ready
    <3>1. Go("diagnose", looked)
      BY <1>1, <1>3, <1>6, <1>9, <2>2 DEF Is
    <3>2. SoFar(Request, "diagnose", looked)
      BY <1>4, <1>6, <1>8, <2>1, <2>2 DEF SoFar, PreflightSoFar, PreflightSteps
    <3>3. QED
      BY <3>1, <3>2 DEF MovesOn
  <2>3. CASE ~ready
    <3>1. Finish(Verdict(looked))
      BY <1>1, <1>3, <1>6, <1>9, <2>3 DEF Is
    <3>2. RightPreflight(Request, Verdict(looked))
      BY <1>4, <1>6, <2>3, VerdictIsRight
    <3>3. QED
      BY <1>9, <3>1, <3>2 DEF Right, MovesOn
  <2>4. QED
    BY <2>2, <2>3
<1>10. CASE Request.command # "preflight-runtime"
  <2>1. Finish(looked) \/ Go("execute", looked)
    BY <1>3, <1>10 DEF Is
  <2>2. SoFar(Request, "execute", looked)
    BY <1>6, <1>8, <1>10 DEF SoFar
  <2>3. QED
    BY <1>8, <1>10, <2>1, <2>2, OthersMayEnd DEF MovesOn
<1>11. QED
  BY <1>9, <1>10

(* A runtime that could resolve the classes was detected, and not for detection *)
(* only: the note and the verdict come from the same facts.                     *)
LEMMA DiagnosticsAgree ==
  ASSUME NEW f
  PROVE  /\ DiagnosticsNote(f) # "none"
         /\ DiagnosticsNote(f) = "looks_ready" <=>
              ProbeReady(f) /\ Chain!RuntimeBootstrapPlanned(f)
<1>1. Chain!RuntimeClassResolutionSucceeded(f) =>
        /\ Chain!RuntimeDetected(f)
        /\ Chain!RuntimeCapability(f) # "host_app_process_detection_only"
  BY DEF Chain!RuntimeClassResolutionSucceeded, Chain!ProbeAttempted,
         Chain!SafeRuntimeProbe, Chain!RuntimeDetected
<1>2. QED
  BY <1>1 DEF DiagnosticsNote, ProbeReady

LEMMA DiagnoseAdvances ==
  ASSUME SoFar(Request, step, answer), Diagnose PROVE MovesOn
<1>1. step = "diagnose" /\ step \notin ImeSteps
  BY DEF Diagnose, ImeSteps
<1>2. PICK throws \in BOOLEAN :
        Finish(Verdict(
          IF throws THEN [answer EXCEPT !.notes = "error"]
          ELSE [answer EXCEPT
                  !.probe_ready = ProbeReady(Staged.facts),
                  !.planned = Chain!RuntimeBootstrapPlanned(Staged.facts),
                  !.notes = DiagnosticsNote(Staged.facts)]))
  BY DEF Diagnose
<1>3. CASE Request.command # "preflight-runtime"
  BY <1>1, <1>2, <1>3, OutsideIme, OthersMayEnd
<1>4. CASE Request.command = "preflight-runtime"
  <2>1. /\ answer.probe_ready = FALSE /\ OnNative /\ Request.package
        /\ answer.visible = TRUE /\ answer.component_ready = TRUE /\ IsAnswer(answer)
    BY <1>1, <1>4 DEF SoFar, PreflightSoFar, OnNative
  <2>2. CASE throws
    <3>1. DEFINE a == [answer EXCEPT !.notes = "error"]
    <3>2. Finish(Verdict(a))
      BY <1>2, <2>2
    <3>3. IsAnswer(a) /\ a.notes = "error" /\ a.probe_ready = FALSE
      BY <2>1 DEF IsAnswer, AnswerFields
    <3>4. HIDE DEF a
    <3>5. RightPreflight(Request, Verdict(a))
      BY <2>1, <3>3, VerdictIsRight
    <3>6. QED
      BY <1>4, <3>2, <3>5 DEF Right, MovesOn
  <2>3. CASE ~throws
    <3>1. DEFINE probed == ProbeReady(Staged.facts)
                 planned == Chain!RuntimeBootstrapPlanned(Staged.facts)
                 note == DiagnosticsNote(Staged.facts)
                 a == [answer EXCEPT !.probe_ready = probed, !.planned = planned,
                                     !.notes = note]
    <3>2. Finish(Verdict(a))
      BY <1>2, <2>3
    <3>3. note # "none" /\ (note = "looks_ready" <=> probed /\ planned)
      BY DiagnosticsAgree
    <3>4. HIDE DEF probed, planned, note
    <3>5. /\ IsAnswer(a) /\ a.notes = note
          /\ a.probe_ready = probed /\ a.planned = planned
          /\ a.visible = TRUE /\ a.component_ready = TRUE
      BY <2>1 DEF IsAnswer, AnswerFields
    <3>6. HIDE DEF a
    <3>7. RightPreflight(Request, Verdict(a))
      BY <2>1, <3>3, <3>5, VerdictIsRight
    <3>8. QED
      BY <1>4, <3>2, <3>7 DEF Right, MovesOn
  <2>4. QED
    BY <2>2, <2>3
<1>5. QED
  BY <1>3, <1>4

--------------------------------------------------------------------------------
(* Input methods.                                                               *)

(* The bar is full exactly when nothing is missing.                             *)
LEMMA FullBar ==
  ASSUME NEW t \in {9, 10}, NEW n \in 0 .. t
  PROVE  (200 * n + t) \div (2 * t) = 100 <=> n = t
<1>1. CASE t = 9
  BY <1>1
<1>2. CASE t = 10
  BY <1>2
<1>3. QED
  BY <1>1, <1>2

AllDone(r, a) ==
  /\ r.matches /\ a.install_ok /\ a.enable_ok /\ a.set_ok /\ a.readback_ok
  /\ a.seen = AllFacts
  /\ r.settings => a.settings_ok

LEMMA ProgressMeaning ==
  ASSUME NEW r, NEW a, a.seen \subseteq AllFacts
  PROVE  Progress(r, a) = 100 <=> AllDone(r, a)
<1>1. DEFINE matched  == One(r.matches)
             install  == One(a.install_ok)
             enable   == One(a.enable_ok)
             set      == One(a.set_ok)
             readback == One(a.readback_ok)
             p == One("package" \in a.seen)
             g == One("registered" \in a.seen)
             e == One("enabled" \in a.seen)
             d == One("default" \in a.seen)
             settings == One(r.settings /\ a.settings_ok)
             extra    == One(r.settings)
             n == matched + install + enable + set + readback + (p + g + e + d) + settings
             t == 9 + extra
<1>2. /\ matched \in {0, 1} /\ install \in {0, 1} /\ enable \in {0, 1}
      /\ set \in {0, 1} /\ readback \in {0, 1}
      /\ p \in {0, 1} /\ g \in {0, 1} /\ e \in {0, 1} /\ d \in {0, 1}
      /\ settings \in {0, 1} /\ extra \in {0, 1} /\ settings <= extra
  BY DEF One
<1>3. /\ matched = 1 <=> r.matches
      /\ install = 1 <=> a.install_ok
      /\ enable = 1 <=> a.enable_ok
      /\ set = 1 <=> a.set_ok
      /\ readback = 1 <=> a.readback_ok
      /\ p = 1 /\ g = 1 /\ e = 1 /\ d = 1 <=> a.seen = AllFacts
      /\ settings = extra <=> (r.settings => a.settings_ok)
  <2>1. p = 1 /\ g = 1 /\ e = 1 /\ d = 1 <=> a.seen = AllFacts
    BY DEF One, AllFacts
  <2>2. QED
    BY <2>1 DEF One
<1>4. Progress(r, a) = (200 * n + t) \div (2 * t)
  BY DEF Progress, Satisfied, FactsSeen
<1>5. HIDE DEF matched, install, enable, set, readback, p, g, e, d, settings, extra
<1>6. n \in 0 .. t /\ t \in {9, 10}
  BY <1>2
<1>7. n = t <=> /\ matched = 1 /\ install = 1 /\ enable = 1 /\ set = 1 /\ readback = 1
                /\ p = 1 /\ g = 1 /\ e = 1 /\ d = 1 /\ settings = extra
  BY <1>2
<1>8. AllDone(r, a) <=> n = t
  BY <1>3, <1>7 DEF AllDone
<1>9. HIDE DEF n, t
<1>10. QED
  BY <1>4, <1>6, <1>8, FullBar

(* The end of a readback, whatever has failed on the way.                       *)
LEMMA ProvisionedAdvances ==
  ASSUME SoFar(Request, step, answer), step \in {"query", "settings"},
         NEW a, IsAnswer(a), Finish(Provisioned(a)),
         a.seen \subseteq AllFacts,
         a.readback_ok /\ a.seen = AllFacts => a.usable
  PROVE  MovesOn
<1>1. CASE Request.command # "provision-ime"
  <2>1. Request.command # "preflight-runtime"
    BY DEF SoFar, PreflightSoFar, PreflightSteps
  <2>2. QED
    BY <1>1, <2>1, OthersMayEnd
<1>2. CASE Request.command = "provision-ime"
  <2>1. DEFINE ready == ReadyForTyping(a)
               b == [a EXCEPT !.ready = ready]
  <2>2. Finish(b) /\ Request.matches
    BY <1>2 DEF Provisioned, Is, SoFar, ImeSoFar
  <2>3. ready <=> AllDone(Request, a)
    BY <2>2 DEF ReadyForTyping, AllDone
  <2>4. ready => a.usable
    BY DEF ReadyForTyping
  <2>5. HIDE DEF ready
  <2>6. /\ b.ready = ready /\ b.usable = a.usable
        /\ b.seen = a.seen /\ (AllDone(Request, b) <=> AllDone(Request, a))
    BY DEF IsAnswer, AnswerFields, AllDone
  <2>7. HIDE DEF b
  <2>8. RightImeReport(Request, b)
    BY <2>3, <2>4, <2>6, ProgressMeaning DEF RightImeReport
  <2>9. QED
    BY <1>2, <2>2, <2>8 DEF Right, MovesOn
<1>3. QED
  BY <1>1, <1>2

LEMMA RejectAdvances ==
  ASSUME SoFar(Request, step, answer), RejectApk PROVE MovesOn
<1>1. DEFINE a == [answer EXCEPT !.notes = "package_mismatch"]
<1>2. step = "install" /\ ~Request.matches /\ Finish(a)
  BY DEF RejectApk
<1>3. a.ready = FALSE /\ a.seen = answer.seen /\ a.notes = "package_mismatch"
  BY DEF SoFar, IsAnswer, AnswerFields
<1>4. answer.seen \subseteq AllFacts
  BY DEF SoFar, ImeSoFar
<1>5. HIDE DEF a
<1>6. ~AllDone(Request, a)
  BY <1>2 DEF AllDone
<1>7. Right(Request, a)
  BY <1>3, <1>4, <1>6, ProgressMeaning DEF Right, RightImeReport, RightPreflight
<1>8. QED
  BY <1>2, <1>7 DEF MovesOn

(* The three commands that change the device.                                   *)
LEMMA SettingUpAdvances ==
  ASSUME SoFar(Request, step, answer), InstallApk \/ EnableIme \/ SetIme
  PROVE  MovesOn
<1>1. Request.command # "preflight-runtime" /\ IsAnswer(answer) /\ answer.ready = FALSE
  BY DEF SoFar, PreflightSoFar, PreflightSteps, InstallApk, EnableIme, SetIme
<1>2. CASE InstallApk
  <2>1. PICK ok \in BOOLEAN : Go("enable", [answer EXCEPT !.install_ok = ok])
    BY <1>2 DEF InstallApk
  <2>2. SoFar(Request, "enable", [answer EXCEPT !.install_ok = ok])
    BY <1>1, <1>2 DEF InstallApk, SoFar, ImeSoFar, ImeSteps, IsAnswer, AnswerFields
  <2>3. QED
    BY <2>1, <2>2 DEF MovesOn
<1>3. CASE EnableIme
  <2>1. PICK ok \in BOOLEAN : Go("set", [answer EXCEPT !.enable_ok = ok])
    BY <1>3 DEF EnableIme
  <2>2. SoFar(Request, "set", [answer EXCEPT !.enable_ok = ok])
    BY <1>1, <1>3 DEF EnableIme, SoFar, ImeSoFar, ImeSteps, IsAnswer, AnswerFields
  <2>3. QED
    BY <2>1, <2>2 DEF MovesOn
<1>4. CASE SetIme
  <2>1. PICK ok \in BOOLEAN : Go("query", [answer EXCEPT !.set_ok = ok])
    BY <1>4 DEF SetIme
  <2>2. SoFar(Request, "query", [answer EXCEPT !.set_ok = ok])
    BY <1>1, <1>4 DEF SetIme, SoFar, ImeSoFar, ImeSteps, IsAnswer, AnswerFields
  <2>3. QED
    BY <2>1, <2>2 DEF MovesOn
<1>5. QED
  BY <1>2, <1>3, <1>4

(* The device a provisioning asks about has got somewhere between 0 and 4.       *)
LEMMA SetupIsKnown ==
  ASSUME DeviceInv, step \in ImeSteps
  PROVE  /\ Request \in Requests
         /\ Request.serial \in DOMAIN world.adb
         /\ world.adb[Request.serial] \in Devices
         /\ Setup \in 0 .. 4
<1>1. /\ step \notin {"over", "hung"}
      /\ SoFar(Request, step, answer) /\ script \in Seq(Requests)
      /\ Len(answers) \in Nat /\ Len(answers) < Len(script)
  BY DEF DeviceInv, ScriptInv, ImeSteps
<1>2. Len(answers) + 1 \in DOMAIN script /\ Request \in Requests
  BY <1>1 DEF Request
<1>3. Request.command \in {"provision-ime", "adb-ime-status"}
  BY <1>1 DEF SoFar, ImeSoFar
<1>4. Request.serial \in DOMAIN world.adb
  BY <1>2, <1>3 DEF DeviceInv, WorldOK, Request, AsksDevice
<1>5. world.adb[Request.serial] \in Devices
  BY <1>4 DEF DeviceInv, WorldOK
<1>6. Setup \in 0 .. 4
  BY <1>5 DEF Setup, Devices
<1>7. QED
  BY <1>2, <1>4, <1>5, <1>6

LEMMA QueryAdvances ==
  ASSUME DeviceInv, SoFar(Request, step, answer), QueryStatus PROVE MovesOn
<1>1. step = "query" /\ step \in ImeSteps
  BY DEF QueryStatus, ImeSteps
<1>2. DEFINE fact == StatusQueries[answer.asked + 1]
             number == answer.asked + 1
             usable == Setup = 4
             seen == IF Setup >= StageOf[fact] THEN answer.seen \cup {fact} ELSE answer.seen
             asked == [answer EXCEPT !.asked = number, !.usable = usable, !.seen = seen]
             failed == [answer EXCEPT !.notes = "readback_error"]
             read == [asked EXCEPT !.readback_ok = TRUE]
<1>3. /\ IsAnswer(answer) /\ answer.ready = FALSE /\ answer.readback_ok = FALSE
      /\ answer.asked \in 0 .. 3 /\ answer.seen \subseteq AllFacts
      /\ "default" \notin answer.seen
      /\ Request.command # "preflight-runtime"
  BY <1>1 DEF SoFar, ImeSoFar, PreflightSoFar, PreflightSteps
<1>4. \/ Finish(Provisioned(failed))
      \/ asked.asked < 4 /\ Go("query", asked)
      \/ Request.settings /\ Go("settings", asked)
      \/ Finish(Provisioned(read))
  <2>1. PICK exit \in Exits(Request.serial) :
          IF exit # 0 THEN Finish(Provisioned(failed))
          ELSE IF asked.asked < Len(StatusQueries) THEN Go("query", asked)
          ELSE IF Request.settings THEN Go("settings", asked)
          ELSE Finish(Provisioned(read))
    BY Zenon DEF QueryStatus
  <2>2. Len(StatusQueries) = 4
    BY DEF StatusQueries
  <2>3. HIDE DEF failed, asked, read
  <2>4. QED
    BY <2>1, <2>2
<1>5. /\ number \in 1 .. 4
      /\ fact \in AllFacts
      /\ fact = "default" => number = 4 /\ StageOf[fact] = 4
  <2>1. /\ StatusQueries[1] = "package" /\ StatusQueries[2] = "registered"
        /\ StatusQueries[3] = "enabled" /\ StatusQueries[4] = "default"
    BY DEF StatusQueries
  <2>2. number \in {1, 2, 3, 4}
    BY <1>3
  <2>3. fact \in AllFacts /\ (fact = "default" => number = 4)
    BY <2>1, <2>2 DEF AllFacts
  <2>4. StageOf["default"] = 4
    BY DEF StageOf
  <2>5. QED
    BY <2>2, <2>3, <2>4
<1>6. HIDE DEF fact, number
<1>7. /\ usable \in BOOLEAN /\ seen \subseteq AllFacts
      /\ "default" \in seen => number = 4 /\ usable
  <2>1. Setup \in 0 .. 4
    BY <1>1, SetupIsKnown
  <2>2. seen \subseteq AllFacts
    BY <1>3, <1>5
  <2>3. "default" \in seen => fact = "default" /\ Setup >= StageOf[fact]
    BY <1>3
  <2>4. "default" \in seen => number = 4 /\ Setup = 4
    BY <1>5, <2>1, <2>3
  <2>5. QED
    BY <2>2, <2>4
<1>8. HIDE DEF usable, seen
<1>9. /\ IsAnswer(asked) /\ asked.ready = FALSE /\ asked.asked = number
      /\ asked.usable = usable /\ asked.seen = seen
      /\ asked.install_ok = answer.install_ok /\ asked.enable_ok = answer.enable_ok
      /\ asked.set_ok = answer.set_ok
      /\ asked.readback_ok = FALSE /\ asked.settings_ok = answer.settings_ok
  BY <1>3 DEF IsAnswer, AnswerFields
<1>10. /\ IsAnswer(failed) /\ failed.readback_ok = FALSE /\ failed.seen = answer.seen
  BY <1>3 DEF IsAnswer, AnswerFields
<1>11. HIDE DEF asked, failed
<1>12. IsAnswer(read) /\ read.seen = seen /\ read.usable = usable
  BY <1>9 DEF IsAnswer, AnswerFields
<1>13. HIDE DEF read
<1>14. CASE Finish(Provisioned(failed))
  BY <1>1, <1>3, <1>10, <1>14, ProvisionedAdvances
<1>15. CASE asked.asked < 4 /\ Go("query", asked)
  <2>1. asked.asked \in 0 .. 3 /\ "default" \notin asked.seen
    BY <1>5, <1>7, <1>9, <1>15
  <2>2. SoFar(Request, "query", asked)
    BY <1>1, <1>3, <1>7, <1>9, <2>1 DEF SoFar, ImeSoFar, ImeSteps
  <2>3. QED
    BY <1>15, <2>2 DEF MovesOn
<1>16. CASE Request.settings /\ Go("settings", asked)
  <2>1. SoFar(Request, "settings", asked)
    BY <1>1, <1>3, <1>7, <1>9, <1>16 DEF SoFar, ImeSoFar, ImeSteps
  <2>2. QED
    BY <1>16, <2>1 DEF MovesOn
<1>17. CASE Finish(Provisioned(read))
  <2>1. read.seen = AllFacts => read.usable
    BY <1>7, <1>12 DEF AllFacts
  <2>2. QED
    BY <1>1, <1>7, <1>12, <1>17, <2>1, ProvisionedAdvances
<1>18. QED
  BY <1>4, <1>14, <1>15, <1>16, <1>17

LEMMA SettingsAdvance ==
  ASSUME SoFar(Request, step, answer), OpenSettings PROVE MovesOn
<1>1. PICK shown \in BOOLEAN :
        Finish(Provisioned([answer EXCEPT !.readback_ok = TRUE, !.settings_ok = shown]))
  <2>1. PICK exit \in Exits(Request.serial), shown \in BOOLEAN :
          Finish(Provisioned([answer EXCEPT !.readback_ok = TRUE,
                                            !.settings_ok = exit = 0 /\ shown]))
    BY DEF OpenSettings
  <2>2. (exit = 0 /\ shown) \in BOOLEAN
    OBVIOUS
  <2>3. QED
    BY <2>1, <2>2, Zenon
<1>2. DEFINE a == [answer EXCEPT !.readback_ok = TRUE, !.settings_ok = shown]
<1>3. /\ step = "settings" /\ IsAnswer(answer)
      /\ answer.seen \subseteq AllFacts /\ ("default" \in answer.seen => answer.usable)
  BY DEF OpenSettings, SoFar, ImeSoFar
<1>4. IsAnswer(a) /\ a.seen = answer.seen /\ a.usable = answer.usable
  BY <1>3 DEF IsAnswer, AnswerFields
<1>5. HIDE DEF a
<1>6. a.seen = AllFacts => a.usable
  BY <1>3, <1>4 DEF AllFacts
<1>7. QED
  BY <1>1, <1>3, <1>4, <1>6, ProvisionedAdvances DEF a

--------------------------------------------------------------------------------
(* The invariant.                                                               *)

(* Devices stay devices, whoever changes them, and none is forgotten.           *)
LEMMA DeviceChanges ==
  ASSUME WorldOK, NEW s \in DOMAIN world.adb, NEW d \in Devices,
         world' = [world EXCEPT !.adb[s] = d], UNCHANGED script
  PROVE  WorldOK'
<1>1. DEFINE adb == [world.adb EXCEPT ![s] = d]
<1>2. world' = [adb |-> adb, waydroid |-> world.waydroid, staged |-> world.staged]
  BY DEF WorldOK
<1>3. adb \in [DOMAIN world.adb -> Devices] /\ DOMAIN adb = DOMAIN world.adb
  BY DEF WorldOK
<1>4. HIDE DEF adb
<1>5. QED
  BY <1>2, <1>3 DEF WorldOK

LEMMA SettingUpKeepsWorld ==
  ASSUME DeviceInv, step \in ImeSteps,
         NEW stage, NEW needed, NEW exit, NEW setup \in 0 .. 4,
         Advances(stage, needed, exit, setup)
  PROVE  WorldOK' /\ UNCHANGED script
<1>1. DEFINE s == Request.serial
             d == [world.adb[s] EXCEPT !.setup = setup]
<1>2. s \in DOMAIN world.adb /\ world.adb[s] \in Devices
  BY SetupIsKnown
<1>3. d \in Devices
  BY <1>2 DEF Devices
<1>4. world' = [world EXCEPT !.adb[s] = d]
  BY DEF Advances
<1>5. HIDE DEF s, d
<1>6. UNCHANGED script
  BY DEF Advances
<1>7. QED
  BY <1>2, <1>3, <1>4, <1>6, DeviceChanges DEF DeviceInv

LEMMA NextDeviceInv == DeviceInv /\ [DeviceNext]_deviceVars => DeviceInv'
<1>1. SUFFICES ASSUME DeviceInv, [DeviceNext]_deviceVars PROVE DeviceInv'
  OBVIOUS
<1>2. WorldOK /\ ScriptInv
  BY <1>1 DEF DeviceInv
<1>3. CASE CommandStep
  <2>1. step \notin {"over", "hung"}
    BY <1>3 DEF CommandStep, DiscoverAdb, DiscoverWaydroid, DiscoverNative, CheckVisible,
         ResolveLauncher, InspectFurther, StartActivity, StartWaydroidApp, LookUpStaged,
         Diagnose, Execute, RejectApk, InstallApk, EnableIme, SetIme, QueryStatus,
         OpenSettings
  <2>2. SoFar(Request, step, answer)
    BY <1>2, <2>1 DEF ScriptInv
  <2>3. MovesOn
    BY <1>1, <1>3, <2>2, DiscoveryAdvances, CheckVisibleAdvances, ResolveLauncherAdvances,
       FurtherStepsAdvance, LookUpAdvances, DiagnoseAdvances, RejectAdvances,
       SettingUpAdvances, QueryAdvances, SettingsAdvance DEF CommandStep
  <2>4. WorldOK' /\ UNCHANGED script
    <3>1. CASE InstallApk \/ EnableIme \/ SetIme
      <4>1. step \in ImeSteps
        BY <3>1 DEF InstallApk, EnableIme, SetIme, ImeSteps
      <4>2. \E stage, needed, exit : \E setup \in 0 .. 4 :
              Advances(stage, needed, exit, setup)
        BY <3>1 DEF InstallApk, EnableIme, SetIme
      <4>3. QED
        BY <1>1, <4>1, <4>2, SettingUpKeepsWorld
    <3>2. CASE ~(InstallApk \/ EnableIme \/ SetIme)
      <4>1. Alone
        BY <1>3, <3>2 DEF CommandStep, DiscoverAdb, DiscoverWaydroid, DiscoverNative,
           CheckVisible, ResolveLauncher, InspectFurther, StartActivity, StartWaydroidApp,
           LookUpStaged, Diagnose, Execute, RejectApk, QueryStatus, OpenSettings
      <4>2. QED
        BY <1>2, <4>1 DEF Alone, WorldOK
    <3>3. QED
      BY <3>1, <3>2
  <2>5. ScriptInv'
    BY <1>2, <2>1, <2>3, <2>4, AdvanceKeepsScriptInv
  <2>6. QED
    BY <2>4, <2>5 DEF DeviceInv
<1>4. CASE Hang
  BY <1>2, <1>4 DEF Hang, DeviceInv, WorldOK, ScriptInv
<1>5. CASE WorldChanges
  <2>1. UNCHANGED <<script, answers, step, answer>>
    BY <1>5 DEF WorldChanges
  <2>2. ASSUME NEW s \in DOMAIN world.adb, NEW d \in DeviceStates,
               world' = [world EXCEPT !.adb[s] = d]
        PROVE  WorldOK'
    BY <1>2, <2>1, <2>2, DeviceChanges, DeviceAssumption
  <2>3. ASSUME NEW s \in StagedStates, world' = [world EXCEPT !.staged = s]
        PROVE  WorldOK'
    BY <1>2, <2>1, <2>3 DEF WorldOK
  <2>4. WorldOK'
    BY <1>5, <2>2, <2>3 DEF WorldChanges
  <2>5. Request' = Request
    BY <2>1 DEF Request
  <2>6. ScriptInv'
    BY <1>2, <2>1, <2>5 DEF ScriptInv
  <2>7. QED
    BY <2>4, <2>6 DEF DeviceInv
<1>6. CASE ScriptOver \/ UNCHANGED deviceVars
  <2>1. UNCHANGED <<script, world, answers, step, answer>>
    BY <1>6 DEF ScriptOver, deviceVars
  <2>2. Request' = Request
    BY <2>1 DEF Request
  <2>3. QED
    BY <1>2, <2>1, <2>2 DEF DeviceInv, WorldOK, ScriptInv
<1>7. QED
  BY <1>1, <1>3, <1>4, <1>5, <1>6 DEF DeviceNext

(* Every report that was finished is right, and the running command has so far  *)
(* gathered what its report may rely on (src/runtime_bridge.cpp).               *)
THEOREM ReportsAreRight == DeviceSpec => []DeviceInv
BY InitDeviceInv, NextDeviceInv, PTL DEF DeviceSpec

--------------------------------------------------------------------------------
(* What the reports promise.                                                    *)

(* A device that is reported ready for typing had its input method installed,   *)
(* registered, enabled and the default when the last question was answered      *)
(* (ProvisionAdbImeWithRunner, TryQueryAdbImeStatusWithRunner).                 *)
THEOREM ReadyMeansUsable == DeviceSpec => []ReadyWasUsable
<1>1. DeviceInv => ReadyWasUsable
  BY DEF DeviceInv, ScriptInv, ReadyWasUsable, Finished, Right, RightImeReport
<1>2. QED
  BY <1>1, ReportsAreRight, PTL

(* The loading bar shows 100 percent for the reports that say ready, and for no *)
(* others (CalculateProvisioningProgress).                                      *)
THEOREM TheBarIsHonest == DeviceSpec => []FullBarMeansReady
<1>1. DeviceInv => FullBarMeansReady
  BY DEF DeviceInv, ScriptInv, FullBarMeansReady, Finished, Right, RightImeReport
<1>2. QED
  BY <1>1, ReportsAreRight, PTL

(* A preflight's note and its verdict agree (PreflightRuntimeWithRunner,        *)
(* BuildNativePreflightDiagnostics).                                            *)
THEOREM TheNoteIsHonest == DeviceSpec => []NotesTellTheVerdict
<1>1. DeviceInv => NotesTellTheVerdict
  BY DEF DeviceInv, ScriptInv, NotesTellTheVerdict, Finished, Right, RightPreflight
<1>2. QED
  BY <1>1, ReportsAreRight, PTL

--------------------------------------------------------------------------------
(* What a preflight foretells.  A launch that works shows what the world is like, *)
(* and while nothing changes, the preflight before it has found it like that.     *)

Wanted(r, launcher) == IF r.component = "none" THEN launcher ELSE r.component

(* The world lets the launch that r asks for work on target s, with component c. *)
Launchable(r, s, c) ==
  /\ c # "none"
  /\ \/ /\ r.backend = "attached-adb"
        /\ s \in DOMAIN world.adb
        /\ world.adb[s].link = "device" /\ world.adb[s].setup > 0
        /\ c = Wanted(r, world.adb[s].launcher)
     \/ /\ r.backend = "native" /\ s = NativeSerial
        /\ Staged.installed = "install"
        /\ c = Wanted(r, Staged.launcher)
        /\ Chain!RunnerInvoked(Staged.facts)
        /\ Chain!RuntimeCapability(Staged.facts) = "override_bootstrap_capable" =>
             r.override_allowed

(* A preflight has foretold every launch that would work now.  *)
Foretells(r, a) ==
  r.package /\ r.component # "foreign" =>
    \A c : Launchable(r, a.serial, c) => a.ready /\ a.component = c

(* A launch that worked is one that works.                     *)
LaunchShows(r, a) ==
  a.launch_ok /\ r.component # "foreign" /\ r.backend # "waydroid" =>
    Launchable(r, a.serial, a.component)

(* What is known of the world while either is under way.       *)
PreflightTold(r, s, a) ==
  /\ s = "discover" => a.serial = r.serial
  /\ s # "diagnose" => a.component = r.component
  /\ s = "launcher" => r.component = "none"
  /\ s = "lookup" => r.serial \in {"none", NativeSerial}
  /\ s = "diagnose" => a.component = Wanted(r, Staged.launcher)

LaunchTold(r, s, a) ==
  /\ a.launch_ok = FALSE
  /\ s \in {"launcher", "start", "lookup", "execute"}
  /\ s = "launcher" => r.component = "none"
  /\ s = "start" /\ r.backend = "attached-adb" =>
       /\ r.component = "none" =>
            world.adb[a.serial].setup > 0 /\ world.adb[a.serial].launcher # "none"
       /\ a.component = Wanted(r, world.adb[a.serial].launcher)
  /\ s \in {"launcher", "start"} => r.backend # "native"
  /\ s \in {"lookup", "execute"} => r.backend = "native" /\ a.serial = NativeSerial
  /\ s = "lookup" => a.component = r.component
  /\ s = "execute" => a.component = Wanted(r, Staged.launcher) /\ a.component # "none"

Told(r, s, a) ==
  /\ s \in {"install", "enable", "set"} => r.command = "provision-ime"
  /\ r.command = "preflight-runtime" => PreflightTold(r, s, a)
  /\ r.command = "launch-package" => LaunchTold(r, s, a)

Delivers(r, a) ==
  /\ r.command = "preflight-runtime" => Foretells(r, a)
  /\ r.command = "launch-package" => LaunchShows(r, a)

(* Nobody has set an input method up since report j, and nobody is about to.     *)
LeftAlone(j) ==
  \A i \in j .. Len(answers) + 1 :
    i \in DOMAIN script => script[i].command # "provision-ime"

ForetoldInv ==
  /\ calm /\ Running => Told(Request, step, answer)
  /\ calm => \A j \in Finished({"preflight-runtime"}) :
               LeftAlone(j) => Foretells(script[j], answers[j])
  /\ PreflightForetellsLaunch

(* A command begins knowing nothing of any world.                                *)
LEMMA ToldBegins ==
  ASSUME NEW r \in Requests
  PROVE  Told(r, FirstStep(r), FirstAnswer(r)) /\ Told(r, FirstStep(r), FirstAnswer(r))'
<1>1. PICK a : a = FirstAnswer(r)
  OBVIOUS
<1>2. PICK s : s = FirstStep(r)
  OBVIOUS
<1>3. /\ a.serial = IF r.backend = "native" /\ r.command # "preflight-runtime"
                      THEN NativeSerial ELSE r.serial
      /\ a.component = r.component /\ a.launch_ok = FALSE
  BY <1>1 DEF FirstAnswer, Blank
<1>4. s \in {"install", "enable", "set"} => r.command = "provision-ime"
  BY <1>2 DEF FirstStep, Requests
<1>5. r.command = "preflight-runtime" => s = "discover"
  BY <1>2 DEF FirstStep
<1>6. r.command = "preflight-runtime" => PreflightTold(r, s, a) /\ PreflightTold(r, s, a)'
  BY <1>3, <1>5 DEF PreflightTold
<1>7. r.command = "launch-package" =>
        s = IF r.backend = "native" THEN "lookup"
            ELSE IF r.backend = "attached-adb" /\ r.component = "none" THEN "launcher"
            ELSE "start"
  BY <1>2 DEF FirstStep
<1>8. r.command = "launch-package" => LaunchTold(r, s, a) /\ LaunchTold(r, s, a)'
  <2>1. SUFFICES ASSUME r.command = "launch-package"
                 PROVE  LaunchTold(r, s, a) /\ LaunchTold(r, s, a)'
    OBVIOUS
  <2>2. CASE r.backend = "native"
    BY <1>3, <1>7, <2>1, <2>2 DEF LaunchTold
  <2>3. CASE r.backend # "native" /\ r.backend = "attached-adb" /\ r.component = "none"
    BY <1>3, <1>7, <2>1, <2>3 DEF LaunchTold
  <2>4. CASE r.backend # "native" /\ ~(r.backend = "attached-adb" /\ r.component = "none")
    BY <1>3, <1>7, <2>1, <2>4 DEF LaunchTold, Wanted
  <2>5. QED
    BY <2>2, <2>3, <2>4
<1>9. Told(r, s, a) /\ Told(r, s, a)'
  BY <1>4, <1>6, <1>8 DEF Told
<1>10. QED
  BY <1>1, <1>2, <1>9

(* The running command learns more of the same world, or ends with a report that *)
(* tells what it has learnt.                                                     *)
Forward ==
  \/ \E next, a : /\ next \notin {"over", "hung"}
                  /\ Go(next, a)
                  /\ calm' => Told(Request, next, a)
  \/ \E a : Finish(a) /\ (calm' => Delivers(Request, a))

LEMMA SameWorldSameTale ==
  ASSUME NEW r, NEW a, UNCHANGED world
  PROVE  /\ Foretells(r, a)' <=> Foretells(r, a)
         /\ \A s : Told(r, s, a)' <=> Told(r, s, a)
<1>1. ASSUME NEW s, NEW c PROVE Launchable(r, s, c)' <=> Launchable(r, s, c)
  BY DEF Launchable, Staged
<1>2. Foretells(r, a)' <=> Foretells(r, a)
  BY <1>1 DEF Foretells
<1>3. ASSUME NEW s PROVE Told(r, s, a)' <=> Told(r, s, a)
  BY DEF Told, PreflightTold, LaunchTold, Staged
<1>4. QED
  BY <1>2, <1>3

LEMMA ForwardKeepsForetold ==
  ASSUME DeviceInv, ForetoldInv, Running, Forward, UNCHANGED script, calm' => calm,
         world' = world \/ Request.command = "provision-ime"
  PROVE  ForetoldInv'
<1>1. CASE ~calm'
  BY <1>1 DEF ForetoldInv, PreflightForetellsLaunch
<1>2. CASE calm'
  <2>1. PICK n : n = Len(answers)
    OBVIOUS
  <2>2. /\ n \in Nat /\ DOMAIN answers = 1 .. n
        /\ Len(script) \in Nat /\ DOMAIN script = 1 .. Len(script) /\ n < Len(script)
        /\ script \in Seq(Requests) /\ Request = script[n + 1]
    BY <2>1 DEF DeviceInv, ScriptInv, Running, Request
  <2>3. \A j \in Finished({"preflight-runtime"}) :
          LeftAlone(j) => Foretells(script[j], answers[j])
    BY <1>2 DEF ForetoldInv
  <2>4. PreflightForetellsLaunch /\ calm
    BY <1>2 DEF ForetoldInv
  <2>5. CASE \E next, a : /\ next \notin {"over", "hung"}
                          /\ Go(next, a)
                          /\ calm' => Told(Request, next, a)
    <3>1. PICK next, a : /\ next \notin {"over", "hung"}
                         /\ Go(next, a)
                         /\ calm' => Told(Request, next, a)
      BY <2>5
    <3>2. step' = next /\ answer' = a /\ answers' = answers /\ Request' = Request
      BY <3>1 DEF Go, Request
    <3>3. Told(Request, next, a)
      BY <1>2, <3>1
    <3>4. Told(Request, step, answer)'
      <4>1. PICK r : r = Request
        OBVIOUS
      <4>2. Told(r, next, a)'
        <5>1. CASE world' = world
          BY <3>3, <4>1, <5>1, SameWorldSameTale
        <5>2. CASE Request.command = "provision-ime"
          BY <4>1, <5>2 DEF Told
        <5>3. QED
          BY <5>1, <5>2
      <4>3. QED
        BY <3>2, <4>1, <4>2
    <3>5. ASSUME NEW j \in Finished({"preflight-runtime"}), LeftAlone(j)
          PROVE  Foretells(script[j], answers[j])'
      <4>1. j \in 1 .. n /\ n + 1 \in j .. n + 1 /\ n + 1 \in DOMAIN script
        BY <2>2 DEF Finished
      <4>2. world' = world
        BY <2>1, <2>2, <3>5, <4>1 DEF LeftAlone
      <4>3. PICK r, b : r = script[j] /\ b = answers[j]
        OBVIOUS
      <4>4. Foretells(r, b)
        BY <2>3, <3>5, <4>3
      <4>5. Foretells(r, b)'
        BY <4>2, <4>4, SameWorldSameTale
      <4>6. QED
        BY <3>2, <4>3, <4>5
    <3>6. Finished({"preflight-runtime"})' = Finished({"preflight-runtime"})
      BY <3>2 DEF Finished
    <3>7. ASSUME NEW j PROVE LeftAlone(j)' <=> LeftAlone(j)
      BY <3>2 DEF LeftAlone
    <3>8. PreflightForetellsLaunch'
      BY <2>4, <3>2 DEF PreflightForetellsLaunch, Finished, SameTarget, NoneSetUp
    <3>9. QED
      BY <3>4, <3>5, <3>6, <3>7, <3>8 DEF ForetoldInv
  <2>6. CASE \E a : Finish(a) /\ (calm' => Delivers(Request, a))
    <3>1. PICK a : Finish(a) /\ (calm' => Delivers(Request, a))
      BY <2>6
    <3>2. Delivers(Request, a)
      BY <1>2, <3>1
    <3>3. /\ Len(answers') = n + 1 /\ DOMAIN answers' = 1 .. n + 1
          /\ answers'[n + 1] = a
          /\ \A k \in 1 .. n : answers'[k] = answers[k]
      <4>1. DEFINE S == {answers[k] : k \in DOMAIN answers} \cup {a}
      <4>2. answers \in Seq(S)
        BY DEF DeviceInv, ScriptInv
      <4>3. answers' = Append(answers, a) /\ a \in S
        BY <3>1 DEF Finish
      <4>4. HIDE DEF S
      <4>5. QED
        BY <2>1, <2>2, <4>2, <4>3
    <3>4. ASSUME Running' PROVE Told(Request, step, answer)'
      <4>1. n + 1 < Len(script) /\ script[n + 2] \in Requests
        BY <2>2, <3>1, <3>3, <3>4 DEF Finish, Running
      <4>2. PICK r \in Requests : r = script[n + 2]
        BY <4>1
      <4>3. step' = FirstStep(r) /\ answer' = FirstAnswer(r) /\ Request' = r
        BY <2>2, <3>1, <3>3, <4>1, <4>2 DEF Finish, Request
      <4>4. QED
        BY <4>3, ToldBegins
    <3>5. ASSUME NEW j \in 1 .. n + 1, script[j].command = "preflight-runtime", LeftAlone(j)'
          PROVE  Foretells(script[j], answers[j])'
      <4>1. Request.command # "provision-ime"
        BY <2>2, <3>3, <3>5 DEF LeftAlone
      <4>2. world' = world
        BY <4>1
      <4>3. PICK r, b : r = script[j] /\ b = answers'[j]
        OBVIOUS
      <4>4. Foretells(r, b)
        <5>1. CASE j = n + 1
          BY <2>2, <3>2, <3>3, <3>5, <4>3, <5>1 DEF Delivers
        <5>2. CASE j \in 1 .. n
          <6>1. LeftAlone(j)
            BY <2>1, <2>2, <3>3, <3>5 DEF LeftAlone
          <6>2. j \in Finished({"preflight-runtime"})
            BY <2>2, <3>5, <5>2 DEF Finished
          <6>3. QED
            BY <2>3, <3>3, <4>3, <5>2, <6>1, <6>2
        <5>3. QED
          BY <2>2, <5>1, <5>2
      <4>5. Foretells(r, b)'
        BY <4>2, <4>4, SameWorldSameTale
      <4>6. QED
        BY <4>3, <4>5
    <3>6. ASSUME NEW j \in 1 .. n + 1, NEW k \in 1 .. n + 1, j < k,
                 script[j].command = "preflight-runtime",
                 script[k].command = "launch-package",
                 SameTarget(j, k)', NoneSetUp(j, k), answers'[k].launch_ok
          PROVE  answers'[j].ready /\ answers'[j].component = answers'[k].component
      <4>1. j \in 1 .. n /\ j \in Finished({"preflight-runtime"})
        BY <2>2, <3>6 DEF Finished
      <4>2. CASE k \in 1 .. n
        <5>1. SameTarget(j, k)
          BY <3>3, <3>6, <4>1, <4>2 DEF SameTarget
        <5>2. k \in Finished({"launch-package"})
          BY <2>2, <3>6, <4>2 DEF Finished
        <5>3. QED
          BY <2>4, <3>3, <3>6, <4>1, <4>2, <5>1, <5>2 DEF PreflightForetellsLaunch
      <4>3. CASE k = n + 1
        <5>1. LeftAlone(j)
          BY <2>1, <2>2, <3>6, <4>3 DEF LeftAlone, NoneSetUp
        <5>2. PICK r, q, b : r = script[j] /\ q = script[k] /\ b = answers[j]
          OBVIOUS
        <5>3. /\ r.backend = q.backend /\ q.backend # "waydroid"
              /\ r.component = q.component /\ q.component # "foreign"
              /\ r.override_allowed = q.override_allowed /\ r.package
              /\ b.serial = a.serial
          BY <3>3, <3>6, <4>1, <4>3, <5>2 DEF SameTarget
        <5>4. a.launch_ok /\ LaunchShows(q, a)
          BY <2>2, <3>2, <3>3, <3>6, <4>3, <5>2 DEF Delivers
        <5>5. Launchable(q, a.serial, a.component)
          BY <5>3, <5>4 DEF LaunchShows
        <5>6. Launchable(r, b.serial, a.component)
          BY <5>3, <5>5 DEF Launchable, Wanted
        <5>7. Foretells(r, b)
          BY <2>3, <4>1, <5>1, <5>2
        <5>8. b.ready /\ b.component = a.component
          BY <5>3, <5>6, <5>7 DEF Foretells
        <5>9. QED
          BY <3>3, <4>1, <4>3, <5>2, <5>8
      <4>4. QED
        BY <2>2, <4>2, <4>3
    <3>7. PreflightForetellsLaunch'
      BY <3>3, <3>6 DEF PreflightForetellsLaunch, Finished, NoneSetUp
    <3>8. QED
      BY <3>3, <3>4, <3>5, <3>7 DEF ForetoldInv, Finished
  <2>7. QED
    BY <2>5, <2>6 DEF Forward
<1>3. QED
  BY <1>1, <1>2

(* Discovery: a launch that works reaches its device, so that the preflight      *)
(* chooses the same one.                                                        *)
LEMMA OnlineIsChosen ==
  ASSUME NEW targets, Request.serial # "none", Request.serial \in DOMAIN targets,
         targets[Request.serial] = "online"
  PROVE  SelectionNote(TRUE, targets) = "none"
BY DEF SelectionNote

LEMMA DiscoveredForward ==
  ASSUME DeviceInv, SoFar(Request, step, answer), Told(Request, step, answer),
         step = "discover", NEW available \in BOOLEAN, NEW targets,
         Discovered(available, targets),
         calm' => available,
         calm' /\ OnAdb => targets = [s \in Listed |-> IF Reachable(s) THEN "online" ELSE "offline"],
         OnNative => targets = [s \in {NativeSerial} |-> "online"]
  PROVE  Forward
<1>1. /\ IsAnswer(answer) /\ Request.command # "launch-package"
      /\ Request.command = "preflight-runtime" =>
           answer.serial = Request.serial /\ answer.component = Request.component
  BY DEF SoFar, Told, PreflightTold, LaunchTold
<1>2. CASE Request.command = "discover-runtime"
  <2>1. PICK a : Finish(a)
    BY <1>2 DEF Discovered
  <2>2. QED
    BY <1>2, <2>1 DEF Forward, Delivers
<1>3. CASE Request.command # "discover-runtime"
           /\ SelectionNote(available, targets) # "none"
  <2>1. PICK a : a = [answer EXCEPT !.targets = targets,
                                    !.notes = SelectionNote(available, targets)]
    OBVIOUS
  <2>2. Finish(a)
    BY <1>3, <2>1 DEF Discovered
  <2>3. a.serial = answer.serial
    BY <1>1, <2>1 DEF IsAnswer, AnswerFields
  <2>4. ASSUME calm', Request.command = "preflight-runtime", NEW c,
               Launchable(Request, a.serial, c)
        PROVE  FALSE
    <3>1. available = TRUE /\ a.serial = Request.serial
      BY <1>1, <2>3, <2>4
    <3>2. CASE Request.backend = "attached-adb"
      <4>1. /\ a.serial \in DOMAIN world.adb /\ world.adb[a.serial].link = "device"
            /\ Request.serial # "none"
        BY <2>4, <3>1, <3>2 DEF Launchable, DeviceInv, WorldOK
      <4>2. /\ a.serial \in DOMAIN targets /\ targets[a.serial] = "online"
        BY <2>4, <3>2, <4>1 DEF OnAdb, Listed, Reachable
      <4>3. QED
        BY <1>3, <3>1, <4>1, <4>2, OnlineIsChosen
    <3>3. CASE Request.backend = "native"
      <4>1. a.serial = NativeSerial /\ Request.serial # "none"
        BY <2>4, <3>1, <3>3 DEF Launchable, NativeSerial
      <4>2. a.serial \in DOMAIN targets /\ targets[a.serial] = "online"
        BY <3>3, <4>1 DEF OnNative
      <4>3. QED
        BY <1>3, <3>1, <4>1, <4>2, OnlineIsChosen
    <3>4. QED
      BY <2>4, <3>2, <3>3 DEF Launchable
  <2>5. calm' => Delivers(Request, a)
    BY <1>1, <2>4 DEF Delivers, Foretells
  <2>6. QED
    BY <2>2, <2>5 DEF Forward
<1>4. CASE Request.command # "discover-runtime"
           /\ SelectionNote(available, targets) = "none"
  <2>1. PICK b : b = Selected(targets)
    OBVIOUS
  <2>2. Chosen(b)
    BY <1>4, <2>1 DEF Discovered
  <2>3. IsAnswer(b)
    BY <1>1, <2>1, SelectedFacts
  <2>4. b.component = answer.component
    <3>1. PICK serial, notes :
            b = [answer EXCEPT !.targets = targets, !.serial = serial, !.notes = notes]
      BY <2>1, Zenon DEF Selected
    <3>2. QED
      BY <1>1, <3>1 DEF IsAnswer, AnswerFields
  <2>5. CASE Request.package /\ OnAdb
    <3>1. Told(Request, "visible", b)
      BY <1>1, <2>4 DEF Told, PreflightTold
    <3>2. QED
      BY <2>2, <2>5, <3>1 DEF Chosen, Forward
  <2>6. CASE ~(Request.package /\ OnAdb) /\ Request.package /\ OnNative
    <3>1. Request.serial \in {"none", NativeSerial}
      BY <1>4, <2>6 DEF SelectionNote
    <3>2. Told(Request, "lookup", b)
      BY <1>1, <2>4, <3>1 DEF Told, PreflightTold
    <3>3. QED
      BY <2>2, <2>6, <3>2 DEF Chosen, Forward
  <2>7. CASE ~(Request.package /\ OnAdb) /\ ~(Request.package /\ OnNative)
    <3>1. PICK a : Finish(a)
      BY <2>2, <2>7 DEF Chosen
    <3>2. Foretells(Request, a)
      BY <2>7 DEF Foretells, Launchable, OnAdb, OnNative
    <3>3. QED
      BY <1>1, <3>1, <3>2 DEF Forward, Delivers
  <2>8. QED
    BY <2>5, <2>6, <2>7
<1>5. QED
  BY <1>2, <1>3, <1>4

LEMMA DiscoveryForward ==
  ASSUME DeviceInv, SoFar(Request, step, answer), Told(Request, step, answer),
         DiscoverAdb \/ DiscoverWaydroid \/ DiscoverNative
  PROVE  Forward
<1>1. CASE DiscoverAdb
  <2>1. PICK exit \in {0, 1, Timeout} :
          /\ Discovered(exit = 0,
               IF exit # 0 THEN << >>
               ELSE [s \in Listed |-> IF Reachable(s) THEN "online" ELSE "offline"])
          /\ StaysCalm(exit = 0)
    BY <1>1 DEF DiscoverAdb
  <2>2. step = "discover" /\ OnAdb /\ ~OnNative /\ (calm' => exit = 0)
    BY <1>1, <2>1 DEF DiscoverAdb, StaysCalm, OnAdb, OnNative
  <2>3. PICK targets :
          targets = IF exit # 0 THEN << >>
                    ELSE [s \in Listed |-> IF Reachable(s) THEN "online" ELSE "offline"]
    OBVIOUS
  <2>4. QED
    BY <2>1, <2>2, <2>3, DiscoveredForward
<1>2. CASE DiscoverWaydroid
  <2>1. PICK exit, targets : Discovered(exit = 0, targets) /\ StaysCalm(exit = 0)
    BY <1>2 DEF DiscoverWaydroid
  <2>2. step = "discover" /\ ~OnAdb /\ ~OnNative /\ (calm' => exit = 0)
    BY <1>2, <2>1 DEF DiscoverWaydroid, StaysCalm, OnAdb, OnNative
  <2>3. QED
    BY <2>1, <2>2, DiscoveredForward
<1>3. CASE DiscoverNative
  <2>1. step = "discover" /\ ~OnAdb
    BY <1>3 DEF DiscoverNative, OnAdb, OnNative
  <2>2. QED
    BY <1>3, <2>1, DiscoveredForward DEF DiscoverNative
<1>4. QED
  BY <1>1, <1>2, <1>3

--------------------------------------------------------------------------------
(* Questions to an adb device: in a calm world they are answered truly.           *)

LEMMA CheckVisibleForward ==
  ASSUME DeviceInv, SoFar(Request, step, answer), Told(Request, step, answer),
         CheckVisible
  PROVE  Forward
<1>1. /\ step = "visible" /\ IsAnswer(answer) /\ Request.command # "launch-package"
      /\ Request.command = "preflight-runtime" =>
           Request.backend = "attached-adb" /\ answer.component = Request.component
  BY DEF CheckVisible, SoFar, PreflightSoFar, Told, PreflightTold, LaunchTold
<1>2. PICK exit \in BoundedExits(answer.serial) :
        LET visible == exit = 0 /\ world.adb[answer.serial].setup > 0
            checked == [answer EXCEPT
              !.visible = visible,
              !.notes = IF TimedOut(exit) THEN "visibility_timeout"
                        ELSE IF visible THEN @
                        ELSE NoteIfNone(answer, "package_invisible")] IN
        /\ StaysCalm(exit = 0)
        /\ IF Is({"inspect-package"})
             THEN IF visible THEN Go("launcher", checked) ELSE Finish(checked)
           ELSE IF visible /\ Request.component = "none" THEN Go("launcher", checked)
           ELSE Finish(Verdict([checked EXCEPT !.component_ready = visible]))
  BY DEF CheckVisible
<1>3. PICK visible : visible = (exit = 0 /\ world.adb[answer.serial].setup > 0)
  OBVIOUS
<1>4. PICK notes : notes = IF TimedOut(exit) THEN "visibility_timeout"
                           ELSE IF visible THEN answer.notes
                           ELSE NoteIfNone(answer, "package_invisible")
  OBVIOUS
<1>5. PICK checked : checked = [answer EXCEPT !.visible = visible, !.notes = notes]
  OBVIOUS
<1>6. /\ calm' => exit = 0
      /\ IF Is({"inspect-package"})
           THEN IF visible THEN Go("launcher", checked) ELSE Finish(checked)
         ELSE IF visible /\ Request.component = "none" THEN Go("launcher", checked)
         ELSE Finish(Verdict([checked EXCEPT !.component_ready = visible]))
  BY <1>2, <1>3, <1>4, <1>5 DEF StaysCalm
<1>7. /\ IsAnswer(checked) /\ checked.component = answer.component
      /\ checked.serial = answer.serial /\ checked.visible = visible
  BY <1>1, <1>5 DEF IsAnswer, AnswerFields
<1>8. CASE Request.command = "preflight-runtime"
  <2>1. /\ ~Is({"inspect-package"}) /\ Request.backend = "attached-adb"
        /\ answer.component = Request.component
    BY <1>1, <1>8 DEF Is
  <2>2. CASE visible /\ Request.component = "none"
    <3>1. Go("launcher", checked)
      BY <1>6, <2>1, <2>2
    <3>2. Told(Request, "launcher", checked)
      BY <1>7, <1>8, <2>1, <2>2 DEF Told, PreflightTold
    <3>3. QED
      BY <3>1, <3>2 DEF Forward
  <2>3. CASE ~(visible /\ Request.component = "none")
    <3>1. PICK c : c = [checked EXCEPT !.component_ready = visible]
      OBVIOUS
    <3>2. PICK a : a = Verdict(c)
      OBVIOUS
    <3>3. Finish(a)
      BY <1>6, <2>1, <2>3, <3>1, <3>2
    <3>4. /\ IsAnswer(c) /\ c.component = Request.component /\ c.serial = answer.serial
          /\ c.visible = visible /\ c.component_ready = visible
      BY <1>7, <2>1, <3>1 DEF IsAnswer, AnswerFields
    <3>5. /\ a.component = Request.component /\ a.serial = answer.serial
          /\ a.ready <=> visible
      BY <2>1, <3>2, <3>4 DEF Verdict, IsAnswer, AnswerFields, OnNative
    <3>6. ASSUME calm', NEW x, Launchable(Request, a.serial, x)
          PROVE  a.ready /\ a.component = x
      <4>1. /\ world.adb[answer.serial].setup > 0
            /\ x = Wanted(Request, world.adb[answer.serial].launcher)
        BY <2>1, <3>5, <3>6 DEF Launchable
      <4>2. visible
        BY <1>3, <1>6, <3>6, <4>1
      <4>3. QED
        BY <2>3, <3>5, <4>1, <4>2 DEF Wanted
    <3>7. QED
      BY <1>8, <3>3, <3>6 DEF Forward, Delivers, Foretells
  <2>4. QED
    BY <2>2, <2>3
<1>9. CASE Request.command # "preflight-runtime"
  <2>1. \/ Go("launcher", checked)
        \/ \E a : Finish(a)
    BY <1>6
  <2>2. QED
    BY <1>1, <1>9, <2>1 DEF Forward, Told, Delivers
<1>10. QED
  BY <1>8, <1>9

LEMMA ResolveLauncherForward ==
  ASSUME DeviceInv, SoFar(Request, step, answer), Told(Request, step, answer),
         ResolveLauncher
  PROVE  Forward
<1>1. /\ step = "launcher" /\ IsAnswer(answer)
      /\ Request.command = "preflight-runtime" =>
           /\ Request.backend = "attached-adb" /\ answer.visible
           /\ Request.component = "none"
      /\ Request.command = "launch-package" =>
           /\ Request.backend # "native" /\ answer.launch_ok = FALSE
           /\ Request.component = "none"
  BY DEF ResolveLauncher, SoFar, PreflightSoFar, Told, PreflightTold, LaunchTold
<1>2. PICK exit, found : found = Launcher(exit) /\ StaysCalm(exit = 0)
        /\ LET resolved == [answer EXCEPT
                 !.component = found,
                 !.component_ready = found # "none",
                 !.notes = IF found # "none" THEN @ ELSE NoteIfNone(answer, NoLauncherNote(exit))] IN
           IF Is({"preflight-runtime"}) THEN Finish(Verdict(resolved))
           ELSE IF Is({"inspect-package"}) THEN Go("path", resolved)
           ELSE IF found = "none" THEN Finish(resolved)
           ELSE Go("start", resolved)
  BY DEF ResolveLauncher
<1>3. PICK ready \in BOOLEAN : ready = (found # "none")
  OBVIOUS
<1>4. PICK notes : notes = IF found # "none" THEN answer.notes
                           ELSE NoteIfNone(answer, NoLauncherNote(exit))
  OBVIOUS
<1>5. PICK resolved : resolved = [answer EXCEPT !.component = found,
                                    !.component_ready = ready, !.notes = notes]
  OBVIOUS
<1>6. IF Is({"preflight-runtime"}) THEN Finish(Verdict(resolved))
      ELSE IF Is({"inspect-package"}) THEN Go("path", resolved)
      ELSE IF found = "none" THEN Finish(resolved)
      ELSE Go("start", resolved)
  BY <1>2, <1>3, <1>4, <1>5
<1>7. /\ IsAnswer(resolved) /\ resolved.component = found
      /\ resolved.component_ready = ready /\ resolved.visible = answer.visible
      /\ resolved.serial = answer.serial /\ resolved.launch_ok = answer.launch_ok
  BY <1>1, <1>5 DEF IsAnswer, AnswerFields
<1>8. /\ calm' /\ world.adb[answer.serial].setup > 0 =>
           found = world.adb[answer.serial].launcher
      /\ found # "none" => /\ world.adb[answer.serial].setup > 0
                           /\ found = world.adb[answer.serial].launcher
  BY <1>2 DEF Launcher, StaysCalm
<1>9. CASE Request.command = "preflight-runtime"
  <2>1. PICK a : a = Verdict(resolved)
    OBVIOUS
  <2>2. Finish(a)
    BY <1>1, <1>6, <1>9, <2>1 DEF Is
  <2>3. /\ a.component = found /\ a.serial = answer.serial
        /\ a.ready <=> ready
    BY <1>1, <1>7, <1>9, <2>1 DEF Verdict, IsAnswer, AnswerFields, OnNative
  <2>4. ASSUME calm', NEW x, Launchable(Request, a.serial, x)
        PROVE  a.ready /\ a.component = x
    <3>1. /\ world.adb[answer.serial].setup > 0
          /\ x = world.adb[answer.serial].launcher /\ x # "none"
      BY <1>1, <1>9, <2>3, <2>4 DEF Launchable, Wanted
    <3>2. QED
      BY <1>3, <1>8, <2>3, <2>4, <3>1
  <2>5. QED
    BY <1>9, <2>2, <2>4 DEF Forward, Delivers, Foretells
<1>10. CASE Request.command = "launch-package"
  <2>1. ~Is({"preflight-runtime"}) /\ ~Is({"inspect-package"})
    BY <1>10 DEF Is
  <2>2. CASE found = "none"
    <3>1. Finish(resolved)
      BY <1>6, <2>1, <2>2
    <3>2. resolved.launch_ok = FALSE
      BY <1>1, <1>7, <1>10
    <3>3. QED
      BY <1>10, <3>1, <3>2 DEF Forward, Delivers, LaunchShows
  <2>3. CASE found # "none"
    <3>1. Go("start", resolved)
      BY <1>6, <2>1, <2>3
    <3>2. Told(Request, "start", resolved)
      BY <1>1, <1>7, <1>8, <1>10, <2>3 DEF Told, LaunchTold, Wanted
    <3>3. QED
      BY <3>1, <3>2 DEF Forward
  <2>4. QED
    BY <2>2, <2>3
<1>11. CASE Request.command \notin {"preflight-runtime", "launch-package"}
  <2>1. \/ Go("path", resolved) \/ Go("start", resolved)
        \/ Finish(resolved)
    BY <1>1, <1>6, <1>11 DEF Is
  <2>2. QED
    BY <1>11, <2>1 DEF Forward, Told, Delivers
<1>12. QED
  BY <1>9, <1>10, <1>11

LEMMA FurtherStepsForward ==
  ASSUME DeviceInv, SoFar(Request, step, answer), Told(Request, step, answer),
         InspectFurther
  PROVE  Forward
<1>1. step \in {"path", "dump"}
  BY DEF InspectFurther
<1>2. Request.command \notin {"preflight-runtime", "launch-package"}
  BY <1>1 DEF Told, LaunchTold, SoFar, PreflightSoFar, PreflightSteps
<1>3. Go("dump", answer) \/ \E a : Finish(a)
  BY DEF InspectFurther
<1>4. QED
  BY <1>2, <1>3 DEF Forward, Told, Delivers

(* A launch that works has reached its device, and an app that is there.          *)
LEMMA StartsForward ==
  ASSUME DeviceInv, SoFar(Request, step, answer), Told(Request, step, answer),
         StartActivity \/ StartWaydroidApp
  PROVE  Forward
<1>1. step = "start" /\ IsAnswer(answer)
  BY DEF StartActivity, StartWaydroidApp, SoFar
<1>2. Request.command # "preflight-runtime"
  BY <1>1 DEF SoFar, PreflightSoFar, PreflightSteps
<1>3. CASE StartWaydroidApp
  <2>1. PICK a : Finish(a)
    BY <1>3 DEF StartWaydroidApp
  <2>2. Request.backend = "waydroid"
    BY <1>3 DEF StartWaydroidApp
  <2>3. QED
    BY <1>2, <2>1, <2>2 DEF Forward, Delivers, LaunchShows
<1>4. CASE StartActivity
  <2>1. PICK exit \in Exits(answer.serial), started \in BOOLEAN :
          /\ started => Reachable(answer.serial)
          /\ started /\ answer.component # "foreign" => world.adb[answer.serial].setup > 0
          /\ Finish([answer EXCEPT !.launch_ok = exit = 0 /\ started])
    BY <1>4, Zenon DEF StartActivity
  <2>2. PICK ok : ok = (exit = 0 /\ started)
    OBVIOUS
  <2>3. PICK a : a = [answer EXCEPT !.launch_ok = ok]
    OBVIOUS
  <2>4. Finish(a)
    BY <2>1, <2>2, <2>3
  <2>5. a.launch_ok = ok /\ a.serial = answer.serial /\ a.component = answer.component
    BY <1>1, <2>3 DEF IsAnswer, AnswerFields
  <2>6. ASSUME Request.command = "launch-package", a.launch_ok,
               Request.component # "foreign"
        PROVE  Launchable(Request, a.serial, a.component)
    <3>1. Request.backend = "attached-adb"
      BY <1>4 DEF StartActivity, OnAdb
    <3>2. /\ started
          /\ answer.serial \in DOMAIN world.adb /\ world.adb[answer.serial].link = "device"
      BY <2>1, <2>2, <2>5, <2>6 DEF Reachable
    <3>3. /\ Request.component = "none" =>
               world.adb[answer.serial].setup > 0 /\ world.adb[answer.serial].launcher # "none"
          /\ answer.component = Wanted(Request, world.adb[answer.serial].launcher)
      BY <1>1, <2>6, <3>1 DEF Told, LaunchTold
    <3>4. world.adb[answer.serial].setup > 0 /\ answer.component # "none"
      BY <2>1, <2>6, <3>2, <3>3 DEF Wanted
    <3>5. QED
      BY <2>5, <3>1, <3>2, <3>3, <3>4 DEF Launchable
  <2>7. QED
    BY <1>2, <2>4, <2>6 DEF Forward, Delivers, LaunchShows
<1>5. QED
  BY <1>3, <1>4

--------------------------------------------------------------------------------
(* Apps in the compat root: the preflight asks for all that the runner asks for.  *)

LEMMA LookUpForward ==
  ASSUME DeviceInv, SoFar(Request, step, answer), Told(Request, step, answer),
         LookUpStaged
  PROVE  Forward
<1>1. step = "lookup" /\ IsAnswer(answer) /\ answer.ready = FALSE
  BY DEF LookUpStaged, SoFar
<1>2. PICK found \in BOOLEAN : found = Found
  BY DEF Found
<1>3. PICK component : component = IF Request.component = "none" /\ found
                                     THEN Staged.launcher ELSE Request.component
  OBVIOUS
<1>4. PICK ready \in BOOLEAN :
        ready = (found /\ component # "none" /\ Request.component # "foreign")
  OBVIOUS
<1>5. PICK notes : notes = IF ~found THEN "not_staged"
                           ELSE IF Request.component = "foreign" THEN "component_elsewhere"
                           ELSE IF component = "none" THEN "no_launcher" ELSE answer.notes
  OBVIOUS
<1>6. PICK looked : looked = [answer EXCEPT !.visible = found, !.component = component,
                                            !.component_ready = ready, !.notes = notes]
  OBVIOUS
<1>7. IF Is({"inspect-package"}) THEN Finish(looked)
      ELSE IF Is({"preflight-runtime"})
        THEN IF looked.component_ready THEN Go("diagnose", looked)
             ELSE Finish(Verdict(looked))
      ELSE IF found /\ component # "none" THEN Go("execute", looked) ELSE Finish(looked)
  BY <1>2, <1>3, <1>4, <1>5, <1>6 DEF LookUpStaged
<1>8. /\ IsAnswer(looked) /\ looked.component = component /\ looked.serial = answer.serial
      /\ looked.component_ready = ready /\ looked.launch_ok = answer.launch_ok
  BY <1>1, <1>6 DEF IsAnswer, AnswerFields
<1>9. found => component = Wanted(Request, Staged.launcher)
  BY <1>3 DEF Wanted
<1>10. CASE Request.command = "preflight-runtime"
  <2>1. ~Is({"inspect-package"}) /\ Is({"preflight-runtime"})
    BY <1>1, <1>10 DEF Is
  <2>2. CASE ready
    <3>1. Go("diagnose", looked)
      BY <1>7, <1>8, <2>1, <2>2
    <3>2. Told(Request, "diagnose", looked)
      BY <1>4, <1>8, <1>9, <1>10, <2>2 DEF Told, PreflightTold
    <3>3. QED
      BY <3>1, <3>2 DEF Forward
  <2>3. CASE ~ready
    <3>1. PICK a : a = Verdict(looked)
      OBVIOUS
    <3>2. Finish(a)
      BY <1>7, <1>8, <2>1, <2>3, <3>1
    <3>3. Request.serial \in {"none", NativeSerial} /\ Request.backend = "native"
      BY <1>1, <1>10 DEF Told, PreflightTold, SoFar, PreflightSoFar
    <3>4. ASSUME NEW x, Launchable(Request, a.serial, x), Request.component # "foreign"
          PROVE  FALSE
      <4>1. /\ x # "none" /\ Staged.installed = "install"
            /\ x = Wanted(Request, Staged.launcher)
        BY <3>3, <3>4 DEF Launchable
      <4>2. found
        BY <1>2, <3>3, <4>1 DEF Found
      <4>3. QED
        BY <1>4, <1>9, <2>3, <3>4, <4>1, <4>2
    <3>5. QED
      BY <1>10, <3>2, <3>4 DEF Forward, Delivers, Foretells
  <2>4. QED
    BY <2>2, <2>3
<1>11. CASE Request.command = "launch-package"
  <2>1. ~Is({"inspect-package"}) /\ ~Is({"preflight-runtime"})
    BY <1>11 DEF Is
  <2>2. /\ Request.backend = "native" /\ answer.serial = NativeSerial
        /\ answer.launch_ok = FALSE
    BY <1>1, <1>11 DEF Told, LaunchTold
  <2>3. CASE found /\ component # "none"
    <3>1. Go("execute", looked)
      BY <1>7, <2>1, <2>3
    <3>2. Told(Request, "execute", looked)
      BY <1>8, <1>9, <1>11, <2>2, <2>3 DEF Told, LaunchTold
    <3>3. QED
      BY <3>1, <3>2 DEF Forward
  <2>4. CASE ~(found /\ component # "none")
    <3>1. Finish(looked) /\ looked.launch_ok = FALSE
      BY <1>7, <1>8, <2>1, <2>2, <2>4
    <3>2. QED
      BY <1>11, <3>1 DEF Forward, Delivers, LaunchShows
  <2>5. QED
    BY <2>3, <2>4
<1>12. CASE Request.command \notin {"preflight-runtime", "launch-package"}
  <2>1. Finish(looked) \/ Go("execute", looked)
    BY <1>7, <1>12 DEF Is
  <2>2. QED
    BY <1>12, <2>1 DEF Forward, Told, Delivers
<1>13. QED
  BY <1>10, <1>11, <1>12

(* The runner is invoked only if the preflight's two verdicts would be positive.   *)
LEMMA RunnerNeedsTheRuntime ==
  ASSUME NEW f, Chain!RunnerInvoked(f)
  PROVE  Chain!RuntimeClassResolutionSucceeded(f) /\ Chain!RuntimeBootstrapPlanned(f)
BY DEF Chain!RunnerInvoked, Chain!ExecutionBlockedReason

LEMMA DiagnoseForward ==
  ASSUME DeviceInv, SoFar(Request, step, answer), Told(Request, step, answer), Diagnose
  PROVE  Forward
<1>1. step = "diagnose" /\ IsAnswer(answer)
  BY DEF Diagnose, SoFar
<1>2. Request.command # "launch-package"
  BY <1>1 DEF Told, LaunchTold
<1>3. PICK throws \in BOOLEAN :
        /\ Finish(Verdict(
             IF throws THEN [answer EXCEPT !.notes = "error"]
             ELSE [answer EXCEPT
                     !.probe_ready = ProbeReady(Staged.facts),
                     !.planned = Chain!RuntimeBootstrapPlanned(Staged.facts),
                     !.notes = DiagnosticsNote(Staged.facts)]))
        /\ StaysCalm(~throws)
  BY DEF Diagnose
<1>4. PICK a : Finish(a)
  BY <1>3
<1>5. CASE Request.command # "preflight-runtime" \/ throws
  BY <1>2, <1>3, <1>5 DEF Forward, Delivers, StaysCalm
<1>6. CASE Request.command = "preflight-runtime" /\ ~throws
  <2>1. PICK f : f = Staged.facts
    OBVIOUS
  <2>2. PICK probed, planned, notes :
          /\ probed = ProbeReady(f) /\ planned = Chain!RuntimeBootstrapPlanned(f)
          /\ notes = DiagnosticsNote(f)
    OBVIOUS
  <2>3. PICK b : b = [answer EXCEPT !.probe_ready = probed, !.planned = planned,
                                    !.notes = notes]
    OBVIOUS
  <2>4. Finish(Verdict(b))
    BY <1>3, <1>6, <2>1, <2>2, <2>3
  <2>5. /\ Request.backend = "native" /\ answer.visible = TRUE
        /\ answer.component_ready = TRUE
        /\ answer.component = Wanted(Request, Staged.launcher)
    BY <1>1, <1>6 DEF SoFar, PreflightSoFar, Told, PreflightTold
  <2>6. /\ IsAnswer(b) /\ b.probe_ready = probed /\ b.planned = planned
        /\ b.visible = TRUE /\ b.component_ready = TRUE
        /\ b.component = answer.component
    BY <1>1, <2>3, <2>5 DEF IsAnswer, AnswerFields
  <2>7. /\ Verdict(b).component = answer.component
        /\ probed /\ planned => Verdict(b).ready
    BY <2>6 DEF Verdict, IsAnswer, AnswerFields
  <2>8. ASSUME NEW s, NEW x, Launchable(Request, s, x)
        PROVE  Verdict(b).ready /\ Verdict(b).component = x
    <3>1. /\ x = Wanted(Request, Staged.launcher) /\ Chain!RunnerInvoked(f)
          /\ Chain!RuntimeCapability(f) = "override_bootstrap_capable" =>
               Request.override_allowed
      BY <2>1, <2>5, <2>8 DEF Launchable
    <3>2. probed /\ planned
      BY <2>2, <3>1, RunnerNeedsTheRuntime DEF ProbeReady, OverrideOnly
    <3>3. QED
      BY <2>5, <2>7, <3>1, <3>2
  <2>9. QED
    BY <1>2, <2>4, <2>8 DEF Forward, Delivers, Foretells
<1>7. QED
  BY <1>3, <1>5, <1>6

LEMMA ExecuteForward ==
  ASSUME DeviceInv, SoFar(Request, step, answer), Told(Request, step, answer), Execute
  PROVE  Forward
<1>1. step = "execute" /\ IsAnswer(answer)
  BY DEF Execute, SoFar
<1>2. Request.command # "preflight-runtime"
  BY <1>1 DEF SoFar, PreflightSoFar, PreflightSteps
<1>3. PICK throws \in BOOLEAN, succeeded \in BOOLEAN :
        /\ Staged.installed # "install" => throws
        /\ succeeded => ~throws /\ Chain!RunnerInvoked(Staged.facts)
        /\ Finish([answer EXCEPT
             !.launch_ok = ~throws /\ LaunchOk(Staged.facts, succeeded)])
  BY DEF Execute
<1>4. PICK ok : ok = (~throws /\ LaunchOk(Staged.facts, succeeded))
  OBVIOUS
<1>5. PICK a : a = [answer EXCEPT !.launch_ok = ok]
  OBVIOUS
<1>6. Finish(a)
  BY <1>3, <1>4, <1>5
<1>7. a.launch_ok = ok /\ a.serial = answer.serial /\ a.component = answer.component
  BY <1>1, <1>5 DEF IsAnswer, AnswerFields
<1>8. ASSUME Request.command = "launch-package", a.launch_ok
      PROVE  Launchable(Request, a.serial, a.component)
  <2>1. /\ Request.backend = "native" /\ answer.serial = NativeSerial
        /\ answer.component = Wanted(Request, Staged.launcher) /\ answer.component # "none"
    BY <1>1, <1>8 DEF Told, LaunchTold
  <2>2. ~throws /\ succeeded /\ ~OverrideOnly(Staged.facts)
    BY <1>4, <1>7, <1>8 DEF LaunchOk
  <2>3. Staged.installed = "install" /\ Chain!RunnerInvoked(Staged.facts)
    BY <1>3, <2>2
  <2>4. QED
    BY <1>7, <2>1, <2>2, <2>3 DEF Launchable, OverrideOnly
<1>9. QED
  BY <1>2, <1>6, <1>8 DEF Forward, Delivers, LaunchShows

--------------------------------------------------------------------------------
(* Input methods: neither a preflight nor a launch.                               *)

LEMMA ImeForward ==
  ASSUME DeviceInv, SoFar(Request, step, answer), Told(Request, step, answer),
         RejectApk \/ InstallApk \/ EnableIme \/ SetIme \/ QueryStatus \/ OpenSettings
  PROVE  Forward
<1>1. step \in ImeSteps
  BY DEF RejectApk, InstallApk, EnableIme, SetIme, QueryStatus, OpenSettings, ImeSteps
<1>2. /\ Request.command \in {"provision-ime", "adb-ime-status"}
      /\ step \in {"install", "enable", "set"} => Request.command = "provision-ime"
  BY <1>1 DEF SoFar, ImeSoFar, Told
<1>3. \/ \E a : Finish(a)
      \/ step \in {"install", "enable"} /\ \E next \in {"enable", "set"} : \E a : Go(next, a)
      \/ \E next \in {"query", "settings"} : \E a : Go(next, a)
  <2>1. RejectApk \/ OpenSettings => \E a : Finish(a)
    BY Zenon DEF RejectApk, OpenSettings
  <2>2. InstallApk => step = "install" /\ \E a : Go("enable", a)
    BY Zenon DEF InstallApk
  <2>3. EnableIme => step = "enable" /\ \E a : Go("set", a)
    BY Zenon DEF EnableIme
  <2>4. SetIme => \E a : Go("query", a)
    BY Zenon DEF SetIme
  <2>5. QueryStatus => (\E a : Finish(a)) \/ (\E a : Go("query", a)) \/ (\E a : Go("settings", a))
    BY Zenon DEF QueryStatus
  <2>6. QED
    BY <2>1, <2>2, <2>3, <2>4, <2>5
<1>4. QED
  BY <1>2, <1>3 DEF Forward, Told, Delivers

LEMMA NextForetoldInv ==
  DeviceInv /\ ForetoldInv /\ [DeviceNext]_deviceVars => ForetoldInv'
<1>1. SUFFICES ASSUME DeviceInv, ForetoldInv, [DeviceNext]_deviceVars PROVE ForetoldInv'
  OBVIOUS
<1>2. CASE CommandStep
  <2>1. Running
    BY <1>2 DEF CommandStep, DiscoverAdb, DiscoverWaydroid, DiscoverNative, CheckVisible,
         ResolveLauncher, InspectFurther, StartActivity, StartWaydroidApp, LookUpStaged,
         Diagnose, Execute, RejectApk, InstallApk, EnableIme, SetIme, QueryStatus,
         OpenSettings, Running
  <2>2. SoFar(Request, step, answer)
    BY <1>1, <2>1 DEF DeviceInv, ScriptInv, Running
  <2>3. UNCHANGED script
    BY <1>2 DEF CommandStep, DiscoverAdb, DiscoverWaydroid, DiscoverNative, CheckVisible,
         ResolveLauncher, InspectFurther, StartActivity, StartWaydroidApp, LookUpStaged,
         Diagnose, Execute, RejectApk, InstallApk, EnableIme, SetIme, QueryStatus,
         OpenSettings, Alone, Advances
  <2>4. calm' => calm
    BY <1>2 DEF CommandStep, DiscoverAdb, DiscoverWaydroid, DiscoverNative, CheckVisible,
         ResolveLauncher, InspectFurther, StartActivity, StartWaydroidApp, LookUpStaged,
         Diagnose, Execute, RejectApk, InstallApk, EnableIme, SetIme, QueryStatus,
         OpenSettings, Advances, StaysCalm
  <2>5. CASE ~calm'
    BY <2>5 DEF ForetoldInv, PreflightForetellsLaunch
  <2>6. CASE calm'
    <3>1. Told(Request, step, answer)
      BY <1>1, <2>1, <2>4, <2>6 DEF ForetoldInv
    <3>2. Forward
      BY <1>1, <1>2, <2>2, <3>1, DiscoveryForward, CheckVisibleForward,
         ResolveLauncherForward, FurtherStepsForward, StartsForward, LookUpForward,
         DiagnoseForward, ExecuteForward, ImeForward DEF CommandStep
    <3>3. world' = world \/ Request.command = "provision-ime"
      <4>1. CASE InstallApk \/ EnableIme \/ SetIme
        <5>1. step \in {"install", "enable", "set"}
          BY <4>1 DEF InstallApk, EnableIme, SetIme
        <5>2. QED
          BY <3>1, <5>1 DEF Told
      <4>2. CASE ~(InstallApk \/ EnableIme \/ SetIme)
        BY <1>2, <4>2 DEF CommandStep, DiscoverAdb, DiscoverWaydroid, DiscoverNative,
           CheckVisible, ResolveLauncher, InspectFurther, StartActivity, StartWaydroidApp,
           LookUpStaged, Diagnose, Execute, RejectApk, QueryStatus, OpenSettings, Alone
      <4>3. QED
        BY <4>1, <4>2
    <3>4. QED
      BY <1>1, <2>1, <2>3, <2>4, <3>2, <3>3, ForwardKeepsForetold
  <2>7. QED
    BY <2>5, <2>6
<1>3. CASE Hang \/ WorldChanges
  <2>1. calm' = FALSE
    BY <1>3 DEF Hang, WorldChanges
  <2>2. QED
    BY <2>1 DEF ForetoldInv, PreflightForetellsLaunch
<1>4. CASE ScriptOver \/ UNCHANGED deviceVars
  <2>1. UNCHANGED <<script, world, answers, step, answer, calm>>
    BY <1>4 DEF ScriptOver, deviceVars
  <2>2. PICK r, s, a : r = Request /\ s = step /\ a = answer
    OBVIOUS
  <2>3. Request' = r /\ step' = s /\ answer' = a
    BY <2>1, <2>2 DEF Request
  <2>4. (calm /\ Running => Told(Request, step, answer))'
    BY <1>1, <2>1, <2>2, <2>3, SameWorldSameTale DEF ForetoldInv, Running
  <2>5. ASSUME calm, NEW j \in Finished({"preflight-runtime"}), LeftAlone(j)
        PROVE  Foretells(script[j], answers[j])'
    <3>1. PICK q, b : q = script[j] /\ b = answers[j]
      OBVIOUS
    <3>2. Foretells(q, b)
      BY <1>1, <2>5, <3>1 DEF ForetoldInv
    <3>3. Foretells(q, b)'
      BY <2>1, <3>2, SameWorldSameTale
    <3>4. QED
      BY <2>1, <3>1, <3>3
  <2>6. /\ Finished({"preflight-runtime"})' = Finished({"preflight-runtime"})
        /\ \A j : LeftAlone(j)' <=> LeftAlone(j)
        /\ PreflightForetellsLaunch' <=> PreflightForetellsLaunch
    BY <2>1 DEF Finished, LeftAlone, PreflightForetellsLaunch, SameTarget, NoneSetUp
  <2>7. QED
    BY <1>1, <2>1, <2>4, <2>5, <2>6 DEF ForetoldInv
<1>5. QED
  BY <1>1, <1>2, <1>3, <1>4 DEF DeviceNext

LEMMA InitForetoldInv == DeviceInit => ForetoldInv
<1>1. SUFFICES ASSUME DeviceInit PROVE ForetoldInv
  OBVIOUS
<1>2. script \in Seq(Requests) /\ Len(script) > 0 /\ script[1] \in Requests
  BY <1>1, DeviceAssumption DEF DeviceInit
<1>3. Len(answers) = 0 /\ DOMAIN answers = {} /\ Request = script[1]
  BY <1>1 DEF DeviceInit, Request
<1>4. Told(Request, step, answer)
  BY <1>1, <1>2, <1>3, ToldBegins DEF DeviceInit
<1>5. QED
  BY <1>3, <1>4 DEF ForetoldInv, PreflightForetellsLaunch, Finished

(* While nothing changes and nothing fails, a launch that works was foretold by   *)
(* every preflight before it that asked about the same app on the same target in   *)
(* the same environment: the verdict said ready and named the component the launch  *)
(* starts, unless an input method was set up in between                           *)
(* (PreflightRuntimeWithRunner, LaunchInstalledAppWithRunner).                     *)
THEOREM LaunchesAreForetold == DeviceSpec => []PreflightForetellsLaunch
<1>1. DeviceInit => DeviceInv /\ ForetoldInv
  BY InitDeviceInv, InitForetoldInv
<1>2. DeviceInv /\ ForetoldInv /\ [DeviceNext]_deviceVars => (DeviceInv /\ ForetoldInv)'
  BY NextDeviceInv, NextForetoldInv
<1>3. DeviceInv /\ ForetoldInv => PreflightForetellsLaunch
  BY DEF ForetoldInv
<1>4. QED
  BY <1>1, <1>2, <1>3, PTL DEF DeviceSpec

--------------------------------------------------------------------------------
(* Where a command may be, and of which device it asks there.                      *)

AppSteps == {"visible", "launcher", "path", "dump"}
OtherSteps == {"discover", "start", "lookup", "diagnose", "execute", "install", "enable", "set",
               "query", "settings"}

(* How many of the four questions were asked, and which facts they may have shown.   *)
Asking(a) ==
  /\ a.asked \in 0 .. 4
  /\ a.seen \subseteq {StatusQueries[k] : k \in 1 .. a.asked}

(* The running command at its step, with the devices there are.                    *)
Placed(r, s, a, devices) ==
  /\ s \in AppSteps \cup OtherSteps /\ Asking(a)
  /\ s \in AppSteps => a.serial \in devices
  /\ s = "discover" => r.command = "discover-runtime" \/ a.serial = r.serial

CommandPlaced ==
  /\ step \in AppSteps \cup OtherSteps \cup {"over", "hung"} /\ Asking(answer)
  /\ Running => Placed(Request, step, answer, DOMAIN world.adb)
  /\ changes \in 0 .. MaxChanges

LEMMA CommandTyped == ASSUME DeviceInv, CommandPlaced PROVE DeviceTypeOK
<1>1. /\ step \in AppSteps \cup OtherSteps \cup {"over", "hung"}
      /\ answer.asked \in 0 .. 4
      /\ answer.seen \subseteq {StatusQueries[k] : k \in 1 .. answer.asked}
      /\ changes \in 0 .. MaxChanges
  BY DEF CommandPlaced, Asking
<1>2. Running => Len(answers) < Len(script)
  BY DEF Running, DeviceInv, ScriptInv
<1>3. step \in Bounded \ {"discover"} => answer.serial \in DOMAIN world.adb
  <2>1. step \in Bounded \ {"discover"} => step \in AppSteps /\ Running
    BY DEF Bounded, AppSteps, Running
  <2>2. QED
    BY <2>1 DEF CommandPlaced, Placed
<1>4. \A s \in DOMAIN world.adb : world.adb[s].setup \in 0 .. 4
  <2>1. \A s \in DOMAIN world.adb : world.adb[s] \in Devices
    BY DEF DeviceInv, WorldOK
  <2>2. QED
    BY <2>1 DEF Devices
<1>5. Len(StatusQueries) = 4
  BY DEF StatusQueries
<1>6. step \in Bounded \cup {"start", "lookup", "diagnose", "execute", "install", "enable",
                            "set", "query", "settings", "over", "hung"}
  BY <1>1 DEF Bounded, AppSteps, OtherSteps
<1>7. QED
  BY <1>1, <1>2, <1>3, <1>4, <1>5, <1>6 DEF DeviceTypeOK

LEMMA BlankAsksNothing == Asking(Blank)
BY DEF Asking, Blank

LEMMA BeginsPlaced ==
  ASSUME NEW r \in Requests, NEW devices, AsksDevice(r) => r.serial \in devices
  PROVE  Placed(r, FirstStep(r), FirstAnswer(r), devices)
<1>1. PICK a : a = FirstAnswer(r)
  OBVIOUS
<1>2. a.asked = 0 /\ a.seen = {}
  BY <1>1 DEF FirstAnswer, Blank
<1>3. a.serial = IF r.backend = "native" /\ r.command # "preflight-runtime"
                   THEN NativeSerial ELSE r.serial
  BY <1>1 DEF FirstAnswer, Blank
<1>4. Asking(a)
  BY <1>2 DEF Asking
<1>5. /\ r.command \in {"discover-runtime", "preflight-runtime", "inspect-package",
                        "launch-package", "launch-activity", "provision-ime", "adb-ime-status"}
      /\ r.backend \in {"attached-adb", "waydroid", "native"}
  BY DEF Requests
<1>6. /\ FirstStep(r) \in AppSteps \cup OtherSteps
      /\ FirstStep(r) \in AppSteps => AsksDevice(r) /\ r.backend # "native"
      /\ FirstStep(r) = "discover" => r.command \in {"discover-runtime", "preflight-runtime"}
  BY <1>5 DEF FirstStep, AppSteps, OtherSteps, AsksDevice
<1>7. FirstStep(r) \in AppSteps => a.serial \in devices
  BY <1>3, <1>6
<1>8. FirstStep(r) = "discover" => r.command = "discover-runtime" \/ a.serial = r.serial
  BY <1>3, <1>6
<1>9. QED
  BY <1>1, <1>4, <1>6, <1>7, <1>8 DEF Placed

(* A command goes on to another step with what it has asked, or ends.               *)
Proceeds(devices) ==
  \/ \E next, a : Go(next, a) /\ next \notin {"over", "hung"} /\ Placed(Request, next, a, devices)
  \/ \E a : Finish(a)

LEMMA ProceedingPlaces ==
  ASSUME DeviceInv', Proceeds(DOMAIN world.adb), UNCHANGED <<script, changes>>,
         DOMAIN world'.adb = DOMAIN world.adb, CommandPlaced
  PROVE  CommandPlaced'
<1>1. changes' \in 0 .. MaxChanges
  BY DEF CommandPlaced
<1>2. CASE \E next, a : /\ Go(next, a) /\ next \notin {"over", "hung"}
                        /\ Placed(Request, next, a, DOMAIN world.adb)
  <2>1. PICK next, a : /\ Go(next, a) /\ next \notin {"over", "hung"}
                       /\ Placed(Request, next, a, DOMAIN world.adb)
    BY <1>2
  <2>2. step' = next /\ answer' = a /\ Request' = Request
    BY <2>1 DEF Go, Request
  <2>3. Placed(Request', step', answer', DOMAIN world'.adb)
    BY <2>1, <2>2
  <2>4. Placed(Request, step, answer, DOMAIN world.adb)'
    BY <2>3 DEF Placed, Asking
  <2>5. step' \in AppSteps \cup OtherSteps /\ Asking(answer')
    BY <2>3 DEF Placed
  <2>6. Asking(answer)'
    BY <2>5 DEF Asking
  <2>7. QED
    BY <1>1, <2>4, <2>5, <2>6 DEF CommandPlaced
<1>3. CASE \E a : Finish(a)
  <2>1. PICK a : Finish(a)
    BY <1>3
  <2>2. CASE Len(answers') < Len(script)
    <3>1. step' = FirstStep(Request') /\ answer' = FirstAnswer(Request')
      BY <2>1, <2>2 DEF Finish, Request
    <3>2. /\ script' \in Seq(Requests) /\ Len(answers') \in Nat /\ Len(answers') < Len(script')
          /\ \A k \in DOMAIN script' :
               AsksDevice(script'[k]) => script'[k].serial \in DOMAIN world'.adb
      BY <2>2 DEF DeviceInv, ScriptInv, WorldOK, AsksDevice
    <3>3. Len(answers') + 1 \in DOMAIN script' /\ Request' = script'[Len(answers') + 1]
      BY <3>2 DEF Request
    <3>4. Request' \in Requests
      BY <3>2, <3>3
    <3>5. AsksDevice(Request') => Request'.serial \in DOMAIN world'.adb
      BY <3>2, <3>3
    <3>6. Placed(Request', step', answer', DOMAIN world'.adb)
      BY <3>1, <3>4, <3>5, BeginsPlaced
    <3>7. Placed(Request, step, answer, DOMAIN world.adb)'
      BY <3>6 DEF Placed, Asking
    <3>8. step' \in AppSteps \cup OtherSteps /\ Asking(answer')
      BY <3>6 DEF Placed
    <3>9. Asking(answer)'
      BY <3>8 DEF Asking
    <3>10. QED
      BY <1>1, <3>7, <3>8, <3>9 DEF CommandPlaced
  <2>3. CASE ~(Len(answers') < Len(script))
    <3>1. step' = "over" /\ answer' = Blank
      BY <2>1, <2>3 DEF Finish
    <3>2. Asking(answer)'
      BY <3>1, BlankAsksNothing DEF Asking
    <3>3. QED
      BY <1>1, <3>1, <3>2 DEF CommandPlaced, Running
  <2>4. QED
    BY <2>2, <2>3
<1>4. QED
  BY <1>2, <1>3 DEF Proceeds

LEMMA GoProceeds ==
  ASSUME NEW devices, NEW next, NEW a, Go(next, a), next \in AppSteps \cup OtherSteps,
         next # "discover", Asking(a), next \in AppSteps => a.serial \in devices
  PROVE  Proceeds(devices)
<1>1. next \notin {"over", "hung"}
  BY DEF AppSteps, OtherSteps
<1>2. Placed(Request, next, a, devices)
  BY DEF Placed
<1>3. QED
  BY <1>1, <1>2 DEF Proceeds

LEMMA FinishProceeds == ASSUME NEW devices, NEW a, Finish(a) PROVE Proceeds(devices)
BY DEF Proceeds

(* What was asked stays asked whatever else goes into the report.                   *)
LEMMA StillAsking ==
  ASSUME Asking(answer), NEW a, a.asked = answer.asked, a.seen = answer.seen
  PROVE  Asking(a)
BY DEF Asking

LEMMA DiscoveredProceeds ==
  ASSUME DeviceInv, CommandPlaced, step = "discover", NEW available, NEW targets,
         OnAdb => DOMAIN targets \subseteq DOMAIN world.adb,
         Discovered(available, targets)
  PROVE  Proceeds(DOMAIN world.adb)
<1>1. /\ Asking(answer) /\ IsAnswer(answer)
      /\ Request.command = "discover-runtime" \/ answer.serial = Request.serial
  BY DEF CommandPlaced, Running, Placed, DeviceInv, ScriptInv, SoFar
<1>2. CASE \/ Request.command = "discover-runtime"
           \/ SelectionNote(available, targets) # "none"
  <2>1. \E a : Finish(a)
    BY <1>2 DEF Discovered
  <2>2. QED
    BY <2>1, FinishProceeds
<1>3. CASE /\ Request.command # "discover-runtime"
           /\ SelectionNote(available, targets) = "none"
  <2>1. PICK b : b = Selected(targets)
    OBVIOUS
  <2>2. Chosen(b)
    BY <1>3, <2>1 DEF Discovered
  <2>3. /\ b.asked = answer.asked /\ b.seen = answer.seen
        /\ b.serial = IF Request.serial # "none" THEN answer.serial
                      ELSE CHOOSE s \in Online(targets) : TRUE
    BY <1>1, <2>1 DEF Selected, IsAnswer, AnswerFields
  <2>4. Asking(b)
    BY <1>1, <2>3, StillAsking
  <2>5. b.serial \in DOMAIN targets
    <3>1. CASE Request.serial # "none"
      <4>1. b.serial = Request.serial
        BY <1>1, <1>3, <2>3, <3>1
      <4>2. Request.serial \in DOMAIN targets
        BY <1>3, <3>1 DEF SelectionNote
      <4>3. QED
        BY <4>1, <4>2
    <3>2. CASE Request.serial = "none"
      <4>1. Online(targets) # {}
        BY <1>3, <3>2 DEF SelectionNote
      <4>2. b.serial \in Online(targets)
        BY <2>3, <3>2, <4>1
      <4>3. QED
        BY <4>2 DEF Online
    <3>3. QED
      BY <3>1, <3>2
  <2>6. CASE Request.package /\ OnAdb
    <3>1. Go("visible", b) /\ b.serial \in DOMAIN world.adb
      BY <2>2, <2>5, <2>6 DEF Chosen
    <3>2. QED
      BY <2>4, <3>1, GoProceeds DEF AppSteps
  <2>7. CASE ~(Request.package /\ OnAdb) /\ Request.package /\ OnNative
    <3>1. Go("lookup", b)
      BY <2>2, <2>7 DEF Chosen
    <3>2. QED
      BY <2>4, <3>1, GoProceeds DEF AppSteps, OtherSteps
  <2>8. CASE ~(Request.package /\ OnAdb) /\ ~(Request.package /\ OnNative)
    <3>1. \E a : Finish(a)
      BY <2>2, <2>8 DEF Chosen
    <3>2. QED
      BY <3>1, FinishProceeds
  <2>9. QED
    BY <2>6, <2>7, <2>8
<1>4. QED
  BY <1>2, <1>3

LEMMA DiscoveryProceeds ==
  ASSUME DeviceInv, CommandPlaced, DiscoverAdb \/ DiscoverWaydroid \/ DiscoverNative
  PROVE  Proceeds(DOMAIN world.adb)
<1>1. CASE DiscoverAdb
  <2>1. PICK exit \in {0, 1, Timeout} :
          Discovered(exit = 0,
            IF exit # 0 THEN << >>
            ELSE [s \in Listed |-> IF Reachable(s) THEN "online" ELSE "offline"])
    BY <1>1 DEF DiscoverAdb
  <2>2. PICK targets : targets = IF exit # 0 THEN << >>
            ELSE [s \in Listed |-> IF Reachable(s) THEN "online" ELSE "offline"]
    OBVIOUS
  <2>3. DOMAIN targets \subseteq DOMAIN world.adb
    <3>1. CASE exit # 0
      <4>1. targets = << >>
        BY <2>2, <3>1
      <4>2. DOMAIN targets = {}
        BY <4>1
      <4>3. QED
        BY <4>2
    <3>2. CASE exit = 0
      <4>1. DOMAIN targets = Listed
        BY <2>2, <3>2
      <4>2. QED
        BY <4>1 DEF Listed
    <3>3. QED
      BY <3>1, <3>2
  <2>4. step = "discover"
    BY <1>1 DEF DiscoverAdb
  <2>5. Discovered(exit = 0, targets)
    BY <2>1, <2>2
  <2>6. QED
    BY <2>3, <2>4, <2>5, DiscoveredProceeds
<1>2. CASE DiscoverWaydroid \/ DiscoverNative
  <2>1. step = "discover" /\ ~OnAdb /\ \E available, targets : Discovered(available, targets)
    BY <1>2 DEF DiscoverWaydroid, DiscoverNative, OnAdb, OnNative
  <2>2. QED
    BY <2>1, DiscoveredProceeds
<1>3. QED
  BY <1>1, <1>2

LEMMA AppQuestionsProceed ==
  ASSUME DeviceInv, CommandPlaced, CheckVisible \/ ResolveLauncher \/ InspectFurther
  PROVE  Proceeds(DOMAIN world.adb)
<1>1. step \in AppSteps /\ Running
  BY DEF CheckVisible, ResolveLauncher, InspectFurther, AppSteps, Running
<1>2. /\ Asking(answer) /\ IsAnswer(answer) /\ answer.serial \in DOMAIN world.adb
  BY <1>1 DEF CommandPlaced, Placed, Running, DeviceInv, ScriptInv, SoFar
<1>3. \/ \E a : Finish(a)
      \/ \E next, a : /\ Go(next, a) /\ next \in AppSteps \cup {"start"}
                      /\ a.asked = answer.asked /\ a.seen = answer.seen
                      /\ a.serial = answer.serial
  <2>1. CASE CheckVisible
    <3>1. PICK visible, checked :
            /\ checked.asked = answer.asked /\ checked.seen = answer.seen
            /\ checked.serial = answer.serial
            /\ IF Is({"inspect-package"})
                 THEN IF visible THEN Go("launcher", checked) ELSE Finish(checked)
               ELSE IF visible /\ Request.component = "none" THEN Go("launcher", checked)
               ELSE Finish(Verdict([checked EXCEPT !.component_ready = visible]))
      <4>1. PICK exit, visible, notes, checked :
              /\ checked = [answer EXCEPT !.visible = visible, !.notes = notes]
              /\ IF Is({"inspect-package"})
                   THEN IF visible THEN Go("launcher", checked) ELSE Finish(checked)
                 ELSE IF visible /\ Request.component = "none" THEN Go("launcher", checked)
                 ELSE Finish(Verdict([checked EXCEPT !.component_ready = visible]))
        BY <2>1 DEF CheckVisible
      <4>2. /\ checked.asked = answer.asked /\ checked.seen = answer.seen
            /\ checked.serial = answer.serial
        BY <1>2, <4>1 DEF IsAnswer, AnswerFields
      <4>3. QED
        BY <4>1, <4>2
    <3>2. Go("launcher", checked) \/ \E a : Finish(a)
      BY <3>1
    <3>3. QED
      BY <3>1, <3>2 DEF AppSteps
  <2>2. CASE ResolveLauncher
    <3>1. PICK found, resolved :
            /\ resolved.asked = answer.asked /\ resolved.seen = answer.seen
            /\ resolved.serial = answer.serial
            /\ IF Is({"preflight-runtime"}) THEN Finish(Verdict(resolved))
               ELSE IF Is({"inspect-package"}) THEN Go("path", resolved)
               ELSE IF found = "none" THEN Finish(resolved)
               ELSE Go("start", resolved)
      <4>1. PICK exit, found, ready, notes, resolved :
              /\ resolved = [answer EXCEPT !.component = found, !.component_ready = ready,
                                           !.notes = notes]
              /\ IF Is({"preflight-runtime"}) THEN Finish(Verdict(resolved))
                 ELSE IF Is({"inspect-package"}) THEN Go("path", resolved)
                 ELSE IF found = "none" THEN Finish(resolved)
                 ELSE Go("start", resolved)
        BY <2>2 DEF ResolveLauncher
      <4>2. /\ resolved.asked = answer.asked /\ resolved.seen = answer.seen
            /\ resolved.serial = answer.serial
        BY <1>2, <4>1 DEF IsAnswer, AnswerFields
      <4>3. QED
        BY <4>1, <4>2
    <3>2. Go("path", resolved) \/ Go("start", resolved) \/ \E a : Finish(a)
      BY <3>1
    <3>3. QED
      BY <3>1, <3>2 DEF AppSteps
  <2>3. CASE InspectFurther
    <3>1. Go("dump", answer) \/ \E a : Finish(a)
      BY <2>3 DEF InspectFurther
    <3>2. QED
      BY <3>1 DEF AppSteps
  <2>4. QED
    BY <2>1, <2>2, <2>3
<1>4. CASE \E a : Finish(a)
  BY <1>4, FinishProceeds
<1>5. CASE \E next, a : /\ Go(next, a) /\ next \in AppSteps \cup {"start"}
                        /\ a.asked = answer.asked /\ a.seen = answer.seen
                        /\ a.serial = answer.serial
  <2>1. PICK next, a : /\ Go(next, a) /\ next \in AppSteps \cup {"start"}
                       /\ a.asked = answer.asked /\ a.seen = answer.seen
                       /\ a.serial = answer.serial
    BY <1>5
  <2>2. Asking(a) /\ a.serial \in DOMAIN world.adb
    BY <1>2, <2>1, StillAsking
  <2>3. next \in AppSteps \cup OtherSteps /\ next # "discover"
    BY <2>1 DEF AppSteps, OtherSteps
  <2>4. QED
    BY <2>1, <2>2, <2>3, GoProceeds
<1>6. QED
  BY <1>3, <1>4, <1>5

LEMMA EndingsProceed ==
  ASSUME StartActivity \/ StartWaydroidApp \/ Diagnose \/ Execute \/ RejectApk \/ OpenSettings,
         NEW devices
  PROVE  Proceeds(devices)
<1>1. \E a : Finish(a)
  BY DEF StartActivity, StartWaydroidApp, Diagnose, Execute, RejectApk, OpenSettings
<1>2. QED
  BY <1>1, FinishProceeds

LEMMA LookUpProceeds ==
  ASSUME DeviceInv, CommandPlaced, LookUpStaged, NEW devices
  PROVE  Proceeds(devices)
<1>1. step = "lookup" /\ Asking(answer) /\ IsAnswer(answer)
  BY DEF LookUpStaged, CommandPlaced, DeviceInv, ScriptInv, SoFar
<1> DEFINE component == IF Request.component = "none" /\ Found THEN Staged.launcher
                        ELSE Request.component
           ready == Found /\ component # "none" /\ Request.component # "foreign"
           notes == IF ~Found THEN "not_staged"
                    ELSE IF Request.component = "foreign" THEN "component_elsewhere"
                    ELSE IF component = "none" THEN "no_launcher" ELSE answer.notes
           looked == [answer EXCEPT !.visible = Found, !.component = component,
                                    !.component_ready = ready, !.notes = notes]
<1>2. IF Is({"inspect-package"}) THEN Finish(looked)
      ELSE IF Is({"preflight-runtime"})
        THEN IF looked.component_ready THEN Go("diagnose", looked) ELSE Finish(Verdict(looked))
      ELSE IF Found /\ component # "none" THEN Go("execute", looked) ELSE Finish(looked)
  BY DEF LookUpStaged
<1> HIDE DEF component, ready, notes
<1>3. looked.asked = answer.asked /\ looked.seen = answer.seen
  BY <1>1 DEF IsAnswer, AnswerFields
<1> HIDE DEF looked
<1>4. Asking(looked)
  BY <1>1, <1>3, StillAsking
<1>5. Go("diagnose", looked) \/ Go("execute", looked) \/ \E a : Finish(a)
  BY <1>2
<1>6. CASE Go("diagnose", looked)
  BY <1>4, <1>6, GoProceeds DEF AppSteps, OtherSteps
<1>7. CASE Go("execute", looked)
  BY <1>4, <1>7, GoProceeds DEF AppSteps, OtherSteps
<1>8. CASE \E a : Finish(a)
  BY <1>8, FinishProceeds
<1>9. QED
  BY <1>5, <1>6, <1>7, <1>8

LEMMA SettingUpProceeds ==
  ASSUME DeviceInv, CommandPlaced, InstallApk \/ EnableIme \/ SetIme, NEW devices
  PROVE  Proceeds(devices)
<1>1. step \notin {"over", "hung"} /\ Asking(answer)
  BY DEF InstallApk, EnableIme, SetIme, CommandPlaced
<1>2. IsAnswer(answer)
  BY <1>1 DEF DeviceInv, ScriptInv, SoFar
<1>3. \E next, a : /\ Go(next, a) /\ next \in {"enable", "set", "query"}
                   /\ a.asked = answer.asked /\ a.seen = answer.seen
  <2>1. CASE InstallApk
    <3>1. PICK ok : Go("enable", [answer EXCEPT !.install_ok = ok])
      BY <2>1 DEF InstallApk
    <3>2. PICK a : a = [answer EXCEPT !.install_ok = ok]
      OBVIOUS
    <3>3. a.asked = answer.asked /\ a.seen = answer.seen
      BY <1>2, <3>2 DEF IsAnswer, AnswerFields
    <3>4. QED
      BY <3>1, <3>2, <3>3
  <2>2. CASE EnableIme
    <3>1. PICK ok : Go("set", [answer EXCEPT !.enable_ok = ok])
      BY <2>2 DEF EnableIme
    <3>2. PICK a : a = [answer EXCEPT !.enable_ok = ok]
      OBVIOUS
    <3>3. a.asked = answer.asked /\ a.seen = answer.seen
      BY <1>2, <3>2 DEF IsAnswer, AnswerFields
    <3>4. QED
      BY <3>1, <3>2, <3>3
  <2>3. CASE SetIme
    <3>1. PICK ok : Go("query", [answer EXCEPT !.set_ok = ok])
      BY <2>3 DEF SetIme
    <3>2. PICK a : a = [answer EXCEPT !.set_ok = ok]
      OBVIOUS
    <3>3. a.asked = answer.asked /\ a.seen = answer.seen
      BY <1>2, <3>2 DEF IsAnswer, AnswerFields
    <3>4. QED
      BY <3>1, <3>2, <3>3
  <2>4. QED
    BY <2>1, <2>2, <2>3
<1>4. PICK next, a : /\ Go(next, a) /\ next \in {"enable", "set", "query"}
                     /\ a.asked = answer.asked /\ a.seen = answer.seen
  BY <1>3
<1>5. Asking(a)
  BY <1>1, <1>4, StillAsking
<1>6. next \in AppSteps \cup OtherSteps /\ next # "discover" /\ next \notin AppSteps
  BY <1>4 DEF AppSteps, OtherSteps
<1>7. QED
  BY <1>4, <1>5, <1>6, GoProceeds

LEMMA QueryProceeds ==
  ASSUME DeviceInv, CommandPlaced, QueryStatus, NEW devices
  PROVE  Proceeds(devices)
<1>1. step = "query"
  BY DEF QueryStatus
<1>2. /\ Asking(answer) /\ IsAnswer(answer) /\ answer.asked \in 0 .. 3
  BY <1>1 DEF CommandPlaced, DeviceInv, ScriptInv, SoFar, ImeSoFar
<1> DEFINE fact == StatusQueries[answer.asked + 1]
           usable == Setup = 4
           seen == IF Setup >= StageOf[fact] THEN answer.seen \cup {fact} ELSE answer.seen
           asked == [answer EXCEPT !.asked = @ + 1, !.usable = usable, !.seen = seen]
           failed == [answer EXCEPT !.notes = "readback_error"]
           read == [asked EXCEPT !.readback_ok = TRUE]
<1>3. /\ seen \subseteq answer.seen \cup {fact}
      /\ \/ Finish(Provisioned(failed))
         \/ Go("query", asked)
         \/ Go("settings", asked)
         \/ Finish(Provisioned(read))
  BY DEF QueryStatus
<1> HIDE DEF seen, usable, failed, read
<1>4. asked.asked = answer.asked + 1 /\ asked.seen = seen
  BY <1>2 DEF IsAnswer, AnswerFields
<1> HIDE DEF asked
<1>5. Asking(asked)
  <2>1. asked.asked \in 0 .. 4
    BY <1>2, <1>4
  <2>2. asked.seen \subseteq answer.seen \cup {fact}
    BY <1>3, <1>4
  <2>3. answer.seen \subseteq {StatusQueries[k] : k \in 1 .. answer.asked}
    BY <1>2 DEF Asking
  <2>4. \A k \in 1 .. answer.asked : k \in 1 .. asked.asked
    BY <1>2, <1>4
  <2>5. answer.asked + 1 \in 1 .. asked.asked
    BY <1>2, <1>4
  <2>6. fact \in {StatusQueries[k] : k \in 1 .. asked.asked}
    BY <2>5
  <2>7. asked.seen \subseteq {StatusQueries[k] : k \in 1 .. asked.asked}
    BY <2>2, <2>3, <2>4, <2>6
  <2>8. QED
    BY <2>1, <2>7 DEF Asking
<1>6. CASE \E a : Finish(a)
  BY <1>6, FinishProceeds
<1>7. CASE Go("query", asked) \/ Go("settings", asked)
  BY <1>5, <1>7, GoProceeds DEF AppSteps, OtherSteps
<1>8. QED
  BY <1>3, <1>6, <1>7

(* The devices stay the ones there are, be they absent.                             *)
LEMMA DevicesStay ==
  ASSUME WorldOK, NEW s, NEW d, world' = [world EXCEPT !.adb[s] = d]
  PROVE  DOMAIN world'.adb = DOMAIN world.adb
<1>1. PICK adb : adb = [world.adb EXCEPT ![s] = d]
  OBVIOUS
<1>2. world' = [adb |-> adb, waydroid |-> world.waydroid, staged |-> world.staged]
  BY <1>1 DEF WorldOK
<1>3. DOMAIN adb = DOMAIN world.adb
  BY <1>1
<1>4. QED
  BY <1>2, <1>3

LEMMA InitPlaces == DeviceInit => CommandPlaced
<1>1. SUFFICES ASSUME DeviceInit PROVE CommandPlaced
  OBVIOUS
<1>2. DeviceInv
  BY <1>1, InitDeviceInv
<1>3. script \in Seq(Requests) /\ Len(script) > 0 /\ script[1] \in Requests /\ 1 \in DOMAIN script
  BY <1>1, DeviceAssumption DEF DeviceInit
<1>4. Request = script[1] /\ step = FirstStep(Request) /\ answer = FirstAnswer(Request)
      /\ changes \in 0 .. MaxChanges
  BY <1>1, DeviceAssumption DEF DeviceInit, Request
<1>5. AsksDevice(Request) => Request.serial \in DOMAIN world.adb
  BY <1>2, <1>3, <1>4 DEF DeviceInv, WorldOK
<1>6. Placed(Request, step, answer, DOMAIN world.adb)
  BY <1>3, <1>4, <1>5, BeginsPlaced
<1>7. QED
  BY <1>4, <1>6 DEF CommandPlaced, Placed

LEMMA DeviceTypesKept ==
  ASSUME DeviceInv, CommandPlaced, [DeviceNext]_deviceVars
  PROVE  CommandPlaced'
<1>1. DeviceInv' /\ WorldOK
  BY NextDeviceInv DEF DeviceInv
<1>2. CASE CommandStep
  <2>1. Proceeds(DOMAIN world.adb)
    BY <1>2, DiscoveryProceeds, AppQuestionsProceed, EndingsProceed, LookUpProceeds,
       SettingUpProceeds, QueryProceeds DEF CommandStep
  <2>2. UNCHANGED <<script, changes>> /\ DOMAIN world'.adb = DOMAIN world.adb
    <3>1. CASE InstallApk \/ EnableIme \/ SetIme
      <4>1. \E stage, needed, exit, setup : Advances(stage, needed, exit, setup)
        BY <3>1 DEF InstallApk, EnableIme, SetIme
      <4>2. PICK setup : /\ world' = [world EXCEPT !.adb[Request.serial].setup = setup]
                         /\ UNCHANGED <<script, changes>>
        BY <4>1 DEF Advances
      <4>3. PICK d : d = [world.adb[Request.serial] EXCEPT !.setup = setup]
        OBVIOUS
      <4>4. world' = [world EXCEPT !.adb[Request.serial] = d]
        BY <4>2, <4>3
      <4>5. QED
        BY <1>1, <4>2, <4>4, DevicesStay
    <3>2. CASE ~(InstallApk \/ EnableIme \/ SetIme)
      <4>1. Alone
        BY <1>2, <3>2 DEF CommandStep, DiscoverAdb, DiscoverWaydroid, DiscoverNative,
           CheckVisible, ResolveLauncher, InspectFurther, StartActivity, StartWaydroidApp,
           LookUpStaged, Diagnose, Execute, RejectApk, QueryStatus, OpenSettings
      <4>2. QED
        BY <4>1 DEF Alone
    <3>3. QED
      BY <3>1, <3>2
  <2>3. QED
    BY <1>1, <2>1, <2>2, ProceedingPlaces
<1>3. CASE Hang
  <2>1. step' = "hung" /\ UNCHANGED <<changes, answer>>
    BY <1>3 DEF Hang
  <2>2. QED
    BY <2>1 DEF CommandPlaced, Running, Asking
<1>4. CASE WorldChanges
  <2>1. UNCHANGED <<script, answers, step, answer>> /\ changes' = changes + 1
        /\ changes < MaxChanges
    BY <1>4 DEF WorldChanges
  <2>2. DOMAIN world'.adb = DOMAIN world.adb
    <3>1. CASE \E s \in DOMAIN world.adb, d \in DeviceStates :
                 world' = [world EXCEPT !.adb[s] = d]
      BY <1>1, <3>1, DevicesStay
    <3>2. CASE \E s \in StagedStates : world' = [world EXCEPT !.staged = s]
      BY <1>1, <3>2 DEF WorldOK
    <3>3. QED
      BY <1>4, <3>1, <3>2 DEF WorldChanges
  <2>3. Request' = Request
    BY <2>1 DEF Request
  <2>4. changes' \in 0 .. MaxChanges
    BY <2>1, DeviceAssumption DEF CommandPlaced
  <2>5. QED
    BY <2>1, <2>2, <2>3, <2>4 DEF CommandPlaced, Running, Placed, Asking
<1>5. CASE ScriptOver \/ UNCHANGED deviceVars
  <2>1. UNCHANGED <<script, world, changes, answers, step, answer>>
    BY <1>5 DEF ScriptOver, deviceVars
  <2>2. Request' = Request
    BY <2>1 DEF Request
  <2>3. QED
    BY <2>1, <2>2 DEF CommandPlaced, Running, Placed, Asking
<1>6. QED
  BY <1>2, <1>3, <1>4, <1>5 DEF DeviceNext

(* Whatever devices are plugged in and out, a question about an app is put to a       *)
(* device that was chosen, and a report names no fact it has not asked for           *)
(* (PreflightRuntimeWithRunner, TryQueryAdbImeStatusWithRunner).                    *)
THEOREM QuestionsAreAddressed == DeviceSpec => []DeviceTypeOK
<1>1. DeviceInit => CommandPlaced
  BY InitPlaces
<1>2. DeviceInv /\ CommandPlaced /\ [DeviceNext]_deviceVars => CommandPlaced'
  BY DeviceTypesKept
<1>3. DeviceInv /\ CommandPlaced => DeviceTypeOK
  BY CommandTyped
<1>4. QED
  BY <1>1, <1>2, <1>3, ReportsAreRight, PTL DEF DeviceSpec
================================================================================
