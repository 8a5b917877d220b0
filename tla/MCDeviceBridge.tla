------------------------------ MODULE MCDeviceBridge ------------------------------
(* Scripts of one or two commands about one app, on two devices.                   *)
EXTENDS DeviceBridge

Device(link, setup, launcher) == [link |-> link, setup |-> setup, launcher |-> launcher]
MCDeviceStates ==
  {Device("device", setup, "launcher") : setup \in 0 .. 4}
    \cup {Device("device", 1, "none"), Device("offline", 4, "launcher"),
          Device("absent", 0, "launcher")}

MCAppClasses == {"Activity"}
CapableHost ==
  [dex |-> TRUE, targets |-> MCAppClasses, defined |-> MCAppClasses, launcher |-> TRUE,
   application |-> FALSE, override |-> "unset", host_probe_disabled |-> FALSE,
   dalvikvm |-> TRUE, app_process |-> FALSE, probe |-> "exit_zero", binder |-> TRUE]
Hosts == {CapableHost,
          [CapableHost EXCEPT !.dalvikvm = FALSE],
          [CapableHost EXCEPT !.dalvikvm = FALSE, !.app_process = TRUE],
          [CapableHost EXCEPT !.override = "executable"],
          [CapableHost EXCEPT !.probe = "failed"],
          [CapableHost EXCEPT !.binder = FALSE]}
InCompatRoot(installed, launcher, facts) ==
  [installed |-> installed, launcher |-> launcher, facts |-> facts]
MCStagedStates ==
  {InCompatRoot("install", launcher, CapableHost) : launcher \in {"launcher", "none"}}
    \cup {InCompatRoot("install", "launcher", f) : f \in Hosts}
    \cup {InCompatRoot(state, "none", CapableHost) : state \in {"absent", "empty"}}

World(first, second, waydroid, staged) ==
  [adb |-> [s \in {"phone", "tablet"} |-> IF s = "phone" THEN first ELSE second],
   waydroid |-> waydroid, staged |-> staged]
Nothing == InCompatRoot("absent", "none", CapableHost)
Gone    == Device("absent", 0, "launcher")
MCWorlds ==
  {World(first, second, "missing", Nothing) :
     first \in MCDeviceStates, second \in {Gone, Device("device", 4, "launcher")}}
    \cup {World(Gone, Gone, waydroid, Nothing) : waydroid \in {"running", "stopped"}}
    \cup {World(Gone, Gone, "missing", staged) : staged \in MCStagedStates}

Ask(command, backend, serial, component) ==
  [command |-> command, backend |-> backend, serial |-> serial, package |-> TRUE,
   component |-> component, settings |-> FALSE, matches |-> TRUE,
   override_allowed |-> FALSE]
Ime(command, settings, matches) ==
  [Ask(command, "attached-adb", "phone", "none") EXCEPT !.settings = settings, !.matches = matches]

Components == {"none", "other", "foreign"}
AdbScripts ==
  {<<Ask("preflight-runtime", "attached-adb", serial, c),
     Ask("launch-package", "attached-adb", "phone", c)>> :
     serial \in {"none", "phone"}, c \in Components}
    \cup {<<Ask(command, "attached-adb", "phone", "none")>> :
            command \in {"discover-runtime", "inspect-package"}}
    \cup {<<Ask("launch-activity", "attached-adb", "phone", "other")>>,
          <<Ask("preflight-runtime", "attached-adb", "watch", "none")>>,
          <<[Ask("preflight-runtime", "attached-adb", "none", "none") EXCEPT !.package = FALSE]>>}
ImeScripts ==
  {<<Ime("provision-ime", settings, matches)>> : settings, matches \in BOOLEAN}
    \cup {<<Ime("adb-ime-status", settings, TRUE)>> : settings \in BOOLEAN}
WaydroidScripts ==
  {<<Ask("preflight-runtime", "waydroid", serial, "none"), Ask("launch-package", "waydroid", "none", "none")>> :
     serial \in {"none", "waydroid"}}
NativeScripts ==
  {<<[Ask("preflight-runtime", "native", serial, c) EXCEPT !.override_allowed = allowed],
     [Ask("launch-package", "native", "none", c) EXCEPT !.override_allowed = allowed]>> :
     serial \in {"none", "linuxoid-native"}, c \in Components, allowed \in BOOLEAN}
    \cup {<<Ask("inspect-package", "native", serial, "none")>> : serial \in {"none", "phone"}}

MCScripts == AdbScripts \cup ImeScripts \cup WaydroidScripts \cup NativeScripts
================================================================================
