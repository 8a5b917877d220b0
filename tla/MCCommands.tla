-------------------------------- MODULE MCCommands --------------------------------
(* The instances of the four components side by side.                             *)
EXTENDS Commands, MCDexProbe, MCDeviceBridge

(* Lengths for the Binder fixture, in tens of bytes: an ordinary app, one under a    *)
(* long path, one whose identity is given, one without a launcher.                 *)
App(package, launcher, path, session, owner) ==
  [package |-> package, launcher |-> launcher, apk |-> path, session |-> session,
   owner |-> owner, root |-> TRUE]
MCSpecs == {App(2, 3, 6, 0, 0), App(2, 3, 40, 0, 0), App(2, 3, 6, 7, 9), App(2, 0, 6, 0, 0),
            [App(2, 3, 6, 0, 0) EXCEPT !.root = FALSE]}
MCRooms == {30, 39, 40, 90}

Screen(width, height) == [width |-> width, height |-> height, bound |-> TRUE]
MCScreens == {Screen(4, 3), Screen(1, 1), Screen(0, 3), Screen(4, 0),
              [Screen(4, 3) EXCEPT !.bound = FALSE]}
Event(action, x, y, key, id) == [action |-> action, x |-> x, y |-> y, key |-> key, id |-> id]
MCInputEvents ==
  {Event("touch", x, y, 0, id) : x \in {-1, 0, 4}, y \in {2, 3}, id \in {0, 2}}
    \cup {Event("touch", 0, 0, 7, 0), Event("key", 0, 0, 0, 0), Event("key", -1, 9, 7, 0),
          Event("unknown", 0, 0, 0, 0)}
================================================================================
