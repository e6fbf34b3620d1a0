------------------------------ MODULE HotkeyTap ------------------------------
(***************************************************************************)
(* The hold-to-talk key: the event tap and its thread                      *)
(* (flow-core/src/hotkey.rs), the driver that arms it when permission      *)
(* comes late (coordinator.rs) and the setting that changes the key        *)
(* (set_config in commands.rs).                                            *)
(*                                                                         *)
(* Left and right modifier keys share a flag.  A key is pressed by hand,   *)
(* or by an event that a program posts, which the key-state table does not *)
(* show; in one behaviour all presses are of one of the two.  macOS may    *)
(* disable the tap at any moment: events are lost until the tap's thread   *)
(* enables it again.                                                       *)
(***************************************************************************)
EXTENDS Naturals, SequencesExt

CONSTANTS
  Keys, Bit,     \* keycodes, and modifier_bit_for_keycode
  MaxPresses,    \* bound: presses of a key
  MaxDisables,   \* bound: times that macOS disables the tap
  MaxSettings,   \* bound: changes of the binding
  MaxFailures    \* bound: attempts to create the tap that fail

ASSUME HotkeyAssumption ==
  /\ DOMAIN Bit = Keys
  /\ MaxPresses \in Nat /\ MaxDisables \in Nat /\ MaxSettings \in Nat /\ MaxFailures \in Nat

VARIABLES
  source,        \* "hand" or "posted"
  pressed,       \* the keys that are down
  presses,
  access,        \* InputMonitoringAccess
  tap,           \* "none", "enabled" or "disabled"
  events,        \* delivered to the tap, not yet handled
  disables,
  latch,         \* hold_was_down and hold_validated
  latch_keycode,
  keycode,       \* the tap's binding, an atomic shared by its handle
  handle,        \* hotkey_keycode_handle is published
  active,        \* hotkey_monitor_active
  driver,        \* the re-arm driver: its stage, and the keycode it has read
  failures,
  config_key,    \* hotkey_keycode of the configuration in memory
  setting,       \* set_config under way: the new keycode, and whether the handle has it
  settings,
  reported,      \* the last edge sent to the coordinator
  dropped        \* history: a latch not confirmed, or of another binding, was dropped

world == <<source, pressed, presses, access>>
tapVars == <<tap, events, disables, latch, latch_keycode, reported, dropped>>
armVars == <<handle, active, driver, failures>>
settingVars == <<config_key, setting, settings>>
hotkeyVars == <<world, tapVars, keycode, armVars, settingVars>>

Up == [down |-> FALSE, validated |-> FALSE]
Held == [down |-> TRUE, validated |-> TRUE]
Edges == {"HoldKeyPressed", "HoldKeyReleased"}
NoSetting == [on |-> FALSE, key |-> config_key, applied |-> FALSE]

Flag(keys, k) == \E l \in keys : Bit[l] = Bit[k]
KeyIsDown(k) == source = "hand" /\ k \in pressed

(* spawn: the tap is installed at launch, or the driver is started.         *)
HotkeyInit ==
  /\ source \in {"hand", "posted"} /\ pressed = {} /\ presses = 0
  /\ access \in {"Granted", "Denied", "Unknown"}
  /\ config_key \in Keys /\ keycode = config_key /\ latch_keycode = config_key
  /\ \/ access = "Granted" /\ tap = "enabled" /\ driver = [stage |-> "off", key |-> config_key]
     \/ tap = "none" /\ driver = [stage |-> "poll", key |-> config_key]
  /\ active = (tap = "enabled") /\ handle = active
  /\ events = <<>> /\ disables = 0 /\ latch = Up /\ failures = 0
  /\ setting = NoSetting /\ settings = 0
  /\ reported = "HoldKeyReleased" /\ dropped = FALSE

-----------------------------------------------------------------------------
(* The keyboard and the user.                                               *)

FlagsChanged(k, down) == [kind |-> "FlagsChanged", key |-> k, down |-> down]
TapDisabled == [kind |-> "TapDisabled", key |-> keycode, down |-> FALSE]

Changed(k, keys) ==
  /\ pressed' = keys
  /\ events' = IF tap = "enabled" THEN Append(events, FlagsChanged(k, Flag(keys, k))) ELSE events
  /\ UNCHANGED <<source, access, tap, disables, latch, latch_keycode, reported, dropped,
                 keycode, armVars, settingVars>>

Press(k) == k \notin pressed /\ presses < MaxPresses /\ presses' = presses + 1
            /\ Changed(k, pressed \cup {k})
Release(k) == k \in pressed /\ UNCHANGED presses /\ Changed(k, pressed \ {k})

AccessChanges(to) ==
  /\ tap = "none" /\ access' = to
  /\ UNCHANGED <<source, pressed, presses, tapVars, keycode, armVars, settingVars>>

MacOSDisablesTap ==
  /\ tap = "enabled" /\ disables < MaxDisables
  /\ tap' = "disabled" /\ disables' = disables + 1
  /\ events' = Append(events, TapDisabled)
  /\ UNCHANGED <<world, latch, latch_keycode, reported, dropped, keycode, armVars, settingVars>>

-----------------------------------------------------------------------------
(* The tap's thread.                                                        *)

(* hold_edge: what a change of the latch says.                              *)
HoldEdge(was_down, down) ==
  IF down = was_down THEN "none" ELSE IF down THEN "HoldKeyPressed" ELSE "HoldKeyReleased"

Emit(edge, drops) ==
  /\ reported' = IF edge = "none" THEN reported ELSE edge
  /\ dropped' = (edge = "none" /\ (dropped \/ drops))

(* Mutant: re-arming always resets the latch.                               *)
ResyncToUp(l, down, cause) ==
  IF cause = "TapReenabled" THEN [latch |-> Up, edge |-> "none"] ELSE [latch |-> l, edge |-> "none"]

(* Mutant: any hold is ended on the table's word.                           *)
ResyncUnvalidated(l, down, cause) ==
  IF l.down = down THEN [latch |-> l, edge |-> "none"]
  ELSE [latch |-> IF down THEN Held ELSE Up, edge |-> HoldEdge(l.down, down)]

(* resync_hold_latch.                                                       *)
ResyncHoldLatch(l, down, cause) ==
  LET to(latched, edge) == [latch |-> latched, edge |-> edge]
      stay == to(l, "none")
  IN  IF l.down /\ down THEN to(Held, "none")
      ELSE IF l.down /\ l.validated THEN to(Up, "HoldKeyReleased")
      ELSE IF l.down THEN (IF cause = "TapReenabled" THEN to(Up, "none") ELSE stay)
      ELSE IF down THEN (IF cause = "TapReenabled" THEN to(Held, "HoldKeyPressed") ELSE stay)
      ELSE to(Up, "none")

Resync(cause) ==
  LET r == ResyncHoldLatch(latch, KeyIsDown(keycode), cause)
  IN  latch' = r.latch /\ Emit(r.edge, latch.down /\ ~latch.validated /\ ~r.latch.down)

tapFrame == <<world, keycode, disables, armVars, settingVars>>
Handling(kind) == events # <<>> /\ Head(events).kind = kind /\ events' = Tail(events)

HandleTapDisabled ==
  /\ Handling("TapDisabled")
  /\ tap' = "enabled"
  /\ Resync("TapReenabled")
  /\ UNCHANGED <<tapFrame, latch_keycode>>

(* A change of another key than the binding, its twin included.             *)
HandleOtherKey ==
  /\ Handling("FlagsChanged") /\ Head(events).key # keycode
  /\ UNCHANGED <<tapFrame, tap, latch, latch_keycode, reported, dropped>>

(* A press is validated when the key-state table confirms it, and remains   *)
(* so until it is released (HoldLatch).                                     *)
Latched(was, down) ==
  [down |-> down,
   validated |-> down /\ (IF was.down THEN was.validated ELSE KeyIsDown(keycode))]

(* A latch of another binding is dropped.                                   *)
HandleFlagsChanged ==
  /\ Handling("FlagsChanged") /\ Head(events).key = keycode
  /\ latch_keycode' = keycode
  /\ LET was == IF latch_keycode = keycode THEN latch ELSE Up
         down == Head(events).down
     IN  /\ latch' = Latched(was, down)
         /\ Emit(HoldEdge(was.down, down), latch_keycode # keycode)
  /\ UNCHANGED <<tapFrame, tap>>

(* Mutant: the tap is enabled and nothing else.                             *)
EnableOnly ==
  /\ tap # "none"
  /\ tap' = "enabled"
  /\ UNCHANGED <<tapFrame, events, latch, latch_keycode, reported, dropped>>

(* Every five seconds: the tap is enabled, a latched hold looked at.        *)
Watchdog ==
  /\ tap # "none"
  /\ tap' = "enabled"
  /\ IF latch_keycode = keycode /\ latch.down THEN Resync("Watchdog")
                                              ELSE UNCHANGED <<latch, reported, dropped>>
  /\ UNCHANGED <<tapFrame, events, latch_keycode>>

HandlesEvent == HandleTapDisabled \/ HandleOtherKey \/ HandleFlagsChanged

-----------------------------------------------------------------------------
(* spawn_hotkey_rearm_driver.                                               *)

DriverAt(stage) == driver.stage = stage
armFrame == <<world, disables, settingVars, failures>>

ShouldAttemptArm == ~active /\ access = "Granted"

RearmTick ==
  /\ DriverAt("poll") /\ ShouldAttemptArm
  /\ driver' = [stage |-> "spawn", key |-> config_key]
  /\ UNCHANGED <<armFrame, tapVars, keycode, handle, active>>

SpawnFails ==
  /\ DriverAt("spawn") /\ failures < MaxFailures
  /\ failures' = failures + 1
  /\ driver' = [driver EXCEPT !.stage = "poll"]
  /\ UNCHANGED <<world, disables, settingVars, tapVars, keycode, handle, active>>

SpawnMonitor ==
  /\ DriverAt("spawn")
  /\ tap' = "enabled" /\ keycode' = driver.key /\ latch_keycode' = driver.key /\ latch' = Up
  /\ driver' = [driver EXCEPT !.stage = "publish"]
  /\ UNCHANGED <<armFrame, events, reported, dropped, handle, active>>

PublishHandle ==
  /\ DriverAt("publish")
  /\ handle' = TRUE
  /\ driver' = [driver EXCEPT !.stage = "reconcile"]
  /\ UNCHANGED <<armFrame, tapVars, keycode, active>>

(* The configuration once more, and the driver's end.                       *)
Reconcile ==
  /\ DriverAt("reconcile")
  /\ keycode' = config_key
  /\ active' = TRUE
  /\ driver' = [driver EXCEPT !.stage = "off"]
  /\ UNCHANGED <<armFrame, tapVars, handle>>

Arms == RearmTick \/ SpawnMonitor \/ PublishHandle \/ Reconcile

-----------------------------------------------------------------------------
(* set_config: to the tap if its handle is there, then in memory.           *)

SetConfig(k) ==
  /\ ~setting.on /\ settings < MaxSettings
  /\ setting' = [on |-> TRUE, key |-> k, applied |-> FALSE] /\ settings' = settings + 1
  /\ UNCHANGED <<world, tapVars, keycode, armVars, config_key>>

ApplyToHandle ==
  /\ setting.on /\ ~setting.applied
  /\ setting' = [setting EXCEPT !.applied = TRUE]
  /\ keycode' = IF handle THEN setting.key ELSE keycode
  /\ UNCHANGED <<world, tapVars, armVars, config_key, settings>>

StoreConfig ==
  /\ setting.on /\ setting.applied
  /\ config_key' = setting.key
  /\ setting' = [NoSetting EXCEPT !.key = setting.key]
  /\ UNCHANGED <<world, tapVars, keycode, armVars, settings>>

-----------------------------------------------------------------------------
HotkeyNext ==
  \/ \E k \in Keys : Press(k) \/ Release(k) \/ SetConfig(k)
  \/ \E to \in {"Granted", "Denied", "Unknown"} : AccessChanges(to)
  \/ MacOSDisablesTap \/ HandlesEvent \/ Watchdog
  \/ Arms \/ SpawnFails \/ ApplyToHandle \/ StoreConfig

HotkeySafety == HotkeyInit /\ [][HotkeyNext]_hotkeyVars

(* The tap's thread runs its loop and the driver its polls.                 *)
HotkeySpec == /\ HotkeySafety
              /\ WF_hotkeyVars(HandlesEvent) /\ WF_hotkeyVars(Watchdog) /\ WF_hotkeyVars(Arms)
=============================================================================
