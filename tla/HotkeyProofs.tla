----------------------------- MODULE HotkeyProofs -----------------------------
(***************************************************************************)
(* Safety theorems about the hold key, for every set of keys and every     *)
(* number of presses, losses of the tap, settings and failures.            *)
(***************************************************************************)
EXTENDS HotkeyProperties, SequenceTheorems, TLAPS

Latch == [down : BOOLEAN, validated : BOOLEAN]
Event == [kind : {"FlagsChanged", "TapDisabled"}, key : Keys, down : BOOLEAN]
Stages == {"poll", "spawn", "publish", "reconcile", "off"}

(* What each variable of the tap, the driver and the setting holds.         *)
HotkeyTypeOK ==
  /\ source \in {"hand", "posted"} /\ pressed \subseteq Keys
  /\ tap \in {"none", "enabled", "disabled"} /\ events \in Seq(Event)
  /\ latch \in Latch /\ latch_keycode \in Keys /\ keycode \in Keys
  /\ driver \in [stage : Stages, key : Keys]
  /\ config_key \in Keys /\ setting \in [on : BOOLEAN, key : Keys, applied : BOOLEAN]
  /\ reported \in Edges /\ dropped \in BOOLEAN

(* Before the tap is there nothing has been latched, reported or queued,    *)
(* so that installing it (which starts from a fresh latch) forgets nothing. *)
FreshUntilSpawned ==
  /\ tap = "none" => latch = Up /\ reported = "HoldKeyReleased" /\ events = <<>>
  /\ driver.stage \in {"poll", "spawn"} => tap = "none"

(* Only a press made by hand is ever confirmed by the key-state table.      *)
PostedIsNotValidated == source = "posted" => ~latch.validated

HotkeyInv == HotkeyTypeOK /\ FreshUntilSpawned /\ PostedIsNotValidated /\ HoldIsReported

-----------------------------------------------------------------------------
(* The parts of a step that many actions share.                             *)

(* The tap gets an event of the keyboard.                                   *)
LEMMA AppendEventType ==
  ASSUME events \in Seq(Event), NEW k \in Keys, NEW kind \in {"FlagsChanged", "TapDisabled"},
         NEW down \in BOOLEAN
  PROVE  Append(events, [kind |-> kind, key |-> k, down |-> down]) \in Seq(Event)
<1>1. [kind |-> kind, key |-> k, down |-> down] \in Event
  BY DEF Event
<1>2. QED BY <1>1, AppendProperties

(* The tap's thread takes an event off the queue.                           *)
LEMMA HandlingType ==
  ASSUME events \in Seq(Event), NEW kind, Handling(kind)
  PROVE  Head(events) \in Event /\ events' \in Seq(Event)
BY HeadTailProperties DEF Handling

(* What resync_hold_latch does, by cause and by what the table says.        *)
LEMMA ResyncCases ==
  ASSUME NEW l \in Latch, NEW down \in BOOLEAN, NEW cause
  PROVE  LET r == ResyncHoldLatch(l, down, cause)
         IN  /\ r.latch \in {l, Up, Held}
             /\ r.latch = Held => down \/ l = Held
             /\ \/ r.edge = "none" /\ (r.latch.down = l.down \/ (l.down /\ ~l.validated))
                \/ r.edge = "HoldKeyPressed" /\ r.latch = Held
                \/ r.edge = "HoldKeyReleased" /\ r.latch = Up /\ l.down /\ l.validated /\ ~down
BY DEF ResyncHoldLatch, Latch, Up, Held

(* Looking at the key-state table keeps what was reported in step with the  *)
(* latch: what it drops unreported is marked, what it ends is reported.     *)
LEMMA ResyncStep ==
  ASSUME HotkeyTypeOK, PostedIsNotValidated, HoldIsReported, UNCHANGED source,
         NEW cause, Resync(cause)
  PROVE  /\ latch' \in Latch /\ reported' \in Edges /\ dropped' \in BOOLEAN
         /\ PostedIsNotValidated' /\ HoldIsReported'
<1> DEFINE down == KeyIsDown(keycode)
           r == ResyncHoldLatch(latch, down, cause)
<1>1. /\ latch \in Latch /\ down \in BOOLEAN /\ source \in {"hand", "posted"}
      /\ reported \in Edges /\ dropped \in BOOLEAN
      /\ down => source # "posted"
  BY DEF HotkeyTypeOK, KeyIsDown
<1>2. /\ r.latch \in {latch, Up, Held}
      /\ r.latch = Held => down \/ latch = Held
      /\ \/ r.edge = "none" /\ (r.latch.down = latch.down \/ (latch.down /\ ~latch.validated))
         \/ r.edge = "HoldKeyPressed" /\ r.latch = Held
         \/ r.edge = "HoldKeyReleased" /\ r.latch = Up
  BY <1>1, ResyncCases
<1>3. /\ latch' = r.latch
      /\ reported' = IF r.edge = "none" THEN reported ELSE r.edge
      /\ dropped' = (r.edge = "none"
                       /\ (dropped \/ (latch.down /\ ~latch.validated /\ ~r.latch.down)))
  BY DEF Resync, Emit
<1> HIDE DEF r, down
<1>4. /\ Up \in Latch /\ Held \in Latch /\ ~Up.down /\ ~Up.validated /\ Held.down /\ Held.validated
  BY DEF Up, Held, Latch
<1>5. latch' \in Latch /\ PostedIsNotValidated'
  BY <1>1, <1>2, <1>3, <1>4 DEF PostedIsNotValidated
<1>6. reported' \in Edges /\ dropped' \in BOOLEAN
  BY <1>1, <1>2, <1>3 DEF Edges
<1>7. HoldIsReported'
  BY <1>1, <1>2, <1>3, <1>4 DEF HoldIsReported, Edges, Latch
<1>8. QED BY <1>5, <1>6, <1>7

-----------------------------------------------------------------------------
(* Each action keeps the invariant.                                         *)

LEMMA KeyboardStep ==
  ASSUME HotkeyInv, NEW k \in Keys, Press(k) \/ Release(k)
  PROVE  HotkeyInv'
<1> USE DEF HotkeyInv
<1>1. PICK keys \in SUBSET Keys : Changed(k, keys)
  BY DEF Press, Release, HotkeyTypeOK
<1>2. Flag(keys, k) \in BOOLEAN
  BY DEF Flag
<1>3. events' \in Seq(Event)
  BY <1>1, <1>2, AppendEventType DEF Changed, FlagsChanged, HotkeyTypeOK
<1>4. HotkeyTypeOK'
  BY <1>1, <1>3 DEF Changed, HotkeyTypeOK, armVars, settingVars
<1>5. FreshUntilSpawned'
  BY <1>1 DEF Changed, FreshUntilSpawned, armVars
<1>6. PostedIsNotValidated' /\ HoldIsReported'
  BY <1>1 DEF Changed, PostedIsNotValidated, HoldIsReported
<1>7. QED BY <1>4, <1>5, <1>6

LEMMA MacOSStep ==
  ASSUME HotkeyInv, MacOSDisablesTap
  PROVE  HotkeyInv'
<1> USE DEF HotkeyInv, MacOSDisablesTap
<1>1. events' \in Seq(Event)
  BY AppendEventType DEF TapDisabled, HotkeyTypeOK
<1>2. HotkeyTypeOK'
  BY <1>1 DEF HotkeyTypeOK, world, armVars, settingVars
<1>3. FreshUntilSpawned'
  BY DEF FreshUntilSpawned, armVars
<1>4. PostedIsNotValidated' /\ HoldIsReported'
  BY DEF PostedIsNotValidated, HoldIsReported, world
<1>5. QED BY <1>2, <1>3, <1>4

LEMMA HandleTapDisabledStep ==
  ASSUME HotkeyInv, HandleTapDisabled
  PROVE  HotkeyInv'
<1> USE DEF HotkeyInv, HandleTapDisabled
<1>1. UNCHANGED source
  BY DEF tapFrame, world
<1>2. events' \in Seq(Event)
  BY HandlingType DEF HotkeyTypeOK
<1>3. /\ latch' \in Latch /\ reported' \in Edges /\ dropped' \in BOOLEAN
      /\ PostedIsNotValidated' /\ HoldIsReported'
  BY <1>1, ResyncStep
<1>4. HotkeyTypeOK'
  BY <1>2, <1>3 DEF HotkeyTypeOK, tapFrame, world, armVars, settingVars
<1>5. tap # "none"
  BY DEF FreshUntilSpawned, Handling
<1>6. FreshUntilSpawned'
  BY <1>5 DEF FreshUntilSpawned, tapFrame, armVars
<1>7. QED BY <1>3, <1>4, <1>6

LEMMA WatchdogStep ==
  ASSUME HotkeyInv, Watchdog
  PROVE  HotkeyInv'
<1> USE DEF HotkeyInv, Watchdog
<1>1. UNCHANGED source
  BY DEF tapFrame, world
<1>2. /\ latch' \in Latch /\ reported' \in Edges /\ dropped' \in BOOLEAN
      /\ PostedIsNotValidated' /\ HoldIsReported'
  <2>1. CASE Resync("Watchdog")
    BY <1>1, <2>1, ResyncStep
  <2>2. CASE UNCHANGED <<latch, reported, dropped>>
    BY <1>1, <2>2 DEF HotkeyTypeOK, PostedIsNotValidated, HoldIsReported
  <2>3. QED BY <2>1, <2>2
<1>3. HotkeyTypeOK'
  BY <1>2 DEF HotkeyTypeOK, tapFrame, world, armVars, settingVars
<1>4. FreshUntilSpawned'
  BY DEF FreshUntilSpawned, tapFrame, armVars
<1>5. QED BY <1>2, <1>3, <1>4

LEMMA HandleFlagsChangedStep ==
  ASSUME HotkeyInv, HandleFlagsChanged
  PROVE  HotkeyInv'
<1> USE DEF HotkeyInv
<1> DEFINE was == IF latch_keycode = keycode THEN latch ELSE Up
           down == Head(events).down
<1>1. Head(events) \in Event /\ events' \in Seq(Event) /\ tap # "none"
  BY HandlingType DEF HandleFlagsChanged, HotkeyTypeOK, FreshUntilSpawned, Handling
<1>2. /\ was \in Latch /\ down \in BOOLEAN
      /\ source = "posted" => ~was.validated /\ ~KeyIsDown(keycode)
  BY <1>1 DEF HotkeyTypeOK, Event, Latch, Up, PostedIsNotValidated, KeyIsDown
<1>3. /\ latch' = Latched(was, down)
      /\ Emit(HoldEdge(was.down, down), latch_keycode # keycode)
      /\ UNCHANGED source
  BY DEF HandleFlagsChanged, tapFrame, world
<1>4. latch'.down = down /\ latch' \in Latch /\ PostedIsNotValidated'
  BY <1>2, <1>3 DEF Latched, Latch, PostedIsNotValidated, KeyIsDown
<1>5. /\ HoldIsReported' /\ reported' \in Edges /\ dropped' \in BOOLEAN
  <2>1. was = latch \/ (latch_keycode # keycode /\ ~was.down)
    BY DEF Up
  <2>2. reported \in Edges /\ dropped \in BOOLEAN /\ latch \in Latch
    BY DEF HotkeyTypeOK
  <2> HIDE DEF was, down
  <2>3. QED
    BY <1>2, <1>3, <1>4, <2>1, <2>2 DEF Emit, HoldEdge, HoldIsReported, Edges, Latch
<1>6. HotkeyTypeOK'
  BY <1>1, <1>4, <1>5
     DEF HotkeyTypeOK, HandleFlagsChanged, tapFrame, world, armVars, settingVars
<1>7. FreshUntilSpawned'
  BY <1>1 DEF HandleFlagsChanged, FreshUntilSpawned, tapFrame, armVars
<1>8. QED BY <1>4, <1>5, <1>6, <1>7

LEMMA HandleOtherKeyStep ==
  ASSUME HotkeyInv, HandleOtherKey
  PROVE  HotkeyInv'
<1> USE DEF HotkeyInv, HandleOtherKey
<1>1. events' \in Seq(Event)
  BY HandlingType DEF HotkeyTypeOK
<1>2. HotkeyTypeOK'
  BY <1>1 DEF HotkeyTypeOK, tapFrame, world, armVars, settingVars
<1>3. FreshUntilSpawned'
  BY DEF FreshUntilSpawned, tapFrame, armVars, Handling
<1>4. PostedIsNotValidated' /\ HoldIsReported'
  BY DEF PostedIsNotValidated, HoldIsReported, tapFrame, world
<1>5. QED BY <1>2, <1>3, <1>4

(* The tap that the driver installs starts with a latch that is up, and up  *)
(* is what it was.                                                          *)
LEMMA DriverStep ==
  ASSUME HotkeyInv, Arms \/ SpawnFails
  PROVE  HotkeyInv'
<1> USE DEF HotkeyInv, DriverAt, armFrame
<1>1. CASE RearmTick
  <2>1. HotkeyTypeOK'
    BY <1>1 DEF RearmTick, HotkeyTypeOK, Stages, world, tapVars, settingVars
  <2>2. FreshUntilSpawned' /\ PostedIsNotValidated' /\ HoldIsReported'
    BY <1>1 DEF RearmTick, HotkeyTypeOK, FreshUntilSpawned, PostedIsNotValidated, HoldIsReported,
                world, tapVars
  <2>3. QED BY <2>1, <2>2
<1>2. CASE SpawnMonitor
  <2>1. latch = Up /\ reported = "HoldKeyReleased" /\ driver \in [stage : Stages, key : Keys]
    BY <1>2 DEF SpawnMonitor, FreshUntilSpawned, HotkeyTypeOK
  <2>2. HotkeyTypeOK'
    BY <1>2, <2>1 DEF SpawnMonitor, HotkeyTypeOK, Stages, world, settingVars, Latch, Up
  <2>3. FreshUntilSpawned' /\ PostedIsNotValidated' /\ HoldIsReported'
    BY <1>2, <2>1 DEF SpawnMonitor, FreshUntilSpawned, PostedIsNotValidated, HoldIsReported,
                      world, Up
  <2>4. QED BY <2>2, <2>3
<1>3. CASE PublishHandle
  <2>1. HotkeyTypeOK'
    BY <1>3 DEF PublishHandle, HotkeyTypeOK, Stages, world, tapVars, settingVars
  <2>2. FreshUntilSpawned' /\ PostedIsNotValidated' /\ HoldIsReported'
    BY <1>3 DEF PublishHandle, HotkeyTypeOK, FreshUntilSpawned, PostedIsNotValidated,
                HoldIsReported, world, tapVars
  <2>3. QED BY <2>1, <2>2
<1>4. CASE Reconcile
  <2>1. HotkeyTypeOK'
    BY <1>4 DEF Reconcile, HotkeyTypeOK, Stages, world, tapVars, settingVars
  <2>2. FreshUntilSpawned' /\ PostedIsNotValidated' /\ HoldIsReported'
    BY <1>4 DEF Reconcile, HotkeyTypeOK, FreshUntilSpawned, PostedIsNotValidated,
                HoldIsReported, world, tapVars
  <2>3. QED BY <2>1, <2>2
<1>5. CASE SpawnFails
  <2>1. HotkeyTypeOK'
    BY <1>5 DEF SpawnFails, HotkeyTypeOK, Stages, world, tapVars, settingVars
  <2>2. FreshUntilSpawned' /\ PostedIsNotValidated' /\ HoldIsReported'
    BY <1>5 DEF SpawnFails, HotkeyTypeOK, FreshUntilSpawned, PostedIsNotValidated,
                HoldIsReported, world, tapVars
  <2>3. QED BY <2>1, <2>2
<1>6. QED BY <1>1, <1>2, <1>3, <1>4, <1>5 DEF Arms

(* The setting and the permission leave the latch and the queue alone.      *)
LEMMA SettingStep ==
  ASSUME HotkeyInv,
         \/ \E k \in Keys : SetConfig(k)
         \/ \E to \in {"Granted", "Denied", "Unknown"} : AccessChanges(to)
         \/ ApplyToHandle \/ StoreConfig
  PROVE  HotkeyInv'
<1> USE DEF HotkeyInv
<1>1. UNCHANGED <<source, pressed, tapVars, driver>>
  BY DEF SetConfig, AccessChanges, ApplyToHandle, StoreConfig, world, armVars
<1>2. /\ keycode' \in Keys /\ config_key' \in Keys
      /\ setting' \in [on : BOOLEAN, key : Keys, applied : BOOLEAN]
  <2>1. /\ keycode \in Keys /\ config_key \in Keys
        /\ setting \in [on : BOOLEAN, key : Keys, applied : BOOLEAN]
    BY DEF HotkeyTypeOK
  <2>2. CASE \E k \in Keys : SetConfig(k)
    BY <2>1, <2>2 DEF SetConfig
  <2>3. CASE StoreConfig
    <3>1. setting.key \in Keys /\ config_key' = setting.key /\ keycode' = keycode
      BY <2>1, <2>3 DEF StoreConfig
    <3>2. setting' = [on |-> FALSE, key |-> setting.key, applied |-> FALSE]
      BY <2>3 DEF StoreConfig, NoSetting
    <3>3. QED BY <2>1, <3>1, <3>2
  <2>4. CASE \E to \in {"Granted", "Denied", "Unknown"} : AccessChanges(to)
    <3>1. UNCHANGED <<keycode, settingVars>>
      BY <2>4 DEF AccessChanges
    <3>2. QED BY <2>1, <3>1 DEF settingVars
  <2>5. CASE ApplyToHandle
    BY <2>1, <2>5 DEF ApplyToHandle
  <2>6. QED BY <2>2, <2>3, <2>4, <2>5
<1>3. HotkeyTypeOK'
  BY <1>1, <1>2 DEF HotkeyTypeOK, tapVars
<1>4. FreshUntilSpawned' /\ PostedIsNotValidated' /\ HoldIsReported'
  BY <1>1 DEF FreshUntilSpawned, PostedIsNotValidated, HoldIsReported, tapVars
<1>5. QED BY <1>3, <1>4

-----------------------------------------------------------------------------
(* The theorems.                                                            *)

LEMMA HotkeyInvariant == HotkeySafety => []HotkeyInv
<1>1. HotkeyInit => HotkeyInv
  <2> SUFFICES ASSUME HotkeyInit PROVE HotkeyInv
    OBVIOUS
  <2>1. HotkeyTypeOK
    <3>1. driver \in [stage : Stages, key : Keys] /\ tap \in {"none", "enabled", "disabled"}
      BY DEF HotkeyInit, Stages
    <3>2. setting \in [on : BOOLEAN, key : Keys, applied : BOOLEAN] /\ latch \in Latch
      BY DEF HotkeyInit, NoSetting, Up, Latch
    <3>3. events \in Seq(Event)
      BY DEF HotkeyInit
    <3>4. QED BY <3>1, <3>2, <3>3 DEF HotkeyInit, HotkeyTypeOK, Edges
  <2>2. FreshUntilSpawned /\ PostedIsNotValidated /\ HoldIsReported
    BY DEF HotkeyInit, FreshUntilSpawned, PostedIsNotValidated, HoldIsReported, Up
  <2>3. QED BY <2>1, <2>2 DEF HotkeyInv
<1>2. HotkeyInv /\ [HotkeyNext]_hotkeyVars => HotkeyInv'
  <2> SUFFICES ASSUME HotkeyInv, [HotkeyNext]_hotkeyVars PROVE HotkeyInv'
    OBVIOUS
  <2>1. CASE \E k \in Keys : Press(k) \/ Release(k)
    BY <2>1, KeyboardStep
  <2>2. CASE MacOSDisablesTap
    BY <2>2, MacOSStep
  <2>3. CASE HandlesEvent
    BY <2>3, HandleTapDisabledStep, HandleOtherKeyStep, HandleFlagsChangedStep DEF HandlesEvent
  <2>4. CASE Watchdog
    BY <2>4, WatchdogStep
  <2>5. CASE Arms \/ SpawnFails
    BY <2>5, DriverStep
  <2>6. CASE \/ \E k \in Keys : SetConfig(k)
             \/ \E to \in {"Granted", "Denied", "Unknown"} : AccessChanges(to)
             \/ ApplyToHandle \/ StoreConfig
    BY <2>6, SettingStep
  <2>7. CASE UNCHANGED hotkeyVars
    BY <2>7 DEF hotkeyVars, world, tapVars, armVars, settingVars, HotkeyInv, HotkeyTypeOK,
                FreshUntilSpawned, PostedIsNotValidated, HoldIsReported
  <2>8. QED BY <2>1, <2>2, <2>3, <2>4, <2>5, <2>6, <2>7 DEF HotkeyNext
<1>3. QED BY <1>1, <1>2, PTL DEF HotkeySafety

(* Whatever events the tap loses and however it is armed again, and however *)
(* often, the coordinator believes the key held exactly as long as the tap  *)
(* does, except for a latch that was dropped.                               *)
THEOREM HoldReported == HotkeySpec => []HoldIsReported
<1>1. HotkeyInv => HoldIsReported
  BY DEF HotkeyInv
<1>2. QED BY <1>1, HotkeyInvariant, PTL DEF HotkeySpec

(* No step of the watchdog, of the re-enabling of the tap, of the driver or *)
(* of the setting ends a hold whose key is down: only an event of that key  *)
(* does.                                                                    *)
THEOREM LiveHoldStands == HotkeySpec => NoLiveHoldIsCut
<1> DEFINE Cut == reported = "HoldKeyPressed" /\ reported' = "HoldKeyReleased"
                    => ByEvent \/ keycode \notin pressed
<1>1. HotkeyInv /\ [HotkeyNext]_hotkeyVars => [Cut]_hotkeyVars
  <2> SUFFICES ASSUME HotkeyInv, HotkeyNext,
                      reported = "HoldKeyPressed", reported' = "HoldKeyReleased"
               PROVE  ByEvent \/ keycode \notin pressed
    OBVIOUS
  <2>1. ASSUME NEW cause, Resync(cause) PROVE keycode \notin pressed
    <3>1. /\ latch \in Latch /\ KeyIsDown(keycode) \in BOOLEAN
          /\ latch.validated => source = "hand"
      BY DEF HotkeyInv, HotkeyTypeOK, PostedIsNotValidated, KeyIsDown
    <3>2. ResyncHoldLatch(latch, KeyIsDown(keycode), cause).edge = "HoldKeyReleased"
      BY <2>1 DEF Resync, Emit
    <3>3. latch.validated /\ ~KeyIsDown(keycode)
      BY <3>1, <3>2, ResyncCases
    <3>4. QED BY <3>1, <3>3 DEF KeyIsDown
  <2>2. CASE HandlesEvent
    BY <2>1, <2>2 DEF HandlesEvent, HandleTapDisabled, HandleOtherKey, HandleFlagsChanged,
                      Handling, ByEvent
  <2>3. CASE Watchdog
    BY <2>1, <2>3 DEF Watchdog
  <2>4. CASE \/ \E k \in Keys : Press(k) \/ Release(k) \/ SetConfig(k)
             \/ \E to \in {"Granted", "Denied", "Unknown"} : AccessChanges(to)
             \/ MacOSDisablesTap \/ Arms \/ SpawnFails \/ ApplyToHandle \/ StoreConfig
    <3>1. reported' = reported
      BY <2>4 DEF Press, Release, Changed, SetConfig, AccessChanges, MacOSDisablesTap, Arms,
                  RearmTick, SpawnMonitor, PublishHandle, Reconcile, SpawnFails, ApplyToHandle,
                  StoreConfig, tapVars
    <3>2. QED BY <3>1
  <2>5. QED BY <2>2, <2>3, <2>4 DEF HotkeyNext
<1>2. QED BY <1>1, HotkeyInvariant, PTL DEF HotkeySpec, HotkeySafety, NoLiveHoldIsCut
=============================================================================
