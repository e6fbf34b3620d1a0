--------------------------- MODULE HotkeyProperties ---------------------------
(***************************************************************************)
(* What the hold key promises the coordinator.                             *)
(***************************************************************************)
EXTENDS HotkeyTap

(* The coordinator believes the key held exactly as long as the tap does,   *)
(* across lost events and re-arming (resync_hold_latch): presses and        *)
(* releases alternate.  What is excepted is a latch that was dropped: of a  *)
(* press the key-state table never confirmed, or of another binding.        *)
HoldIsReported == IF latch.down THEN reported = "HoldKeyPressed"
                                ELSE reported = "HoldKeyReleased" \/ dropped

(* Only an event of the key itself ends a hold while the key is down, a     *)
(* posted press included (the rule of HoldLatch::validated).                *)
ByEvent == events # <<>> /\ Head(events).kind = "FlagsChanged" /\ events' = Tail(events)
NoLiveHoldIsCut ==
  [][reported = "HoldKeyPressed" /\ reported' = "HoldKeyReleased"
       => ByEvent \/ keycode \notin pressed]_hotkeyVars

(* A confirmed hold whose release never reached the tap (the tap was dead,  *)
(* or the other key of the pair kept the flag up) is ended all the same,    *)
(* unless the key is pressed again or the binding changes (the watchdog).   *)
MissedRelease ==
  /\ reported = "HoldKeyPressed" /\ latch.validated /\ latch_keycode = keycode
  /\ keycode \notin pressed
ReleaseIsReported ==
  MissedRelease ~> (reported = "HoldKeyReleased" \/ keycode \in pressed \/ latch_keycode # keycode)

(* "reconcile against config once more to close the read-keycode /          *)
(* publish-handle race" (coordinator.rs:184-187): when the driver has armed *)
(* the tap and no change of the setting is under way, the tap listens for   *)
(* the key that is configured.                                              *)
(* The code does not keep it (README, What does not hold).                  *)
BoundAsConfigured ==
  (active /\ DriverAt("off") /\ ~setting.on) => keycode = config_key
=============================================================================
