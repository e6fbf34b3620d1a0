---------------------------- MODULE MeetingControl ----------------------------
(***************************************************************************)
(* Who starts and stops a meeting session (apps/desktop/src-tauri/src/     *)
(* meeting_ctl.rs, MeetingHandle of flow-core/src/meeting/mod.rs and the   *)
(* Debouncer of meeting/detect.rs): the tray, the detector that polls every*)
(* POLL_INTERVAL, and a thread per stop that joins the session's thread.   *)
(* What a session does between its start and its end is MeetingSession.    *)
(***************************************************************************)
EXTENDS Integers, Sequences

CONSTANTS
  StartPolls,    \* START_POLLS
  EndPolls,      \* END_POLLS
  MaxSessions,   \* Bound: how many sessions are ever started
  MaxChanges,    \* Bound: changes of the mode and of the permission
  MaxWindows     \* Bound: how often a meeting window opens or closes

ASSUME MeetingControlAssumption ==
  /\ {StartPolls, EndPolls, MaxSessions} \subseteq Nat \ {0}
  /\ {MaxChanges, MaxWindows} \subseteq Nat

VARIABLES
  setting,      \* MeetingAuto, the Screen Recording grant, and the changes left
  screen,       \* is a meeting window listed, and the changes left
  debouncer,    \* Debouncer
  detector,     \* stage of detector_loop, and the mode it read
  tray,         \* what the tray's toggle is about to do
  sessions,     \* the session threads started so far
  slot          \* AppState::meeting_session: the session whose handle it holds, or 0

controlVars == <<setting, screen, debouncer, detector, tray, sessions, slot>>

(* A thread: is it running (is_running), has its stop flag been set, has    *)
(* stop spawned the thread that joins it, and did the detector start it.    *)
Thread(automatic) ==
  [running |-> TRUE, stop |-> FALSE, joiner |-> FALSE, automatic |-> automatic]

(* Debouncer::new.                                                          *)
NewDebouncer == [in_meeting |-> FALSE, positive_streak |-> 0, absent_streak |-> 0]

ControlInit ==
  /\ \E mode \in {"off", "ask", "auto"} :
       /\ setting = [mode |-> mode, permitted |-> TRUE, changes |-> MaxChanges]
       /\ detector = [stage |-> "sleep", mode |-> mode]
  /\ screen = [window |-> TRUE, changes |-> MaxWindows]
  /\ debouncer = NewDebouncer
  /\ tray = "none"
  /\ sessions = << >> /\ slot = 0

(* Bound: a start is only decided on while the session it may make fits.    *)
Pending(condition) == IF condition THEN 1 ELSE 0
Room == Len(sessions) + Pending(tray = "start")
                      + Pending(detector.stage \in {"started", "start"}) < MaxSessions

-----------------------------------------------------------------------------
(* The handle.                                                              *)

(* is_active: the handle is there and its thread has not returned.          *)
IsActive == slot # 0 /\ sessions[slot].running

(* start: ignored while a session runs; a handle whose thread has returned  *)
(* is replaced.                                                             *)
(* Mutant: start replaces whatever handle is there.                         *)
StartAnyway(automatic) ==
  /\ sessions' = Append(sessions, Thread(automatic))
  /\ slot' = Len(sessions) + 1
Start(automatic) ==
  IF IsActive
  THEN UNCHANGED <<sessions, slot>>
  ELSE /\ sessions' = Append(sessions, Thread(automatic))
       /\ slot' = Len(sessions) + 1

(* stop: takes the handle, and a thread of its own joins the session.       *)
(* Mutant: the handle is taken and dropped.                                 *)
TakeOnly == slot # 0 /\ slot' = 0 /\ UNCHANGED sessions
Stop ==
  IF slot = 0
  THEN UNCHANGED <<sessions, slot>>
  ELSE /\ sessions' = [sessions EXCEPT ![slot].joiner = TRUE]
       /\ slot' = 0

(* MeetingHandle::stop, on that thread: the flag; then it waits.            *)
JoinerSignals(s) ==
  /\ sessions[s].joiner /\ ~sessions[s].stop
  /\ sessions' = [sessions EXCEPT ![s].stop = TRUE]
  /\ UNCHANGED <<setting, screen, debouncer, detector, tray, slot>>

(* The session's thread returns: told to stop, or on an error or a panic of *)
(* its own.                                                                 *)
SessionReturns(s) ==
  /\ sessions[s].running
  /\ sessions' = [sessions EXCEPT ![s].running = FALSE]
  /\ UNCHANGED <<setting, screen, debouncer, detector, tray, slot>>

-----------------------------------------------------------------------------
(* The user.                                                                *)

(* toggle: is_active decides, under a lock it then lets go of.              *)
ToggleDecides ==
  /\ tray = "none" /\ (IsActive \/ Room)
  /\ tray' = IF IsActive THEN "stop" ELSE "start"
  /\ UNCHANGED <<setting, screen, debouncer, detector, sessions, slot>>
ToggleActs ==
  /\ tray # "none" /\ tray' = "none"
  /\ IF tray = "stop" THEN Stop ELSE Start(FALSE)
  /\ UNCHANGED <<setting, screen, debouncer, detector>>

(* set_auto_mode, on the tray's thread; and the grant of System Settings.   *)
SetAutoMode ==
  /\ tray = "none" /\ setting.changes > 0
  /\ \E mode \in {"off", "ask", "auto"} \ {setting.mode} :
       setting' = [setting EXCEPT !.mode = mode, !.changes = @ - 1]
  /\ UNCHANGED <<screen, debouncer, detector, tray, sessions, slot>>
PermissionChanges ==
  /\ setting.changes > 0
  /\ setting' = [setting EXCEPT !.permitted = ~@, !.changes = @ - 1]
  /\ UNCHANGED <<screen, debouncer, detector, tray, sessions, slot>>
WindowChanges ==
  /\ screen.changes > 0
  /\ screen' = [window |-> ~screen.window, changes |-> screen.changes - 1]
  /\ UNCHANGED <<setting, debouncer, detector, tray, sessions, slot>>

-----------------------------------------------------------------------------
(* The detector.                                                            *)

(* The top of detector_loop: off resets the debouncer, and without the      *)
(* grant there is no poll.                                                  *)
DetectorWakes ==
  /\ detector.stage = "sleep"
  /\ IF setting.mode = "off"
     THEN debouncer' = NewDebouncer /\ UNCHANGED detector
     ELSE /\ detector' = [mode |-> setting.mode,
                          stage |-> IF setting.permitted THEN "poll" ELSE "sleep"]
          /\ UNCHANGED debouncer
  /\ UNCHANGED <<setting, screen, tray, sessions, slot>>

(* Debouncer::poll, in a meeting: only the window counts.                   *)
Absence(app) == IF app THEN 0 ELSE debouncer.absent_streak + 1
PollMeeting(app) ==
  IF Absence(app) >= EndPolls
  THEN /\ debouncer' = NewDebouncer
       /\ detector' = [detector EXCEPT !.stage = "ended"]
  ELSE /\ debouncer' = [debouncer EXCEPT !.absent_streak = Absence(app)]
       /\ detector' = [detector EXCEPT !.stage = "sleep"]

(* And out of a meeting: a window and a live microphone.                    *)
PollIdle(app, mic_live) ==
  LET streak == IF app /\ mic_live THEN debouncer.positive_streak + 1 ELSE 0
      starts == streak >= StartPolls
  IN  /\ debouncer' = [in_meeting |-> starts, positive_streak |-> IF starts THEN 0 ELSE streak,
                       absent_streak |-> IF starts THEN 0 ELSE debouncer.absent_streak]
      /\ detector' = [detector EXCEPT !.stage = IF starts THEN "started" ELSE "sleep"]

(* mic_in_use is true whoever uses the microphone, so it may be anything.   *)
DetectorPolls ==
  /\ detector.stage = "poll"
  /\ IF debouncer.in_meeting
     THEN PollMeeting(screen.window)
     ELSE \E mic_live \in BOOLEAN : (mic_live => Room) /\ PollIdle(screen.window, mic_live)
  /\ UNCHANGED <<setting, screen, tray, sessions, slot>>

(* on_detected_start: nothing while a session is there; "ask" notifies.     *)
DetectedStart ==
  /\ detector.stage = "started"
  /\ detector' = [detector EXCEPT
       !.stage = IF ~IsActive /\ detector.mode = "auto" THEN "start" ELSE "sleep"]
  /\ UNCHANGED <<setting, screen, debouncer, tray, sessions, slot>>
DetectorStarts ==
  /\ detector.stage = "start" /\ Start(TRUE)
  /\ detector' = [detector EXCEPT !.stage = "sleep"]
  /\ UNCHANGED <<setting, screen, debouncer, tray>>

(* DetectEvent::Ended: is_active, then stop.                                *)
DetectedEnd ==
  /\ detector.stage = "ended"
  /\ detector' = [detector EXCEPT !.stage = IF IsActive THEN "stop" ELSE "sleep"]
  /\ UNCHANGED <<setting, screen, debouncer, tray, sessions, slot>>
DetectorStops ==
  /\ detector.stage = "stop" /\ Stop
  /\ detector' = [detector EXCEPT !.stage = "sleep"]
  /\ UNCHANGED <<setting, screen, debouncer, tray>>

-----------------------------------------------------------------------------
DetectorRuns ==
  DetectorWakes \/ DetectorPolls \/ DetectedStart \/ DetectorStarts \/ DetectedEnd \/ DetectorStops
ThreadsRun == \E s \in DOMAIN sessions : JoinerSignals(s) \/ SessionReturns(s)
UserActs == ToggleDecides \/ ToggleActs \/ SetAutoMode \/ PermissionChanges \/ WindowChanges
ControlNext == DetectorRuns \/ ThreadsRun \/ UserActs
=============================================================================
