----------------------------- MODULE HoldGesture -----------------------------
(***************************************************************************)
(* The coordinator's input handlers (src-tauri/src/coordinator.rs): the    *)
(* hold key, a chord during a hold, cancel, the tray toggle and the daemon *)
(* `listen`, one action per message, with the hold-threshold thread that   *)
(* HoldKeyPressed spawns.                                                  *)
(***************************************************************************)
EXTENDS DictationState

msg == Head(inbox)
Receive(k) == inbox # <<>> /\ msg.kind = k
Handled == inbox' = Tail(inbox)

-----------------------------------------------------------------------------
(* Pure decisions.                                                          *)

decide_release(hands_free, state, was_consumed, other_key) ==
  IF other_key THEN "Noop"
  ELSE IF hands_free \/ state = "Recording" THEN "StopAndTranscribe"
  ELSE IF state = "Idle" /\ ~was_consumed THEN "ArmHandsFree"
  ELSE "Noop"

should_start_after_hold(same_press, still_down, consumed) ==
  same_press /\ still_down /\ ~consumed

-----------------------------------------------------------------------------
(* start_recording, called with the mode flag and the pending listen as the *)
(* caller leaves them; `for` (history) is the listen the caller serves.     *)
start_recording(hf, pl, for, ls) ==
  \/ /\ set_dictation_state("Recording")
     /\ hands_free_active' = hf
     /\ pending_listen' = pl
     /\ listens' = ls
     /\ cmds' = Append(cmds, StartCmd(rolling_enabled, for))
     /\ UNCHANGED budget
  \/ /\ Fault("missing")
     /\ hands_free_active' = FALSE
     /\ pending_listen' = 0
     /\ listens' = Answer(ls, pl, "err", 0)
     /\ UNCHANGED <<dictation_state, is_recording, cmds>>

NoCapture == UNCHANGED <<dictation_state, is_recording, hands_free_active,
                         pending_listen, listens, cmds, budget>>

(* Sends a Stop or Cancel; the state changes only when the reply comes.     *)
SendEnd(cmd) ==
  /\ hands_free_active' = FALSE
  /\ cmds' = Append(cmds, cmd)
  /\ UNCHANGED <<dictation_state, is_recording, pending_listen, listens, budget>>

gestureFrame == <<rolling_in, rolling_epoch, pending_rolling, mic, rollers, jobs,
                  finishers, rolling_enabled, key_held, takes>>

HoldKeyPressed ==
  /\ Receive("HoldKeyPressed") /\ Handled
  /\ hold' = [hold EXCEPT !.key_down = TRUE, !.generation = @ + 1,
                          !.consumed = FALSE, !.other_key = FALSE]
  /\ timers' = IF ~hands_free_active /\ dictation_state = "Idle"
               THEN timers \cup {[tracker |-> hold.tracker,
                                  gen |-> hold.generation + 1, phase |-> "sleep"]}
               ELSE timers
  /\ NoCapture /\ UNCHANGED gestureFrame

HoldKeyReleased ==
  /\ Receive("HoldKeyReleased") /\ Handled
  /\ hold' = [hold EXCEPT !.key_down = FALSE, !.consumed = TRUE]
  /\ LET action == decide_release(hands_free_active, dictation_state,
                                  hold.consumed, hold.other_key)
     IN \/ action = "StopAndTranscribe" /\ SendEnd(StopCmd)
        \/ action = "ArmHandsFree" /\ start_recording(TRUE, pending_listen, 0, listens)
        \/ action = "Noop" /\ NoCapture
  /\ UNCHANGED <<gestureFrame, timers>>

(* Within CHORD_WINDOW of the press the hold is taken for a key chord: it   *)
(* resolves to nothing and a recording already begun is cancelled.          *)
OtherKeyDuringHold ==
  /\ Receive("OtherKeyDuringHold") /\ Handled
  /\ \/ /\ hold.key_down
        /\ hold' = [hold EXCEPT !.other_key = TRUE, !.consumed = TRUE]
        /\ IF dictation_state = "Recording" THEN SendEnd(CancelCmd) ELSE NoCapture
     \/ /\ NoCapture
        /\ UNCHANGED hold
  /\ UNCHANGED <<gestureFrame, timers>>

CancelRequested ==
  /\ Receive("CancelRequested") /\ Handled
  /\ IF dictation_state = "Recording"
     THEN SendEnd(CancelCmd) /\ hold' = [hold EXCEPT !.consumed = TRUE]
     ELSE NoCapture /\ UNCHANGED hold
  /\ UNCHANGED <<gestureFrame, timers>>

(* Mutant: the tray starts a recording whenever none is under way.          *)
TrayToggleDictation_WhileBusy ==
  /\ Receive("TrayToggleDictation") /\ Handled
  /\ \/ /\ dictation_state # "Recording"
        /\ hold' = [hold EXCEPT !.consumed = TRUE]
        /\ start_recording(TRUE, pending_listen, 0, listens)
     \/ /\ dictation_state = "Recording"
        /\ SendEnd(StopCmd)
        /\ UNCHANGED hold
  /\ UNCHANGED <<gestureFrame, timers>>

TrayToggleDictation ==
  /\ Receive("TrayToggleDictation") /\ Handled
  /\ \/ /\ dictation_state = "Idle"
        /\ hold' = [hold EXCEPT !.consumed = TRUE]
        /\ start_recording(TRUE, pending_listen, 0, listens)
     \/ /\ dictation_state = "Recording"
        /\ SendEnd(StopCmd)
        /\ UNCHANGED hold
     \/ /\ dictation_state \notin {"Idle", "Recording"}
        /\ NoCapture /\ UNCHANGED hold
  /\ UNCHANGED <<gestureFrame, timers>>

(* Nothing of another recording is under way: no command, reply, worker,    *)
(* result or start of one (history).                                        *)
NothingUnderWay ==
  /\ ~mic.on /\ cmds = <<>> /\ jobs = {} /\ ~pending_rolling.waiting
  /\ \A t \in timers : t.phase # "go"
  /\ \A i \in DOMAIN inbox :
       inbox[i].kind \notin {"Started", "Stopped", "Disconnected", "Cancelled",
                            "NotRecording", "Error", "TranscribeResult", "CleanupDone"}

(* A reply sender still stored in pending_listen would be dropped.          *)
DaemonListen ==
  /\ Receive("DaemonListen") /\ Handled
  /\ IF dictation_state # "Idle"
     THEN /\ listens' = Answer(listens, msg.listen, "err", 0)
          /\ UNCHANGED <<dictation_state, is_recording, hands_free_active,
                         pending_listen, cmds, budget>>
     ELSE start_recording(TRUE, msg.listen, msg.listen,
                          [Answer(listens, pending_listen, "dropped", 0)
                             EXCEPT ![msg.listen].alone = NothingUnderWay])
  /\ UNCHANGED <<gestureFrame, hold, timers>>

-----------------------------------------------------------------------------
(* The hold-threshold thread.  It reads the press flags, then the state,    *)
(* then starts the recording itself: three steps that other threads may     *)
(* come between.                                                            *)

timerFrame == <<hold, rolling_in, rolling_epoch, pending_rolling, inbox, mic,
                rollers, jobs, finishers, rolling_enabled, key_held, takes>>

Advance(t, p) == timers' = (timers \ {t}) \cup {[t EXCEPT !.phase = p]}

TimerWakes(t) ==
  /\ t.phase = "sleep"
  /\ IF should_start_after_hold(hold.generation = t.gen, hold.key_down, hold.consumed)
     THEN Advance(t, "held")
     ELSE timers' = timers \ {t}
  /\ NoCapture /\ UNCHANGED timerFrame

TimerSeesState(t) ==
  /\ t.phase = "held"
  /\ IF dictation_state = "Idle" THEN Advance(t, "go") ELSE timers' = timers \ {t}
  /\ NoCapture /\ UNCHANGED timerFrame

TimerStarts(t) ==
  /\ t.phase = "go"
  /\ timers' = timers \ {t}
  /\ start_recording(hands_free_active, pending_listen, 0, listens)
  /\ UNCHANGED timerFrame
=============================================================================
