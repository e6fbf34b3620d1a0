----------------------------- MODULE AudioWorker -----------------------------
(***************************************************************************)
(* The audio worker thread: spawn_audio_worker and run_one_recording       *)
(* (flow-core/src/audio.rs).  It owns the microphone, takes AudioCommands  *)
(* in order and answers on the coordinator's channel.  The thread that     *)
(* forwards its replies keeps their order, so a reply is appended to       *)
(* `inbox` in the step that sends it.                                      *)
(***************************************************************************)
EXTENDS DictationState

Reply(m) == inbox' = Append(inbox, m)

workerFrame == <<appVars, localVars, threads, rolling_enabled, key_held, listens>>

TakeCmd(k) ==
  /\ cmds # <<>>
  /\ Head(cmds).kind = k
  /\ cmds' = Tail(cmds)

(* Ends the recording: the microphone closes and `f` becomes of the take.  *)
CloseMic(f) ==
  /\ mic' = NoMic
  /\ takes' = [takes EXCEPT ![mic.take].fate = f]

(* Start on an idle worker opens the microphone and says so; `Started` is   *)
(* sent before any audio.                                                   *)
OpenMic ==
  /\ ~mic.on
  /\ TakeCmd("Start")
  /\ LET t == Len(takes) + 1 IN
     /\ mic' = Mic(t, Head(cmds).rolling)
     /\ takes' = Append(takes, [fate |-> "capturing", listen |-> Head(cmds).listen,
                                deliveries |-> 0])
     /\ Reply(StartedMsg(t, Head(cmds).rolling))
  /\ UNCHANGED <<workerFrame, budget>>

(* The input stream cannot be opened: Error, and no Started.                *)
OpenFails ==
  /\ ~mic.on
  /\ TakeCmd("Start")
  /\ Fault("open")
  /\ Reply(Plain("Error"))
  /\ UNCHANGED <<workerFrame, mic, takes>>

(* Stop or Cancel with no recording in progress is acknowledged.            *)
AckIdle ==
  /\ ~mic.on
  /\ \E k \in {"Stop", "Cancel"} : TakeCmd(k)
  /\ Reply(Plain("NotRecording"))
  /\ UNCHANGED <<workerFrame, mic, takes, budget>>

(* A Start while already recording is dropped.                              *)
IgnoreStart ==
  /\ mic.on
  /\ TakeCmd("Start")
  /\ UNCHANGED <<workerFrame, inbox, mic, takes, budget>>

StopRecording ==
  /\ mic.on
  /\ TakeCmd("Stop")
  /\ Reply(StoppedMsg(mic.take, FALSE, ~mic.rolling))
  /\ CloseMic("captured")
  /\ UNCHANGED <<workerFrame, budget>>

(* Mutant: the microphone closes and nobody is told.                        *)
CancelRecording_Silent ==
  /\ mic.on
  /\ TakeCmd("Cancel")
  /\ CloseMic("discarded")
  /\ UNCHANGED <<workerFrame, inbox, budget>>

CancelRecording ==
  /\ mic.on
  /\ TakeCmd("Cancel")
  /\ Reply(CancelledMsg(mic.take))
  /\ CloseMic("discarded")
  /\ UNCHANGED <<workerFrame, budget>>

(* The duration cap, or trailing silence in a hands-free recording.         *)
AutoStop ==
  /\ mic.on
  /\ Reply(StoppedMsg(mic.take, TRUE, ~mic.rolling))
  /\ CloseMic("captured")
  /\ UNCHANGED <<workerFrame, cmds, budget>>

(* cpal reports a device fault.  A take of under a second is given up; in   *)
(* rolling mode the reply never carries samples.                            *)
DeviceLost ==
  /\ mic.on
  /\ Fault("lost")
  /\ \E long \in BOOLEAN :
       /\ Reply(DisconnectedMsg(mic.take, long, long /\ ~mic.rolling))
       /\ CloseMic(IF long THEN "captured" ELSE "discarded")
  /\ UNCHANGED <<workerFrame, cmds>>

AudioWorkerNext ==
  \/ OpenMic \/ OpenFails \/ AckIdle \/ IgnoreStart
  \/ StopRecording \/ CancelRecording \/ AutoStop \/ DeviceLost

(* The worker thread keeps running and every recording has a duration cap;  *)
(* a fault need not happen.                                                 *)
AudioWorkerFairness ==
  /\ WF_vars(OpenMic) /\ WF_vars(AckIdle) /\ WF_vars(IgnoreStart)
  /\ WF_vars(StopRecording) /\ WF_vars(CancelRecording) /\ WF_vars(AutoStop)
=============================================================================
