------------------------------ MODULE Dictation ------------------------------
(***************************************************************************)
(* One installation dictating: the coordinator (Coordinator), the audio    *)
(* worker (AudioWorker), the rolling and batch transcription threads as    *)
(* the coordinator sees them, and the people and programs that press keys, *)
(* use the tray and call the daemon.                                       *)
(***************************************************************************)
EXTENDS Coordinator, AudioWorker

threadFrame == <<appVars, localVars, cmds, mic, timers, finishers, rolling_enabled,
                 key_held, history>>

-----------------------------------------------------------------------------
(* Rolling workers, with the forwarder that tags their output: what module  *)
(* RollingPromise states and RollingWorker, rolling.rs in detail, keeps.    *)

Texts(r) == IF r.audio THEN {"text", "empty"} ELSE {"empty"}

RollerFinal(r) ==
  /\ r.phase = "finish"
  /\ rollers' = rollers \ {r}
  /\ \E o \in Texts(r) : Reply(FinalMsg(r.take, r.epoch, FALSE, o))
  /\ UNCHANGED <<threadFrame, jobs, budget>>

(* The watchdog trips, or the worker recovers from a panic of its own: a    *)
(* partial Final now, the stragglers later.                                 *)
RollerPartial(r) ==
  /\ r.phase = "finish"
  /\ Fault("engine")
  /\ rollers' = (rollers \ {r}) \cup {[r EXCEPT !.phase = "late"]}
  /\ \E o \in Texts(r) : Reply(FinalMsg(r.take, r.epoch, TRUE, o))
  /\ UNCHANGED <<threadFrame, jobs>>

RollerLate(r) ==
  /\ r.phase = "late"
  /\ rollers' = rollers \ {r}
  /\ \/ \E o \in Texts(r) : Reply(LateMsg(r.take, r.epoch, o))
     \/ UNCHANGED inbox
  /\ UNCHANGED <<threadFrame, jobs, budget>>

(* A panic among the stragglers: the audio is handed back a second time.    *)
RollerPanicsLate(r) ==
  /\ r.phase = "late"
  /\ Fault("engine")
  /\ rollers' = rollers \ {r}
  /\ Reply(FinalMsg(r.take, r.epoch, TRUE, "empty"))
  /\ UNCHANGED <<threadFrame, jobs>>

(* The coordinator dropped the sender: the worker exits without a Final and *)
(* the forwarder says so.                                                   *)
RollerAbandoned(r) ==
  /\ r.phase = "live" /\ rolling_in # r.take
  /\ rollers' = rollers \ {r}
  /\ Reply(LostMsg(r.take, r.epoch))
  /\ UNCHANGED <<threadFrame, jobs, budget>>

(* The worker thread dies on a panic in its handling of samples, with the   *)
(* recording still under way or with the Finish already queued behind them. *)
RollerDies(r) ==
  /\ r.phase # "late"
  /\ Fault(IF r.phase = "live" THEN "early" ELSE "worker")
  /\ rollers' = rollers \ {r}
  /\ Reply(LostMsg(r.take, r.epoch))
  /\ UNCHANGED <<threadFrame, jobs>>

-----------------------------------------------------------------------------
(* Waiter threads.  Each has a timeout, so each sends its message; samples  *)
(* that never reached the job cannot become text.                           *)

AsrDone(j) ==
  /\ j.stage = "asr"
  /\ jobs' = jobs \ {j}
  /\ \E o \in IF j.audio THEN {"text", "empty"} ELSE {"empty", "error"} :
       Reply(ResultMsg(j.take, j.listen, o))
  /\ UNCHANGED <<threadFrame, rollers, budget>>

AsrFails(j) ==
  /\ j.stage = "asr"
  /\ Fault("engine")
  /\ jobs' = jobs \ {j}
  /\ Reply(ResultMsg(j.take, j.listen, "error"))
  /\ UNCHANGED <<threadFrame, rollers>>

CleanDone(j) ==
  /\ j.stage = "clean"
  /\ jobs' = jobs \ {j}
  /\ Reply(CleanupDoneMsg(j.take, j.listen))
  /\ UNCHANGED <<threadFrame, rollers, budget>>

-----------------------------------------------------------------------------
(* The environment.                                                         *)

inputFrame == <<appVars, localVars, cmds, mic, threads, takes>>

Input(i) ==
  /\ i \in Inputs
  /\ budget.inputs > 0
  /\ budget' = [budget EXCEPT !.inputs = @ - 1]

PressKey ==
  /\ Input("hold") /\ ~key_held
  /\ key_held' = TRUE
  /\ Reply(Plain("HoldKeyPressed"))
  /\ UNCHANGED <<inputFrame, rolling_enabled, listens>>

ReleaseKey ==
  /\ key_held
  /\ key_held' = FALSE
  /\ Reply(Plain("HoldKeyReleased"))
  /\ UNCHANGED <<inputFrame, rolling_enabled, budget, listens>>

OtherKey ==
  /\ Input("chord") /\ key_held
  /\ Reply(Plain("OtherKeyDuringHold"))
  /\ UNCHANGED <<inputFrame, rolling_enabled, key_held, listens>>

(* The key tap reports Escape as any other key while the hold key is down   *)
(* (flag, history: it was Escape), and otherwise as a cancel, if            *)
(* is_recording is set.                                                     *)
PressEscape ==
  /\ Input("esc")
  /\ \/ key_held /\ Reply([Plain("OtherKeyDuringHold") EXCEPT !.flag = TRUE])
     \/ ~key_held /\ is_recording /\ Reply(Plain("CancelRequested"))
  /\ UNCHANGED <<inputFrame, rolling_enabled, key_held, listens>>

FlowCancel ==
  /\ Input("cancel")
  /\ Reply(Plain("CancelRequested"))
  /\ UNCHANGED <<inputFrame, rolling_enabled, key_held, listens>>

TrayToggle ==
  /\ Input("tray")
  /\ Reply(Plain("TrayToggleDictation"))
  /\ UNCHANGED <<inputFrame, rolling_enabled, key_held, listens>>

FlowListen ==
  /\ Input("listen")
  /\ listens' = Append(listens, [status |-> "waiting", take |-> 0, alone |-> FALSE])
  /\ Reply(DaemonListenMsg(Len(listens) + 1))
  /\ UNCHANGED <<inputFrame, rolling_enabled, key_held>>

ToggleRollingSetting ==
  /\ Input("config")
  /\ rolling_enabled' = ~rolling_enabled
  /\ UNCHANGED <<inputFrame, inbox, key_held, listens>>

-----------------------------------------------------------------------------
CoordinatorNext ==
  \/ HoldKeyPressed \/ HoldKeyReleased \/ OtherKeyDuringHold \/ CancelRequested
  \/ TrayToggleDictation \/ DaemonListen
  \/ Started \/ Stopped \/ Disconnected \/ Cancelled \/ NotRecording \/ AudioError
  \/ RollingFinal \/ RollingLate \/ RollingWorkerLost
  \/ TranscribeResult \/ CleanupDone

TimerNext == \E t \in timers : TimerWakes(t) \/ TimerSeesState(t) \/ TimerStarts(t)
FinisherNext == FinishIdle \/ FinishClear
RollerNext == \E r \in rollers : RollerFinal(r) \/ RollerLate(r) \/ RollerAbandoned(r)
RollerFails == \E r \in rollers : RollerPartial(r) \/ RollerPanicsLate(r) \/ RollerDies(r)
JobNext == \E j \in jobs : AsrDone(j) \/ CleanDone(j)
JobFails == \E j \in jobs : AsrFails(j)
EnvNext == PressKey \/ ReleaseKey \/ OtherKey \/ PressEscape \/ FlowCancel
           \/ TrayToggle \/ FlowListen \/ ToggleRollingSetting

Next ==
  \/ CoordinatorNext \/ CoordinatorPanic \/ TimerNext \/ FinisherNext
  \/ AudioWorkerNext \/ RollerNext \/ RollerFails \/ JobNext \/ JobFails \/ EnvNext

Spec == Init /\ [][Next]_vars

(* Every thread of the program keeps running: loops on their channels,      *)
(* threads that sleep and act, waits with a timeout.  Nobody is obliged to  *)
(* press a key, and nothing is obliged to fail.                             *)
Fairness ==
  /\ WF_vars(CoordinatorNext) /\ WF_vars(TimerNext) /\ WF_vars(FinisherNext)
  /\ AudioWorkerFairness /\ WF_vars(RollerNext) /\ WF_vars(JobNext)

FairSpec == Spec /\ Fairness
=============================================================================
