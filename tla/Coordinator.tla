----------------------------- MODULE Coordinator -----------------------------
(***************************************************************************)
(* The rest of the coordinator thread (src-tauri/src/coordinator.rs): the  *)
(* audio worker's replies, the rolling worker's outputs, the results of    *)
(* batch transcription and clean-up, the delivery of the text, the threads *)
(* that finish_with spawns, and the supervisor that restarts the loop      *)
(* after a panic.                                                          *)
(***************************************************************************)
EXTENDS HoldGesture

(* Mutant: an empty transcript is not routed at all.                        *)
route_rolling_final_Strict(pending, epoch, has_text) ==
  IF ~has_text THEN "Ignore"
  ELSE IF pending.waiting /\ pending.epoch = epoch THEN "Pipeline"
  ELSE "ClipboardOnly"

(* Mutant: words nobody waits for any more are dropped.                     *)
route_rolling_final_Drops(pending, epoch, has_text) ==
  IF pending.waiting /\ pending.epoch = epoch THEN "Pipeline" ELSE "Ignore"

route_rolling_final(pending, epoch, has_text) ==
  IF pending.waiting /\ pending.epoch = epoch THEN "Pipeline"
  ELSE IF has_text THEN "ClipboardOnly" ELSE "Ignore"

replyFrame == <<cmds, mic, timers, rolling_enabled, key_held>>

-----------------------------------------------------------------------------
(* Dropping the sender of a rolling worker that holds a finished take's     *)
(* words loses them (history).                                              *)
AfterDrop(ts) == Resolve(ts, rolling_in, "lost")

(* Mutants: the epoch stays, or goes back.                                  *)
NextEpoch_Same == rolling_epoch
NextEpoch_Back == rolling_epoch - 1

NextEpoch == rolling_epoch + 1

(* Mutant: the listen stays pending when its recording is given up.         *)
AbandonRecording_KeepsListen(ls) ==
  /\ rolling_in' = 0
  /\ rolling_epoch' = NextEpoch
  /\ pending_rolling' = NoPending
  /\ takes' = AfterDrop(takes)
  /\ UNCHANGED <<pending_listen, listens>>
  /\ set_dictation_state("Idle")

(* Mutant: the listen is forgotten without an answer.                       *)
AbandonRecording_ForgetsListen(ls) ==
  /\ rolling_in' = 0
  /\ rolling_epoch' = NextEpoch
  /\ pending_rolling' = NoPending
  /\ pending_listen' = 0
  /\ takes' = AfterDrop(takes)
  /\ UNCHANGED listens
  /\ set_dictation_state("Idle")

(* `rolling_in = None; rolling_epoch += 1; pending_rolling = None`, and the *)
(* pending listen answered with an error.                                   *)
AbandonRecording(ls) ==
  /\ rolling_in' = 0
  /\ rolling_epoch' = NextEpoch
  /\ pending_rolling' = NoPending
  /\ pending_listen' = 0
  /\ listens' = Answer(Answer(ls, pending_rolling.listen, "dropped", 0),
                       pending_listen, "err", 0)
  /\ takes' = AfterDrop(takes)
  /\ set_dictation_state("Idle")

(* Mutant: no second worker while one is still finishing.                   *)
SpawnRollingWorker_One ==
  IF rolling_enabled /\ ~pending_rolling.waiting
  THEN /\ rolling_in' = msg.take
       /\ rollers' = rollers \cup {[take |-> msg.take, epoch |-> NextEpoch,
                                    audio |-> msg.audio, phase |-> "live"]}
  ELSE rolling_in' = 0 /\ UNCHANGED rollers

SpawnRollingWorker ==
  IF rolling_enabled
  THEN /\ rolling_in' = msg.take
       /\ rollers' = rollers \cup {[take |-> msg.take, epoch |-> NextEpoch,
                                    audio |-> msg.audio, phase |-> "live"]}
  ELSE rolling_in' = 0 /\ UNCHANGED rollers

(* Started: a new epoch, and a rolling worker if the setting is on now.     *)
Started ==
  /\ Receive("Started") /\ Handled
  /\ rolling_epoch' = NextEpoch
  /\ pending_rolling' = NoPending
  /\ listens' = Answer(listens, pending_rolling.listen, "dropped", 0)
  /\ takes' = AfterDrop(takes)
  /\ SpawnRollingWorker
  /\ UNCHANGED <<appVars, hold, jobs, finishers, replyFrame, budget>>

EndGesture ==
  /\ hands_free_active' = FALSE
  /\ hold' = [hold EXCEPT !.consumed = TRUE]

(* The roller of this take has its samples.                                 *)
StreamedTo(t) == \E r \in rollers : r.take = t /\ r.audio

(* Stopped: the rolling worker is told to finish, or the samples go to the  *)
(* model manager with a waiter thread.                                      *)
Stopped ==
  /\ Receive("Stopped") /\ Handled
  /\ IF msg.flag THEN EndGesture ELSE UNCHANGED <<hands_free_active, hold>>
  /\ pending_listen' = 0
  /\ \/ /\ rolling_in # 0
        /\ set_dictation_state("Transcribing")
        /\ rollers' = {IF r.take = rolling_in /\ r.phase = "live"
                       THEN [r EXCEPT !.phase = "finish"] ELSE r : r \in rollers}
        /\ pending_rolling' = Pending(msg.take, rolling_epoch, pending_listen)
        /\ listens' = Answer(listens, pending_rolling.listen, "dropped", 0)
        /\ rolling_in' = 0
        /\ takes' = IF rolling_in = msg.take /\ StreamedTo(msg.take) THEN takes
                    ELSE Resolve(takes, msg.take, "lost")
        /\ UNCHANGED <<jobs, budget>>
     \/ /\ rolling_in = 0
        /\ set_dictation_state("Transcribing")
        /\ jobs' = jobs \cup {[stage |-> "asr", take |-> msg.take,
                               listen |-> pending_listen, audio |-> msg.audio]}
        /\ takes' = IF msg.audio THEN takes ELSE Resolve(takes, msg.take, "lost")
        /\ UNCHANGED <<rolling_in, pending_rolling, rollers, listens, budget>>
     \/ /\ rolling_in = 0       \* the model manager is gone
        /\ Fault("manager")
        /\ set_dictation_state("Idle")
        /\ listens' = Answer(listens, pending_listen, "err", 0)
        /\ takes' = Resolve(takes, msg.take, "lost")
        /\ UNCHANGED <<rolling_in, pending_rolling, rollers, jobs>>
  /\ UNCHANGED <<rolling_epoch, finishers, replyFrame>>

(* Disconnected: a take worth keeping is finished by a Stopped of the       *)
(* coordinator's own, queued behind whatever has arrived meanwhile; of a    *)
(* rolling one it has no samples, the rolling worker has them.              *)
Disconnected ==
  /\ Receive("Disconnected")
  /\ EndGesture
  /\ IF IF rolling_in # 0 THEN msg.flag ELSE msg.audio
     THEN /\ inbox' = Append(Tail(inbox), StoppedMsg(msg.take, FALSE, msg.audio /\ rolling_in = 0))
          /\ UNCHANGED <<dictation_state, is_recording, pending_listen, rolling_in,
                         rolling_epoch, listens, takes>>
     ELSE /\ Handled
          /\ rolling_in' = 0
          /\ rolling_epoch' = IF rolling_in # 0 THEN NextEpoch ELSE rolling_epoch
          /\ pending_listen' = 0
          /\ listens' = Answer(listens, pending_listen, "err", 0)
          /\ takes' = Resolve(AfterDrop(takes), msg.take, "lost")
          /\ set_dictation_state("Idle")
  /\ UNCHANGED <<pending_rolling, rollers, jobs, finishers, replyFrame, budget>>

Cancelled ==
  /\ Receive("Cancelled") /\ Handled
  /\ AbandonRecording(listens)
  /\ UNCHANGED <<hands_free_active, hold, rollers, jobs, finishers, replyFrame, budget>>

(* NotRecording reconciles a latched Recording, and only that.              *)
NotRecording ==
  /\ Receive("NotRecording") /\ Handled
  /\ IF dictation_state = "Recording"
     THEN AbandonRecording(listens) /\ hands_free_active' = FALSE
     ELSE UNCHANGED <<appVars, rolling_in, rolling_epoch, pending_rolling, history>>
  /\ UNCHANGED <<hold, rollers, jobs, finishers, replyFrame, budget>>

(* The hands-free flag is left as it is.                                    *)
AudioError ==
  /\ Receive("Error") /\ Handled
  /\ AbandonRecording(listens)
  /\ UNCHANGED <<hands_free_active, hold, rollers, jobs, finishers, replyFrame, budget>>

-----------------------------------------------------------------------------
(* Delivery.                                                                *)

Deliver(ts, t) ==
  LET r == Resolve(ts, t, "settled")
  IN IF t \in DOMAIN r THEN [r EXCEPT ![t].deliveries = @ + 1] ELSE r

(* Text is pasted, or returned to the listen that asked for it; an empty    *)
(* result is reported, its audio saved or not.  Both pass through Done.     *)
finalize_dictation(t, l, has_text) ==
  /\ set_dictation_state("Done")
  /\ finishers' = [finishers EXCEPT !.done = @ + 1]
  /\ listens' = Answer(listens, l, "ok", t)
  /\ takes' = IF has_text THEN Deliver(takes, t) ELSE Resolve(takes, t, "settled")

(* Raw and code modes, and an empty transcript, finish at once; the other   *)
(* modes hand the text to the clean-up manager with a waiter thread.        *)
run_pipeline(t, l, has_text) ==
  \/ finalize_dictation(t, l, has_text) /\ UNCHANGED jobs
  \/ /\ has_text
     /\ jobs' = jobs \cup {[stage |-> "clean", take |-> t, listen |-> l, audio |-> TRUE]}
     /\ UNCHANGED <<dictation_state, is_recording, finishers, listens, takes>>

resultFrame == <<hands_free_active, pending_listen, hold, rolling_in, rolling_epoch,
                 rollers, replyFrame, budget>>

RollingFinal ==
  /\ Receive("Final") /\ Handled
  /\ LET route == route_rolling_final(pending_rolling, msg.epoch, msg.out = "text")
     IN \/ /\ route = "Pipeline"
           /\ run_pipeline(msg.take, pending_rolling.listen, msg.out = "text")
           /\ pending_rolling' = NoPending
        \/ /\ route # "Pipeline"
           /\ takes' = Resolve(takes, msg.take,
                               IF route = "Ignore" /\ msg.out = "text" THEN "lost"
                               ELSE "settled")
           /\ UNCHANGED <<dictation_state, is_recording, finishers, jobs, listens,
                          pending_rolling>>
  /\ UNCHANGED resultFrame

(* Mutant: the complete transcript is pasted after the partial one.         *)
RollingLate_Pastes ==
  /\ Receive("Late") /\ Handled
  /\ takes' = IF msg.out = "text" THEN Deliver(takes, msg.take) ELSE takes
  /\ UNCHANGED <<resultFrame, dictation_state, is_recording, finishers, jobs, listens,
                 pending_rolling>>

RollingLate ==
  /\ Receive("Late") /\ Handled
  /\ takes' = IF msg.out = "text" THEN Resolve(takes, msg.take, "settled") ELSE takes
  /\ UNCHANGED <<resultFrame, dictation_state, is_recording, finishers, jobs, listens,
                 pending_rolling>>

(* Mutant: a vanished worker is not noticed.                                *)
RollingWorkerLost_Ignored ==
  /\ Receive("RollingWorkerLost") /\ Handled
  /\ UNCHANGED <<resultFrame, dictation_state, is_recording, pending_rolling, history,
                 finishers, jobs>>

RollingWorkerLost ==
  /\ Receive("RollingWorkerLost") /\ Handled
  /\ IF pending_rolling.waiting /\ pending_rolling.epoch = msg.epoch
     THEN /\ pending_rolling' = NoPending
          /\ listens' = Answer(listens, pending_rolling.listen, "err", 0)
          /\ takes' = Resolve(takes, pending_rolling.take, "settled")
          /\ set_dictation_state("Idle")
     ELSE UNCHANGED <<dictation_state, is_recording, pending_rolling, history>>
  /\ UNCHANGED <<resultFrame, finishers, jobs>>

TranscribeResult ==
  /\ Receive("TranscribeResult") /\ Handled
  /\ \/ /\ msg.out # "error"
        /\ run_pipeline(msg.take, msg.listen, msg.out = "text")
     \/ /\ msg.out = "error"
        /\ takes' = Resolve(takes, msg.take, "settled")
        /\ listens' = Answer(listens, msg.listen, "err", 0)
        /\ set_dictation_state("Idle")
        /\ UNCHANGED <<jobs, finishers>>
  /\ UNCHANGED <<resultFrame, pending_rolling>>

CleanupDone ==
  /\ Receive("CleanupDone") /\ Handled
  /\ finalize_dictation(msg.take, msg.listen, TRUE)
  /\ UNCHANGED <<resultFrame, jobs, pending_rolling>>

-----------------------------------------------------------------------------
(* finish_with's thread: after 900 ms it turns Done into Idle, and then, in *)
(* a step of its own and whatever the state, clears is_recording.           *)

finishFrame == <<hands_free_active, pending_listen, localVars, inbox, cmds, mic,
                 timers, rollers, jobs, envVars, history>>

FinishIdle ==
  /\ finishers.done > 0
  /\ finishers' = [done |-> finishers.done - 1, idle |-> finishers.idle + 1]
  /\ dictation_state' = IF dictation_state = "Done" THEN "Idle" ELSE dictation_state
  /\ UNCHANGED <<is_recording, finishFrame>>

FinishClear ==
  /\ finishers.idle > 0
  /\ finishers' = [finishers EXCEPT !.idle = @ - 1]
  /\ is_recording' = FALSE
  /\ UNCHANGED <<dictation_state, finishFrame>>

-----------------------------------------------------------------------------
(* A handler panics: its message is lost, reset_after_panic runs, and the   *)
(* loop starts again with fresh locals.  The audio worker is not told.      *)
(* Timer threads keep the old HoldTracker, which nobody writes any more.    *)

(* Mutant: dictation_state is left where the panic found it.                *)
reset_after_panic_KeepsState ==
  /\ is_recording' = FALSE
  /\ hands_free_active' = FALSE
  /\ pending_listen' = 0
  /\ UNCHANGED dictation_state

reset_after_panic ==
  /\ set_dictation_state("Idle")
  /\ hands_free_active' = FALSE
  /\ pending_listen' = 0

CoordinatorPanic ==
  /\ inbox # <<>>
  /\ Fault("panic")
  /\ Handled
  /\ reset_after_panic
  /\ listens' = Answer(Answer(Answer(listens, msg.listen, "dropped", 0),
                              pending_rolling.listen, "dropped", 0),
                       pending_listen, "err", 0)
  /\ takes' = Resolve(AfterDrop(takes), msg.take, "lost")
  /\ hold' = NewHold(hold.tracker + 1)
  /\ timers' = {[t EXCEPT !.phase = IF @ = "sleep" THEN "held" ELSE @] :
                 t \in {t \in timers :
                          t.phase = "sleep" =>
                            should_start_after_hold(hold.generation = t.gen,
                                                    hold.key_down, hold.consumed)}}
  /\ rolling_in' = 0
  /\ rolling_epoch' = 0
  /\ pending_rolling' = NoPending
  /\ UNCHANGED <<cmds, mic, rollers, jobs, finishers, rolling_enabled, key_held>>
=============================================================================
