------------------------- MODULE DictationProperties -------------------------
(* What must hold of one installation dictating (module Dictation).         *)
EXTENDS Dictation

HasKind(q, K) == \E i \in DOMAIN q : q[i].kind \in K

(* The audio worker's ways of ending a recording, or of denying there is one. *)
EndKinds == {"Stopped", "Disconnected", "Cancelled", "NotRecording", "Error"}

-----------------------------------------------------------------------------
(* While the state says Recording, the microphone is open, or a Start is on *)
(* its way to the audio worker, or the worker's word that it is over is on  *)
(* its way back: `dictation_state` cannot latch on Recording with nothing   *)
(* left to move it (AudioReply::NotRecording, audio.rs).  Holds through     *)
(* timer races, device faults and coordinator panics.                       *)
RecordingHasEnd ==
  dictation_state = "Recording" =>
    mic.on \/ HasKind(cmds, {"Start"}) \/ HasKind(inbox, EndKinds)

(* A message or a worker bound to answer the pending rolling dictation.     *)
FinalOnItsWay ==
  /\ pending_rolling.waiting
  /\ \/ \E r \in rollers : r.phase = "finish" /\ r.epoch = pending_rolling.epoch
     \/ \E i \in DOMAIN inbox : /\ inbox[i].kind \in {"Final", "RollingWorkerLost"}
                                /\ inbox[i].epoch = pending_rolling.epoch

(* A recording the coordinator has lost sight of goes on, or the audio      *)
(* worker's word that it is over is on its way, which the coordinator acts  *)
(* on in any state.                                                         *)
AnotherEndComes ==
  \/ mic.on \/ HasKind(cmds, {"Start"})
  \/ HasKind(inbox, {"Stopped", "Disconnected", "Cancelled", "Error"})

(* While the state says Transcribing some thread still owes the coordinator *)
(* the message that ends it, tagged so that it will not be ignored: the     *)
(* epoch guard never strands the dictation that is waiting.  If a newer     *)
(* recording has taken its place, that one's end is still to come.          *)
TranscribingHasEnd ==
  dictation_state = "Transcribing" =>
    \/ FinalOnItsWay
    \/ jobs # {} \/ HasKind(inbox, {"TranscribeResult", "CleanupDone"})
    \/ AnotherEndComes

(* The mode flag outlives no recording: a set flag makes every press a      *)
(* no-op until the next release, so it may be set only while recording.     *)
HandsFreeOnlyWhileRecording == hands_free_active => dictation_state = "Recording"

(* A daemon listen is answered with the words of the recording made for it, *)
(* and its reply channel is never just dropped.                             *)
(* The code does not keep it (README, What does not hold).                  *)
EveryListenHasItsTake ==
  \A l \in DOMAIN listens :
    /\ listens[l].status # "dropped"
    /\ listens[l].status = "ok" => takes[listens[l].take].listen = l

(* It does for a listen accepted when nothing of another recording was      *)
(* under way, whatever comes while its own recording runs.                  *)
ListenAnswersItsOwnTake ==
  \A l \in DOMAIN listens :
    listens[l].alone =>
      /\ listens[l].status # "dropped"
      /\ listens[l].status = "ok" => takes[listens[l].take].listen = l

(* Words are pasted or returned at most once (a complete transcript that    *)
(* follows a partial one goes to the clipboard), and those of a cancelled   *)
(* take never, unless a lost device's Stopped was queued behind the next    *)
(* recording's Started.                                                     *)
DeliveredAtMostOnce ==
  \A t \in DOMAIN takes :
    /\ takes[t].deliveries <= 1
    /\ takes[t].fate = "discarded" /\ "lost" \notin Faults => takes[t].deliveries = 0

(* The Final that the waiting dictation will accept is made from the audio  *)
(* of that dictation: worker epochs keep recordings apart.                  *)
PendingFinalIsItsOwn ==
  pending_rolling.waiting =>
    /\ \A r \in rollers :
         r.epoch = pending_rolling.epoch => r.take = pending_rolling.take
    /\ \A i \in DOMAIN inbox :
         inbox[i].kind = "Final" /\ inbox[i].epoch = pending_rolling.epoch
           => inbox[i].take = pending_rolling.take

(* While a rolling recording is under way its samples have a worker to go to. *)
StreamIsHeard ==
  dictation_state = "Recording" /\ mic.on /\ mic.rolling =>
    rolling_in = mic.take \/ HasKind(inbox, {"Started"} \cup EndKinds)

(* No take's words vanish without a word to the user.                       *)
NoWordsLost == \A t \in DOMAIN takes : takes[t].fate # "lost"

-----------------------------------------------------------------------------
(* A transcription or paste under way is never cut short by a new recording. *)
BusyIsNotInterrupted ==
  [][(dictation_state \in {"Transcribing", "Done"} => dictation_state' # "Recording")]_vars

(* An Escape that reaches the coordinator during a recording cancels it,    *)
(* whichever way the key tap reported it.                                   *)
(* The code does not keep it (README, What does not hold).                  *)
EscapeCancels ==
  [][((CancelRequested \/ (OtherKeyDuringHold /\ msg.flag)) /\ dictation_state = "Recording"
        => cmds' = Append(cmds, CancelCmd))]_vars

(* The audio worker's word that it was not recording resets a recording     *)
(* only if there is none: "this only ever rescues the stuck case"           *)
(* (coordinator.rs).                                                        *)
(* The code does not keep it (README, What does not hold).                  *)
AckRescuesOnlyTheStuck ==
  [][(NotRecording /\ dictation_state' # dictation_state
        => ~mic.on /\ ~HasKind(cmds, {"Start"}))]_vars

-----------------------------------------------------------------------------
(* The state machine always comes back to Idle, where a press is heard.     *)
IdleAgain == []<>(dictation_state = "Idle")

Waiting(l) == l \in DOMAIN listens /\ listens[l].status = "waiting"

(* Every daemon listen gets an answer or sees its channel close.            *)
ListensAnswered == \A l \in 1..MaxInputs : Waiting(l) ~> ~Waiting(l)

-----------------------------------------------------------------------------
(* Dictation implements the promise of module TakeLedger.                   *)
Ledger == INSTANCE TakeLedger WITH
            MaxTakes <- 2 * MaxInputs,
            ledger <- [t \in DOMAIN takes |-> takes[t].fate]

WordsArePromised == Ledger!Spec
=============================================================================
