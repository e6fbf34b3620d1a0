---------------------------- MODULE DictationState ----------------------------
(***************************************************************************)
(* The state shared by the threads of one dictation: `AppState` (state.rs),*)
(* the locals of `run_coordinator` (coordinator.rs), the command channel   *)
(* of the audio worker, the coordinator's single message channel, and the  *)
(* threads those handlers spawn.  The modules that EXTEND this one give    *)
(* the actions: AudioWorker, HoldGesture, Coordinator and, composing them,  *)
(* Dictation.                                                              *)
(*                                                                         *)
(* Audio is abstracted to the *take* it belongs to: take t is the t-th     *)
(* time the microphone was opened.  `takes` and `listens` are history      *)
(* variables: what became of every take and of every daemon `listen`.      *)
(***************************************************************************)
EXTENDS Naturals, Sequences, FiniteSets

CONSTANTS
  InitRolling,   \* config.rolling_transcription at launch
  Inputs,        \* which kinds of input the environment may send
  Faults,        \* which kinds of failure may happen
  MaxInputs,     \* bound: inputs sent in a behaviour
  MaxFaults      \* bound: failures in a behaviour

InputKinds == {"hold", "chord", "esc", "cancel", "tray", "listen", "config"}
FaultKinds == {"open", "lost", "missing", "engine", "manager", "worker", "early", "panic"}

ASSUME DictationAssumption ==
  /\ InitRolling \in BOOLEAN
  /\ Inputs \subseteq InputKinds
  /\ Faults \subseteq FaultKinds
  /\ MaxInputs \in Nat
  /\ MaxFaults \in Nat

VARIABLES
  \* AppState, state.rs
  dictation_state,
  is_recording,
  hands_free_active,
  pending_listen,    \* the listen waiting for its recording to stop, 0 if none
  rolling_enabled,   \* config.rolling_transcription
  \* locals of run_coordinator
  hold,              \* HoldTracker
  rolling_in,        \* the take whose rolling worker we hold the sender of, or 0
  rolling_epoch,
  pending_rolling,   \* PendingRollingFinal, or NoPending
  \* channels
  inbox,             \* the unified CoordinatorMsg channel
  cmds,              \* AudioCommand channel
  \* other threads
  mic,               \* the audio worker: NoMic, or the recording under way
  timers,            \* hold-threshold threads
  rollers,           \* rolling-transcription workers with their forwarders
  jobs,              \* waiter threads: batch transcription and clean-up
  finishers,         \* threads spawned by finish_with, by phase
  \* environment
  key_held,          \* the hold key is physically down
  budget,            \* [inputs, faults] left
  \* history
  takes,
  listens

appVars   == <<dictation_state, is_recording, hands_free_active, pending_listen>>
localVars == <<hold, rolling_in, rolling_epoch, pending_rolling>>
envVars   == <<rolling_enabled, key_held, budget>>
threads   == <<timers, rollers, jobs, finishers>>
history   == <<takes, listens>>
vars == <<appVars, localVars, inbox, cmds, mic, threads, envVars, history>>

-----------------------------------------------------------------------------
(* Messages.  One record shape for every CoordinatorMsg variant; a field    *)
(* that a variant does not have keeps its neutral value.                    *)

Blank == [kind |-> "Blank", take |-> 0, epoch |-> 0, listen |-> 0,
          flag |-> FALSE, audio |-> FALSE, out |-> "none"]

Outcomes == {"none", "text", "empty", "error"}

MsgKinds == {"Blank",
  "HoldKeyPressed", "HoldKeyReleased", "OtherKeyDuringHold", "CancelRequested",
  "TrayToggleDictation", "DaemonListen",
  "Started", "Stopped", "Disconnected", "Cancelled", "NotRecording", "Error",
  "Final", "Late", "RollingWorkerLost", "TranscribeResult", "CleanupDone"}

Message == [kind: MsgKinds, take: Nat, epoch: Nat, listen: Nat,
            flag: BOOLEAN, audio: BOOLEAN, out: Outcomes]

Plain(k)        == [Blank EXCEPT !.kind = k]
DaemonListenMsg(l) == [Blank EXCEPT !.kind = "DaemonListen", !.listen = l]
\* audio: this take's samples are streamed (history: the worker knows it).
StartedMsg(t, r) == [Blank EXCEPT !.kind = "Started", !.take = t, !.audio = r]
\* flag: capped or auto-stopped; audio: `samples` is not empty.
StoppedMsg(t, auto, audio) ==
  [Blank EXCEPT !.kind = "Stopped", !.take = t, !.flag = auto, !.audio = audio]
\* flag: the duration is at least one second.
DisconnectedMsg(t, long, audio) ==
  [Blank EXCEPT !.kind = "Disconnected", !.take = t, !.flag = long, !.audio = audio]
CancelledMsg(t) == [Blank EXCEPT !.kind = "Cancelled", !.take = t]
FinalMsg(t, e, partial, o) ==
  [Blank EXCEPT !.kind = "Final", !.take = t, !.epoch = e, !.flag = partial, !.out = o]
LateMsg(t, e, o) ==
  [Blank EXCEPT !.kind = "Late", !.take = t, !.epoch = e, !.out = o]
LostMsg(t, e)   == [Blank EXCEPT !.kind = "RollingWorkerLost", !.take = t, !.epoch = e]
ResultMsg(t, l, o) ==
  [Blank EXCEPT !.kind = "TranscribeResult", !.take = t, !.listen = l, !.out = o]
CleanupDoneMsg(t, l) ==
  [Blank EXCEPT !.kind = "CleanupDone", !.take = t, !.listen = l]

(* AudioCommand.  `listen` is history: the daemon listen this Start is for. *)
StartCmd(r, l) == [kind |-> "Start", rolling |-> r, listen |-> l]
StopCmd   == [kind |-> "Stop",   rolling |-> FALSE, listen |-> 0]
CancelCmd == [kind |-> "Cancel", rolling |-> FALSE, listen |-> 0]
AudioCommand == [kind: {"Start", "Stop", "Cancel"}, rolling: BOOLEAN, listen: Nat]

Mic(t, r) == [on |-> TRUE,  take |-> t, rolling |-> r]
NoMic     == [on |-> FALSE, take |-> 0, rolling |-> FALSE]

Pending(t, e, l) == [waiting |-> TRUE,  take |-> t, epoch |-> e, listen |-> l]
NoPending        == [waiting |-> FALSE, take |-> 0, epoch |-> 0, listen |-> 0]

(* A HoldTracker; `tracker` tells the allocations of successive restarts    *)
(* apart, since a timer thread keeps the one it was spawned with.           *)
NewHold(n) == [tracker |-> n, key_down |-> FALSE, generation |-> 0,
               consumed |-> FALSE, other_key |-> FALSE]

-----------------------------------------------------------------------------
(* What becomes of a take.  While "capturing" or "captured" its words are   *)
(* owed to the user; "discarded" means thrown away on request, or too short *)
(* to keep; "settled" means pasted, returned, put on the clipboard, saved   *)
(* for recovery, or reported as empty or failed; "lost" means they went     *)
(* nowhere and nobody was told.                                             *)

Fates == {"capturing", "captured", "discarded", "settled", "lost"}

TakeRecord == [fate: Fates, listen: Nat, deliveries: Nat]

Resolve(ts, t, f) ==
  IF t \in DOMAIN ts /\ ts[t].fate = "captured"
  THEN [ts EXCEPT ![t].fate = f]
  ELSE ts

(* What a daemon listen was answered: the reply channel still open, an      *)
(* outcome made from take `take`, an error, or the sender dropped; `alone`: *)
(* nothing of another recording was under way when it was accepted.         *)
Answers == {"waiting", "ok", "err", "dropped"}

ListenRecord == [status: Answers, take: Nat, alone: BOOLEAN]

Answer(ls, l, a, t) ==
  IF l = 0 THEN ls
  ELSE [ls EXCEPT ![l] = [status |-> a, take |-> t, alone |-> ls[l].alone]]

-----------------------------------------------------------------------------
(* set_dictation_state keeps is_recording in step with the state.           *)
set_dictation_state(s) ==
  /\ dictation_state' = s
  /\ is_recording' = (s = "Recording")

DictationStates == {"Idle", "Recording", "Transcribing", "Done"}

TimerPhases == {"sleep", "held", "go"}
RollerPhases == {"live", "finish", "late"}

Init ==
  /\ dictation_state = "Idle"
  /\ is_recording = FALSE
  /\ hands_free_active = FALSE
  /\ pending_listen = 0
  /\ rolling_enabled = InitRolling
  /\ hold = NewHold(0)
  /\ rolling_in = 0
  /\ rolling_epoch = 0
  /\ pending_rolling = NoPending
  /\ inbox = <<>>
  /\ cmds = <<>>
  /\ mic = NoMic
  /\ timers = {}
  /\ rollers = {}
  /\ jobs = {}
  /\ finishers = [done |-> 0, idle |-> 0]
  /\ key_held = FALSE
  /\ budget = [inputs |-> MaxInputs, faults |-> MaxFaults]
  /\ takes = <<>>
  /\ listens = <<>>

(* A failure of kind f happens in this step.                                *)
Fault(f) ==
  /\ f \in Faults
  /\ budget.faults > 0
  /\ budget' = [budget EXCEPT !.faults = @ - 1]

TypeOK ==
  /\ dictation_state \in DictationStates
  /\ is_recording \in BOOLEAN
  /\ hands_free_active \in BOOLEAN
  /\ pending_listen \in Nat
  /\ rolling_enabled \in BOOLEAN
  /\ hold \in [tracker: Nat, key_down: BOOLEAN, generation: Nat,
             consumed: BOOLEAN, other_key: BOOLEAN]
  /\ rolling_in \in Nat
  /\ rolling_epoch \in Nat
  /\ pending_rolling \in [waiting: BOOLEAN, take: Nat, epoch: Nat, listen: Nat]
  /\ inbox \in Seq(Message)
  /\ cmds \in Seq(AudioCommand)
  /\ mic \in [on: BOOLEAN, take: Nat, rolling: BOOLEAN]
  /\ timers \subseteq [tracker: Nat, gen: Nat, phase: TimerPhases]
  /\ rollers \subseteq [take: Nat, epoch: Nat, audio: BOOLEAN, phase: RollerPhases]
  /\ jobs \subseteq [stage: {"asr", "clean"}, take: Nat, listen: Nat, audio: BOOLEAN]
  /\ finishers \in [done: Nat, idle: Nat]
  /\ key_held \in BOOLEAN
  /\ budget \in [inputs: Nat, faults: Nat]
  /\ takes \in Seq(TakeRecord)
  /\ listens \in Seq(ListenRecord)
=============================================================================
