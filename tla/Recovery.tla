------------------------------- MODULE Recovery -------------------------------
(***************************************************************************)
(* The saved recording and its transcription (flow-core/src/recovery.rs,   *)
(* spawn_recovery in coordinator.rs), with the model manager it shares     *)
(* with live dictation.                                                    *)
(*                                                                         *)
(* A recording is a sequence of units as in module Chunking.  The thread   *)
(* sends one chunk at a time and waits for its answer or a timeout; a      *)
(* command given up on stays in the manager's queue and its answer goes to *)
(* a channel nobody reads.                                                 *)
(***************************************************************************)
EXTENDS Chunking, ModelManager, FiniteSets

CONSTANTS
  Recordings,    \* the recordings that may be saved
  MaxAsks,       \* bound: clicks on "Recover last recording"
  MaxSaves,      \* bound: recordings saved
  MaxLive        \* bound: chunks of live dictation

ASSUME RecoveryAssumption ==
  MaxAsks \in Nat /\ MaxSaves \in Nat /\ MaxLive \in Nat

VARIABLES
  last_wav,      \* what last.wav holds, or <<>>: no file
  tmp,           \* last.wav.tmp: the recording being written, or <<>>
  RECOVERY_RUNNING,
  thread,        \* the recovery thread
  asks, saves, live,
  reported,      \* history: what the last recovery said
  mute           \* history: words the engine returned nothing for

recoveryVars == <<last_wav, tmp, RECOVERY_RUNNING, thread, asks, saves, live, reported,
                  mute, managerVars>>

(* The thread: at a stage, with the samples read and the plan of their      *)
(* chunks, the chunk it is at, the attempt, what was heard so far and how   *)
(* many chunks failed.                                                      *)
NoThread == [stage |-> "off", run |-> 0, samples |-> <<>>, plans |-> <<>>, at |-> 0, attempt |-> 0, heard |-> <<>>,
             failed |-> 0]
Nothing_said == [kind |-> "none", samples |-> <<>>, text |-> <<>>, failed |-> 0]

(* Mutant: one channel for the whole recovery.                              *)
OneChannel == <<thread.run, 0, 0>>

Client == <<thread.run, thread.at, thread.attempt>>   \* a channel for each attempt
LiveClient == <<0, 0, 0>>

RecoveryInit ==
  /\ ManagerInit
  /\ last_wav \in Recordings \cup {<<>>} /\ tmp = <<>>
  /\ RECOVERY_RUNNING = FALSE /\ thread = NoThread
  /\ asks = 0 /\ saves = 0 /\ live = 0
  /\ reported = Nothing_said /\ mute = {}

diskFrame == <<last_wav, tmp, saves>>

-----------------------------------------------------------------------------
(* save_last_recording, on the coordinator's thread: a file beside the      *)
(* recording, renamed over it.                                              *)
WriteTmp ==
  /\ tmp = <<>> /\ saves < MaxSaves
  /\ tmp' \in Recordings /\ saves' = saves + 1
  /\ UNCHANGED <<last_wav, RECOVERY_RUNNING, thread, asks, live, reported, mute,
                 managerVars>>

RenameTmp ==
  /\ tmp # <<>>
  /\ last_wav' = tmp /\ tmp' = <<>>
  /\ UNCHANGED <<saves, RECOVERY_RUNNING, thread, asks, live, reported, mute, managerVars>>

(* A write that fails leaves the recording of before.                       *)
WriteFails ==
  /\ tmp # <<>> /\ Fails
  /\ tmp' = <<>>
  /\ UNCHANGED <<last_wav, saves, RECOVERY_RUNNING, thread, asks, live, reported, mute,
                 queue, serving, loaded, running, model_loading, replies>>

-----------------------------------------------------------------------------
(* spawn_recovery.                                                          *)

Recover ==
  /\ asks < MaxAsks /\ asks' = asks + 1
  /\ IF RECOVERY_RUNNING THEN UNCHANGED <<RECOVERY_RUNNING, thread>>
     ELSE RECOVERY_RUNNING' = TRUE /\ thread' = [NoThread EXCEPT !.stage = "read", !.run = asks']
  /\ UNCHANGED <<diskFrame, live, reported, mute, managerVars>>

(* Mutant: the flag stays up after an error.                                *)
KeepFlag(kind, samples, text, failed) ==
  /\ reported' = [kind |-> kind, samples |-> samples, text |-> text, failed |-> failed]
  /\ RECOVERY_RUNNING' = (kind = "error")
  /\ thread' = NoThread

(* The thread says how it went and gives up the flag.                       *)
Report(kind, samples, text, failed) ==
  /\ reported' = [kind |-> kind, samples |-> samples, text |-> text, failed |-> failed]
  /\ RECOVERY_RUNNING' = FALSE
  /\ thread' = NoThread

NoRecording ==
  /\ thread.stage = "read" /\ last_wav = <<>>
  /\ Report("error", <<>>, <<>>, 0)
  /\ UNCHANGED <<diskFrame, asks, live, mute, managerVars>>

ReadRecording ==
  /\ thread.stage = "read" /\ last_wav # <<>>
  /\ thread' = [thread EXCEPT !.stage = "send", !.samples = last_wav,
                           !.plans = PlanChunks(last_wav), !.at = 1]
  /\ UNCHANGED <<RECOVERY_RUNNING, reported, diskFrame, asks, live, mute, managerVars>>

-----------------------------------------------------------------------------
(* transcribe_paced_with.                                                   *)

SendRecoveryChunk ==
  /\ thread.stage = "send" /\ thread.at <= Len(thread.plans)
  /\ running
  /\ queue' = Append(queue, Chunk(Client, Span(thread.samples, thread.plans[thread.at])))
  /\ thread' = [thread EXCEPT !.stage = "wait"]
  /\ UNCHANGED <<RECOVERY_RUNNING, reported, diskFrame, asks, live, mute,
                 serving, loaded, running, model_loading, replies, faults>>

NotRunning ==
  /\ thread.stage = "send" /\ thread.at <= Len(thread.plans)
  /\ ~running
  /\ Report("error", thread.samples, <<>>, 0)
  /\ UNCHANGED <<diskFrame, asks, live, mute, managerVars>>

(* The next chunk, `text` being what was heard of this one.                 *)
NextChunk(text, failed) ==
  thread' = [thread EXCEPT !.stage = "send", !.at = @ + 1, !.attempt = 0,
                           !.heard = Append(@, text), !.failed = @ + failed]

TryAgain ==
  IF thread.attempt = 0 THEN thread' = [thread EXCEPT !.stage = "send", !.attempt = 1]
                        ELSE NextChunk(<<>>, 1)

(* recv_timeout: the answer of this attempt's own channel.                  *)
Answers(r) == thread.stage = "wait" /\ r.client = Client

RecoveryHeard ==
  \E r \in replies :
    /\ Answers(r) /\ r.result \in {"text", "empty"}
    /\ NextChunk(r.text, 0)
    /\ replies' = replies \ {r}
    /\ UNCHANGED <<RECOVERY_RUNNING, reported, diskFrame, asks, live, mute,
                   queue, serving, loaded, running, model_loading, faults>>

RecoveryErred ==
  \E r \in replies :
    /\ Answers(r) /\ r.result \in {"err", "hungup"}
    /\ TryAgain
    /\ replies' = replies \ {r}
    /\ UNCHANGED <<RECOVERY_RUNNING, reported, diskFrame, asks, live, mute,
                   queue, serving, loaded, running, model_loading, faults>>

RecoveryTimesOut ==
  /\ thread.stage = "wait" /\ ~\E r \in replies : Answers(r)
  /\ TryAgain
  /\ UNCHANGED <<RECOVERY_RUNNING, reported, diskFrame, asks, live, mute, managerVars>>

Recovered ==
  /\ thread.stage = "send" /\ thread.at > Len(thread.plans)
  /\ LET text == Assemble(thread.plans, thread.heard)
     IN  Report(IF text = <<>> THEN "no-speech" ELSE "recovered", thread.samples, text,
                thread.failed)
  /\ UNCHANGED <<diskFrame, asks, live, mute, managerVars>>

(* A panic of the thread leaves the flag as it is.                          *)
RecoveryPanics ==
  /\ thread.stage # "off" /\ Fails
  /\ thread' = NoThread
  /\ reported' = [Nothing_said EXCEPT !.kind = "panic"]
  /\ UNCHANGED <<RECOVERY_RUNNING, diskFrame, asks, live, mute, queue, serving, loaded,
                 running, model_loading, replies>>

-----------------------------------------------------------------------------
(* The rest of the program: live dictation's chunks, the manager, and the   *)
(* end of the process, which only files survive.                            *)

LiveChunk ==
  /\ live < MaxLive /\ running
  /\ live' = live + 1
  /\ queue' = Append(queue, Chunk(LiveClient, <<Quiet>>))
  /\ UNCHANGED <<RECOVERY_RUNNING, thread, reported, diskFrame, asks, mute,
                 serving, loaded, running, model_loading, replies, faults>>

restFrame == <<last_wav, tmp, RECOVERY_RUNNING, thread, asks, saves, live, reported>>

RecoveryEngine ==
  \/ /\ \/ TakeCommand \/ LoadSucceeds \/ LoadFails \/ LoadPanics \/ InferencePanics
     /\ UNCHANGED <<restFrame, mute>>
  \/ /\ LET words == Words(serving.samples)
        IN  Transcribed(IF words = <<>> THEN "empty" ELSE "text", words)
     /\ UNCHANGED <<faults, restFrame, mute>>
  \/ /\ Fails /\ Transcribed("err", <<>>) /\ UNCHANGED <<restFrame, mute>>
  \/ /\ Fails /\ Transcribed("empty", <<>>)
     /\ mute' = mute \cup ToSet(Words(serving.samples))
     /\ UNCHANGED restFrame

Restart ==
  /\ Fails
  /\ RECOVERY_RUNNING' = FALSE /\ thread' = NoThread /\ reported' = Nothing_said
  /\ tmp' = <<>>    \* a file of this name is created anew by the next save
  /\ queue' = <<>> /\ serving' = Nothing /\ loaded' = FALSE /\ running' = TRUE
  /\ model_loading' = FALSE /\ replies' = {}
  /\ UNCHANGED <<last_wav, saves, asks, live, mute>>

RecoveryRuns == \/ NoRecording \/ ReadRecording \/ SendRecoveryChunk \/ NotRunning
                \/ RecoveryHeard \/ RecoveryErred \/ RecoveryTimesOut \/ Recovered

RecoveryNext == \/ WriteTmp \/ RenameTmp \/ WriteFails \/ Recover \/ RecoveryRuns
                \/ RecoveryPanics \/ LiveChunk \/ RecoveryEngine \/ Restart
=============================================================================
