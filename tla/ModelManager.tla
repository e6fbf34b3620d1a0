----------------------------- MODULE ModelManager -----------------------------
(***************************************************************************)
(* The thread that owns the speech model (flow-core/src/model_manager.rs):  *)
(* a serial queue of commands, a model loaded when first needed and        *)
(* dropped when idle or after a panic, a reply for every transcription.    *)
(* Its status events are forwarded into the `model_loading` flag that the  *)
(* rolling workers read (coordinator.rs); the forwarder's delay is within  *)
(* theirs, and an event sets the flag as it is sent.                       *)
(*                                                                         *)
(* A client waits on a reply channel of its own.  `replies` holds what     *)
(* those channels hold: the manager's answer, or "hungup" when the manager *)
(* died with the command in its hands and dropped the sender.              *)
(***************************************************************************)
EXTENDS Naturals, Sequences

CONSTANT MaxFaults   \* bound: failures of the engine in a behaviour

ASSUME ManagerAssumption == MaxFaults \in Nat

VARIABLES
  queue,           \* the ModelCommand channel
  serving,         \* the command in hand, or Nothing
  loaded,          \* model.is_some()
  running,         \* the thread is alive
  model_loading,   \* the last ModelStatusEvent is Loading
  replies,
  faults           \* failures left

managerVars == <<queue, serving, loaded, running, model_loading, replies, faults>>

Chunk(client, samples) ==
  [kind |-> "TranscribeChunk", client |-> client, samples |-> samples]
Warmup  == [kind |-> "Warmup",  client |-> <<>>, samples |-> <<>>]
Nothing == [kind |-> "Nothing", client |-> <<>>, samples |-> <<>>]

Answered(cmd, result, text) == [client |-> cmd.client, result |-> result, text |-> text]
Reply(cmd, result, text) == replies' = replies \cup {Answered(cmd, result, text)}

(* A ModelStatusEvent, as far as the forwarder keeps it.                    *)
Status(event) == model_loading' = (event = "Loading")

Fails == faults > 0 /\ faults' = faults - 1

(* A recording starts by asking for the model (start_recording), if it has  *)
(* the manager's sender.                                                    *)
ManagerInit ==
  /\ queue \in {<<>>, <<Warmup>>} /\ serving = Nothing /\ running = TRUE
  /\ loaded \in BOOLEAN
  /\ model_loading = FALSE
  /\ replies = {}
  /\ faults = MaxFaults

-----------------------------------------------------------------------------
Serving(kind) == running /\ serving.kind = kind
Idle == Serving("Nothing")
Transcribing == Serving("TranscribeChunk") /\ loaded

(* The next command.  One that finds no model begins the load; a warm-up    *)
(* that finds one is over.                                                  *)
TakeCommand ==
  /\ Idle /\ queue # <<>>
  /\ queue' = Tail(queue)
  /\ serving' = IF loaded /\ Head(queue) = Warmup THEN Nothing ELSE Head(queue)
  /\ IF loaded THEN UNCHANGED model_loading ELSE Status("Loading")
  /\ UNCHANGED <<loaded, running, replies, faults>>

Loading == running /\ serving # Nothing /\ ~loaded

LoadSucceeds ==
  /\ Loading
  /\ loaded' = TRUE
  /\ Status("Loaded")
  /\ serving' = IF serving = Warmup THEN Nothing ELSE serving
  /\ UNCHANGED <<queue, running, replies, faults>>

(* The command is answered with the load's error; the next one loads again. *)
LoadFails ==
  /\ Loading /\ Fails
  /\ Status("LoadFailed")
  /\ IF serving = Warmup THEN UNCHANGED replies ELSE Reply(serving, "err", <<>>)
  /\ serving' = Nothing
  /\ UNCHANGED <<queue, loaded, running>>

(* Loading is not inside catch_unwind: a panic there ends the thread, and   *)
(* the command in hand and those queued lose their reply channels.          *)
LoadPanics ==
  /\ Loading /\ Fails
  /\ running' = FALSE
  /\ LET lost == {serving} \cup {queue[i] : i \in DOMAIN queue}
     IN  replies' = replies \cup {Answered(c, "hungup", <<>>) : c \in lost \ {Warmup}}
  /\ queue' = <<>> /\ serving' = Nothing
  /\ UNCHANGED <<loaded, model_loading>>

(* The engine answers: with words, with nothing, or with an error.          *)
Transcribed(result, text) ==
  /\ Transcribing
  /\ Reply(serving, result, text)
  /\ serving' = Nothing
  /\ UNCHANGED <<queue, loaded, running, model_loading>>

(* A panic in inference drops the model, so that the next command reloads.  *)
InferencePanics ==
  /\ Transcribing /\ Fails
  /\ Reply(serving, "err", <<>>)
  /\ loaded' = FALSE /\ serving' = Nothing
  /\ UNCHANGED <<queue, running, model_loading>>

(* Nothing came for the idle timeout.                                       *)
IdleUnload ==
  /\ Idle /\ queue = <<>> /\ loaded
  /\ loaded' = FALSE
  /\ Status("Unloaded")
  /\ UNCHANGED <<queue, serving, running, replies>>
=============================================================================
