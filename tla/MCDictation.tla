----------------------------- MODULE MCDictation -----------------------------
(***************************************************************************)
(* Scopes for model checking Dictation.  A behaviour is bounded by the     *)
(* number of inputs sent (MaxInputs) and of failures (MaxFaults); the runs *)
(* choose which kinds of each may occur.                                   *)
(***************************************************************************)
EXTENDS DictationProperties

(* Recordings started from the tray or over the socket.                     *)
VoiceInputs == {"tray", "listen", "cancel", "esc"}
VoiceFaults == {"open", "missing", "engine", "worker"}

(* Recordings started with the hold key.                                    *)
HoldInputs == {"hold", "chord", "esc"}
NoFaults == {}

(* Failures that discard what the coordinator knows.                        *)
RoughInputs == {"tray", "listen", "config"}
RoughFaults == {"lost", "panic", "manager", "engine"}

(* A hold and an Escape, for EscapeCancels.                                 *)
EscapeInputs == {"hold", "esc"}

(* One failure each, for the runs that show a disagreement.                 *)
TrayOnly   == {"tray"}
MicFails   == {"open"}
WorkerDies == {"early"}
Panic      == {"panic"}
=============================================================================
