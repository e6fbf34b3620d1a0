--------------------------- MODULE MeetingProperties --------------------------
(***************************************************************************)
(* What a meeting's transcript promises.  Sessions are started and stopped *)
(* (module MeetingControl), and each runs as MeetingSession says; control  *)
(* sees of a session only that its thread returns once it is stopped, so a *)
(* behaviour is one of one of the two, chosen at the start.                *)
(***************************************************************************)
EXTENDS MeetingControl, MeetingSession

VARIABLE focus

MeetingInit ==
  /\ focus \in {"control", "session"} /\ ControlInit /\ SessionInit
  /\ (focus = "session" => setting.mode = "off")

OfControl == focus = "control" /\ ControlNext /\ UNCHANGED <<focus, sessionVars>>
OfSession == focus = "session" /\ SessionNext /\ UNCHANGED <<focus, controlVars>>

(* The detector's thread and the joining threads are never blocked for      *)
(* good, and a session that was told to stop ends (StopIsAnswered).         *)
ControlFairness ==
  /\ WF_controlVars(focus = "control" /\ DetectorRuns)
  /\ WF_controlVars(focus = "control" /\ ToggleActs)
  /\ \A s \in 1..MaxSessions :
       /\ WF_controlVars(focus = "control" /\ s \in DOMAIN sessions /\ JoinerSignals(s))
       /\ WF_controlVars(focus = "control" /\ s \in DOMAIN sessions /\ sessions[s].stop
                                          /\ SessionReturns(s))

(* Each of a session's three threads runs on; a loop looks at the flag at   *)
(* least every 100 ms (recv_timeout), and the engine answers.               *)
SessionFairness ==
  /\ WF_sessionVars(focus = "session" /\ SessionRuns)
  /\ WF_sessionVars(focus = "session" /\ MicRuns)
  /\ WF_sessionVars(focus = "session" /\ WorkerRuns)

MeetingSpec ==
  /\ MeetingInit /\ [][OfControl \/ OfSession]_<<focus, controlVars, sessionVars>>
  /\ ControlFairness /\ SessionFairness

-----------------------------------------------------------------------------
ControlTypeOK ==
  /\ setting.mode \in {"off", "ask", "auto"} /\ setting.permitted \in BOOLEAN
  /\ debouncer.in_meeting \in BOOLEAN /\ debouncer.positive_streak \in 0..StartPolls-1
  /\ debouncer.absent_streak \in 0..EndPolls-1
  /\ detector.stage \in {"sleep", "poll", "started", "start", "ended", "stop"}
  /\ tray \in {"none", "start", "stop"}
  /\ Len(sessions) <= MaxSessions /\ slot \in 0..Len(sessions)

SessionTypeOK ==
  /\ stop \in BOOLEAN /\ mic \in {"none", "opening", "on", "gone"}
  /\ phase \in {"starting", "failed", "opening", "capturing", "joining_mic", "joining_worker",
                "summarizing", "saved"}
  /\ worker \in {"none", "idle", "gone", "dead"} /\ summary \in {"none", "whole", "tail"}
  /\ \A s \in Sources : /\ opened[s] \in Nat
                        /\ Len(chunker[s].buffer) < MaxFrames
                        /\ chunker[s].start \in 0..Len(heard[s])
                        /\ chunker[s].trailing_silence \in 0..HoldFrames-1
  /\ \A i \in DOMAIN queue : queue[i].source \in Sources /\ queue[i].has_speech
  /\ \A i \in DOMAIN lines : lines[i].text \in Texts[lines[i].source]
  /\ \A i \in DOMAIN recent : \E j \in DOMAIN lines : recent[i] = lines[j]

(* Type invariant of sessions and their control; a chunk has speech in it   *)
(* (leading silence is not buffered), and the echo history is of lines that *)
(* are in the transcript.                                                   *)
MeetingTypeOK == ControlTypeOK /\ SessionTypeOK

(* A session that runs can be stopped: its handle is kept, or a thread that *)
(* stops it has it (start must not replace the handle of a session that     *)
(* runs, and stop must hand on the one it takes).                           *)
NoOrphanSession ==
  \A s \in DOMAIN sessions : sessions[s].running => (slot = s \/ sessions[s].joiner)

(* "The detector's Ended will stop it later": a session that the detector   *)
(* started ends when its meeting's window is gone, unless the window comes  *)
(* back, the mode is turned off or the titles can no longer be read.        *)
Automatic == {s \in {slot} \ {0} : sessions[s].running /\ sessions[s].automatic}
Returned == {s \in DOMAIN sessions : ~sessions[s].running}
Watched == setting.mode # "off" /\ setting.permitted /\ ~screen.window
AutoSessionEnds ==
  \A s \in 1..MaxSessions :
    (s \in Automatic /\ debouncer.in_meeting /\ Watched) ~> (s \in Returned \/ ~Watched)

-----------------------------------------------------------------------------
Holds(frames, f) == \E i \in DOMAIN frames : frames[i] = f
Places(s, f) ==
  {<<"queue", i>> : i \in {i \in DOMAIN queue : queue[i].source = s /\ Holds(queue[i].frames, f)}}
  \cup {<<"lines", i>> : i \in {i \in DOMAIN lines : lines[i].source = s /\ Holds(lines[i].frames, f)}}
  \cup {<<"lost", l>> : l \in {l \in lost : l.source = s /\ Holds(l.frames, f)}}
EverySpeechFrame ==
  worker # "dead" =>
    \A s \in Sources : \A f \in DOMAIN heard[s] : heard[s][f] = "speech" =>
      IF Holds(chunker[s].buffer, f)
      THEN phase # "saved" /\ Places(s, f) = {}
      ELSE Cardinality(Places(s, f)) = 1
InOrder ==
  \A i, j \in DOMAIN lines :
    i < j /\ lines[i].source = lines[j].source => lines[i].end <= lines[j].start

(* Each frame of speech is in the buffer, in one chunk that waits, or in one*)
(* that was transcribed, once, and in the order it was spoken: none is lost *)
(* between chunks, at the cap, or when the sources stop.                    *)
NothingUnheard == EverySpeechFrame /\ InOrder

(* In common time, frame f of a source is sounded opened[s] + f.            *)
At(s, f) == opened[s] + f
Lag == opened["Me"] - opened["Them"]
Apart(mine, theirs, d) ==
  \E i \in DOMAIN mine.frames, j \in DOMAIN theirs.frames :
    At("Me", mine.frames[i]) = At("Them", theirs.frames[j]) + d
Said(line, d) ==
  \E i \in DOMAIN lines :
    lines[i].source = "Them" /\ lines[i].text = line.text /\ Apart(line, lines[i], d)
Echoes == {l \in lost : l.text # ""}

(* A line of the user's is only dropped as an echo when the same words of   *)
(* the others, at the same offset of their own recording, are in the        *)
(* transcript: words said as far apart as the two streams were opened,      *)
(* which is at once only if these were (time_overlaps compares offsets).    *)
EchoWasSaid ==
  \A l \in Echoes : l.source = "Me" /\ l.text # "yeah" /\ Said(l, Lag)

(* "Chunks that actually coincide with the Me chunk in wall-clock time"     *)
(* (dedup.rs:78-82): the others' words were said while the user's were.     *)
(* The code does not keep it (README, What does not hold).                  *)
EchoesCoincide == \A l \in Echoes : Said(l, 0)

(* A session that is told to stop ends, whatever its threads are doing, and *)
(* with a worker that is gone too.                                          *)
StopIsAnswered == stop ~> phase \in {"saved", "failed"}
=============================================================================
