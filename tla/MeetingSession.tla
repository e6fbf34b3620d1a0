---------------------------- MODULE MeetingSession ----------------------------
(***************************************************************************)
(* One meeting session (run of flow-core/src/meeting/mod.rs): a source per *)
(* speaker, each with a StreamingChunker (meeting/transcriber.rs), one     *)
(* worker that transcribes the chunks in the order they came and drops     *)
(* echoes (meeting/dedup.rs), and the summary at the end.  The system      *)
(* source runs on the session's own thread, the microphone on another.     *)
(* A unit of time is one analysis frame.                                   *)
(***************************************************************************)
EXTENDS Integers, Sequences, FiniteSets

CONSTANTS
  MaxFrames,     \* CHUNK_MAX_SECS, in frames
  HoldFrames,    \* SILENCE_HOLD_SECS, in frames
  RetainFrames,  \* DEDUP_RETAIN_SECS, in frames
  SummaryLines,  \* SUMMARY_MAX_CHARS, in lines
  Levels,        \* Levels[source]: the loudness its frames may have
  MaxHeard,      \* Bound: frames a source delivers
  MaxDelay       \* Bound: frames sounded that were not handed on yet

Sources == {"Them", "Me"}

ASSUME MeetingSessionAssumption ==
  /\ {MaxFrames, HoldFrames, SummaryLines} \subseteq Nat \ {0}
  /\ {RetainFrames, MaxDelay} \subseteq Nat
  /\ \A s \in Sources : Levels[s] \subseteq {"speech", "band", "silence"}
  /\ MaxHeard \in [Sources -> Nat]

VARIABLES
  stop,      \* the stop flag the handle shares with the session
  phase,     \* the session's thread
  mic,       \* the microphone's thread
  heard,     \* the loudness of the frames each source was handed
  opened,    \* history: when each source's stream was opened
  chunker,   \* StreamingChunker of each source
  queue,     \* flush_tx: the chunks the worker has not taken
  worker,    \* the transcription worker
  recent,    \* its echo history
  lines,     \* the transcript: the lines of TranscriptWriter
  lost,      \* history: chunks that gave no line, and why
  summary    \* what summarize_into_file appended

sessionVars ==
  <<stop, phase, mic, heard, opened, chunker, queue, worker, recent, lines, lost, summary>>

(* StreamingChunker::new.  The buffer holds the numbers of its frames, and  *)
(* elapsed is the number of frames heard.                                   *)
NewChunker == [buffer |-> << >>, has_speech |-> FALSE, trailing_silence |-> 0, start |-> 0]

SessionInit ==
  /\ stop = FALSE /\ phase = "starting" /\ mic = "none"
  /\ heard = [s \in Sources |-> << >>]
  /\ opened = [s \in Sources |-> 0]
  /\ chunker = [s \in Sources |-> NewChunker]
  /\ queue = << >> /\ worker = "none" /\ recent = << >>
  /\ lines = << >> /\ lost = {} /\ summary = "none"

-----------------------------------------------------------------------------
(* StreamingChunker.                                                        *)

(* should_flush_chunk: the cap, or speech and then a pause.                 *)
ShouldFlushChunk(c) ==
  \/ Len(c.buffer) >= MaxFrames
  \/ (c.has_speech /\ c.trailing_silence >= HoldFrames)

(* take_chunk: what it yields, and the chunker it leaves.                   *)
Chunk(source, c) ==
  [source |-> source, frames |-> c.buffer, start |-> c.start, has_speech |-> c.has_speech]
(* Mutant: only the buffer is taken.                                        *)
BufferTaken(c, elapsed) == [c EXCEPT !.buffer = << >>, !.start = elapsed]
(* Mutant: the start offset is not moved on.                                *)
StaleOffset(c, elapsed) == [NewChunker EXCEPT !.start = c.start]
Taken(c, elapsed) == [NewChunker EXCEPT !.start = elapsed]

(* push_frame: leading silence only moves the clock; other frames are kept, *)
(* those between the two thresholds without a say in the silence.           *)
PushFrame(c, level, frame) ==
  IF c.buffer = << >> /\ ~c.has_speech /\ level # "speech"
  THEN [c EXCEPT !.start = frame]
  ELSE [c EXCEPT !.buffer = Append(@, frame),
                 !.has_speech = @ \/ level = "speech",
                 !.trailing_silence =
                    CASE level = "speech" -> 0
                      [] level = "silence" -> @ + 1
                      [] level = "band" -> @]

(* A source's loop: one frame, and the chunk it closes, if any; a send to a *)
(* worker that is gone is ignored by the system source (it breaks out of    *)
(* the loop over the chunks only) and ends the microphone's.                *)
Hear(source) ==
  \E level \in Levels[source] :
    LET frame == Len(heard[source]) + 1
        pushed == PushFrame(chunker[source], level, frame)
        flush == pushed.buffer # << >> /\ ShouldFlushChunk(pushed)
    IN  /\ Len(heard[source]) < MaxHeard[source]
        /\ heard' = [heard EXCEPT ![source] = Append(@, level)]
        /\ chunker' = [chunker EXCEPT ![source] = IF flush THEN Taken(pushed, frame) ELSE pushed]
        /\ queue' = IF flush /\ worker # "dead" THEN Append(queue, Chunk(source, pushed)) ELSE queue
        /\ mic' = IF source = "Me" /\ flush /\ worker = "dead" THEN "gone" ELSE mic

(* flush: the tail, when the source stops.  It is of whole frames: the      *)
(* samples of one that is not full yet (frame_accum) are left behind.       *)
FlushTail(source) ==
  /\ queue' = IF chunker[source].buffer # << >> /\ worker # "dead"
              THEN Append(queue, Chunk(source, chunker[source])) ELSE queue
  /\ chunker' = [chunker EXCEPT ![source] =
       IF @.buffer = << >> THEN @ ELSE Taken(@, Len(heard[source]))]

-----------------------------------------------------------------------------
(* The session's thread.                                                    *)

StopRequested ==
  /\ ~stop /\ stop' = TRUE
  /\ UNCHANGED <<phase, mic, heard, opened, chunker, queue, worker, recent, lines, lost, summary>>

(* run returns before the worker exists: no directory, file or model.       *)
StartFails ==
  /\ phase = "starting" /\ phase' = "failed"
  /\ UNCHANGED <<stop, mic, heard, opened, chunker, queue, worker, recent, lines, lost, summary>>
StartThreads ==
  /\ phase = "starting" /\ phase' = "opening"
  /\ worker' = "idle" /\ mic' = "opening"
  /\ UNCHANGED <<stop, heard, opened, chunker, queue, recent, lines, lost, summary>>
(* The microphone's thread cannot be spawned: run returns, and the senders  *)
(* go with it, which ends the worker.                                       *)
NoMicThread ==
  /\ phase = "starting" /\ phase' = "failed" /\ worker' = "idle"
  /\ UNCHANGED <<stop, mic, heard, opened, chunker, queue, recent, lines, lost, summary>>

(* A stream is opened, and its source counts the frames from there: the     *)
(* code reads no clock the two share.  In common time, the first to open    *)
(* opens at 0, the other when what the first was handed has been sounded.   *)
Opens(source, other, other_open) ==
  \E instant \in IF other_open THEN Len(heard[other])..Len(heard[other]) + MaxDelay ELSE {0} :
    opened' = [opened EXCEPT ![source] = instant]

(* SystemAudioCapture::start.  Without system audio the session ends.       *)
CaptureStarts ==
  /\ phase = "opening"
  /\ \/ phase' = "capturing" /\ Opens("Them", "Me", mic # "opening") /\ UNCHANGED stop
     \/ phase' = "joining_mic" /\ stop' = TRUE /\ UNCHANGED opened
  /\ UNCHANGED <<mic, heard, chunker, queue, worker, recent, lines, lost, summary>>
SystemHears ==
  /\ phase = "capturing" /\ Hear("Them")
  /\ UNCHANGED <<stop, phase, opened, worker, recent, lines, lost, summary>>

(* The loop ends: the flag, or the capture is gone (Disconnected).  run     *)
(* then raises the flag itself.                                             *)
SystemStops(disconnected) ==
  /\ phase = "capturing" /\ (stop \/ disconnected)
  /\ FlushTail("Them") /\ stop' = TRUE /\ phase' = "joining_mic"
  /\ UNCHANGED <<mic, heard, opened, worker, recent, lines, lost, summary>>

(* mic.join, then drop(flush_tx) and worker.join.                           *)
JoinMic ==
  /\ phase = "joining_mic" /\ mic = "gone" /\ phase' = "joining_worker"
  /\ UNCHANGED <<stop, mic, heard, opened, chunker, queue, worker, recent, lines, lost, summary>>
JoinWorker ==
  /\ phase = "joining_worker" /\ worker \in {"gone", "dead"} /\ phase' = "summarizing"
  /\ UNCHANGED <<stop, mic, heard, opened, chunker, queue, worker, recent, lines, lost, summary>>

(* summarize_into_file: nothing of an empty transcript; no model, no text   *)
(* or an error leave the transcript as it is.  truncate_for_summary keeps   *)
(* the end of a long one.                                                   *)
Summarize ==
  /\ phase = "summarizing" /\ phase' = "saved"
  /\ \/ UNCHANGED summary
     \/ /\ lines # << >>
        /\ summary' = IF Len(lines) <= SummaryLines THEN "whole" ELSE "tail"
  /\ UNCHANGED <<stop, mic, heard, opened, chunker, queue, worker, recent, lines, lost>>

-----------------------------------------------------------------------------
(* The microphone's thread.                                                 *)

MicOpens ==
  /\ mic = "opening"
  /\ \/ mic' = "on" /\ Opens("Me", "Them", phase # "opening")
     \/ mic' = "gone" /\ UNCHANGED opened
  /\ UNCHANGED <<stop, phase, heard, chunker, queue, worker, recent, lines, lost, summary>>
MicHears ==
  /\ mic = "on" /\ Hear("Me")
  /\ UNCHANGED <<stop, phase, opened, worker, recent, lines, lost, summary>>
(* Mutant: the tail is not flushed.                                         *)
MicLeaves(disconnected) ==
  /\ mic = "on" /\ (stop \/ disconnected)
  /\ UNCHANGED <<queue, chunker>> /\ mic' = "gone"
  /\ UNCHANGED <<stop, phase, heard, opened, worker, recent, lines, lost, summary>>
MicStops(disconnected) ==
  /\ mic = "on" /\ (stop \/ disconnected)
  /\ FlushTail("Me") /\ mic' = "gone"
  /\ UNCHANGED <<stop, phase, heard, opened, worker, recent, lines, lost, summary>>

-----------------------------------------------------------------------------
(* The transcription worker.                                                *)

End(chunk) == chunk.start + Len(chunk.frames)

(* What the engine may hear: the microphone picks up the user's own words   *)
(* or, without headphones, the others'.                                     *)
Texts == [Them |-> {"their words", "yeah"}, Me |-> {"their words", "own words", "yeah"}]

(* time_overlaps, of two half-open intervals.                               *)
TimeOverlaps(a, b) == a.start < b.end /\ b.start < a.end

(* is_echo: the same words (Jaccard above the threshold), and no short      *)
(* answer (MIN_TOKENS_FOR_ECHO).                                            *)
IsEcho(me, them) == me = them /\ me # "yeah"
Echo(line, history) ==
  \E i \in DOMAIN history :
    /\ history[i].source = "Them" /\ TimeOverlaps(line, history[i])
    /\ IsEcho(line.text, history[i].text)

(* The front of the history that is older than DEDUP_RETAIN_SECS.           *)
Pruned(line) ==
  LET old == {n \in 0..Len(recent) : \A i \in 1..n : recent[i].end < line.start - RetainFrames}
  IN  SubSeq(recent, Cardinality(old), Len(recent))

Line(chunk, text) ==
  [source |-> chunk.source, start |-> chunk.start, end |-> End(chunk), text |-> text,
   frames |-> chunk.frames]

(* transcription_worker, for one chunk.  The engine may hear nothing or     *)
(* fail, which skips the chunk; an echo of a line that was already written  *)
(* is dropped; every other line is written and remembered.                  *)
Skips(chunk) == lost' = lost \cup {Line(chunk, "")} /\ UNCHANGED <<recent, lines>>
Writes(line) ==
  /\ recent' = IF line.source = "Me" /\ Echo(line, Pruned(line)) THEN Pruned(line)
                                                                ELSE Append(Pruned(line), line)
  /\ IF line.source = "Me" /\ Echo(line, Pruned(line))
     THEN lost' = lost \cup {line} /\ UNCHANGED lines
     ELSE lines' = Append(lines, line) /\ UNCHANGED lost
WorkerTranscribes ==
  /\ worker = "idle" /\ queue # << >> /\ queue' = Tail(queue)
  /\ \/ Skips(Head(queue))
     \/ Head(queue).has_speech /\ \E text \in Texts[Head(queue).source] : Writes(Line(Head(queue), text))
  /\ UNCHANGED <<stop, phase, mic, heard, opened, chunker, worker, summary>>

(* The engine panics, and with the worker goes the receiver.                *)
WorkerPanics ==
  /\ worker = "idle" /\ queue # << >>
  /\ worker' = "dead" /\ queue' = << >>
  /\ UNCHANGED <<stop, phase, mic, heard, opened, chunker, recent, lines, lost, summary>>

(* Every sender is gone and what they sent is done.                         *)
(* Mutant: the worker's channel is only dropped after it was joined.        *)
SendersKept == phase = "summarizing"
SendersGone == phase = "failed" \/ (phase = "joining_worker" /\ mic = "gone")
WorkerLeaves ==
  /\ worker = "idle" /\ queue = << >> /\ SendersGone
  /\ worker' = "gone"
  /\ UNCHANGED <<stop, phase, mic, heard, opened, chunker, queue, recent, lines, lost, summary>>

-----------------------------------------------------------------------------
SessionRuns ==
  \/ StartFails \/ StartThreads \/ NoMicThread \/ CaptureStarts \/ SystemStops(FALSE)
  \/ JoinMic \/ JoinWorker \/ Summarize
MicRuns == MicOpens \/ MicStops(FALSE)
WorkerRuns == WorkerTranscribes \/ WorkerPanics \/ WorkerLeaves
Outside == StopRequested \/ SystemHears \/ MicHears \/ SystemStops(TRUE) \/ MicStops(TRUE)
SessionNext == SessionRuns \/ MicRuns \/ WorkerRuns \/ Outside
=============================================================================
