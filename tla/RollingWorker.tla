---------------------------- MODULE RollingWorker ----------------------------
(***************************************************************************)
(* Transcription while recording (flow-core/src/rolling.rs): the worker    *)
(* thread of one recording with the model manager it shares and the        *)
(* forwarder threads that carry each answer back.                          *)
(*                                                                         *)
(* The audio is a sequence of units as in module Chunking; a new unit is   *)
(* a word never said before, or Quiet, unless Repeats says that words may  *)
(* be the same.  A RollingInput is handled in the step that sends it: the  *)
(* input channel is FIFO and its sender sees nothing of the worker.        *)
(* Windows of the watchdog are not counted out: it may fire at any moment  *)
(* its guard allows.  Previews are left out.                               *)
(***************************************************************************)
EXTENDS Chunking, ModelManager, FiniteSets

CONSTANTS
  MinTail,       \* MIN_TAIL_SAMPLES: a shorter tail is not transcribed
  ResplitMin,    \* RESPLIT_MIN_SECS: shortest chunk worth two halves
  MaxLoadWait,   \* max_load_wait, in polls
  MaxAudio,      \* bound: units in the recording
  MaxQuiet,      \* bound: quiet units among them
  Repeats        \* whether words may repeat

ASSUME RollingAssumption ==
  /\ MinTail \in Nat /\ ResplitMin \in Nat /\ MaxLoadWait \in Nat
  /\ MaxAudio \in Nat /\ MaxQuiet \in Nat /\ Repeats \in BOOLEAN
  /\ MaxFaults \in Nat /\ ResplitMin >= 2

VARIABLES
  phase,         \* where the thread is
  audio,         \* every unit pushed
  base,          \* RollingSession: where the uncut audio begins
  needs_dedup,   \* RollingSession: the next chunk begins in an overlap
  plans, slots,
  results,       \* the ChunkResult channel
  load_waited,
  output,        \* what the forwarder sent the coordinator
  unheard        \* history: words the engine was given and returned nothing for

sessionVars == <<audio, base, needs_dedup>>
workerVars == <<phase, sessionVars, plans, slots, results, load_waited, output>>
rollingVars == <<workerVars, managerVars, unheard>>

(* Blocked on input, collecting results after samples, waiting for them     *)
(* after release, waiting for stragglers after a partial Final, and over.   *)
Phases == {"input", "collect", "wait", "late", "gone"}

Parts == {"Whole", "FirstHalf", "SecondHalf"}

(* Slots, in one shape; a field a kind does not have keeps its neutral      *)
(* value.  A half is [state: open, ok or err; text].                        *)
Open == [state |-> "open", text |-> <<>>]
NewSlot == [kind |-> "Whole", attempt |-> 0, first |-> Open, second |-> Open,
            text |-> <<>>, failed |-> FALSE]
Whole(attempt) == [NewSlot EXCEPT !.attempt = attempt]
Halves(first, second) == [NewSlot EXCEPT !.kind = "Halves", !.first = first, !.second = second]
Done(text, failed) == [NewSlot EXCEPT !.kind = "Done", !.text = text, !.failed = failed]

Outstanding == {i \in DOMAIN slots : slots[i].kind # "Done"}

(* span: the samples of a chunk or of one of its halves.                    *)
Samples(heard, plan, part, split) ==
  LET chunk == Span(heard, plan)
  IN  CASE part = "Whole"      -> chunk
        [] part = "FirstHalf"  -> SubSeq(chunk, 1, split)
        [] part = "SecondHalf" -> SubSeq(chunk, split + 1, plan.len)

(* Mutant: a chunk sent to a manager that is gone is left unanswered.       *)
DispatchForgets(heard, i, plan, parts, split, rest) ==
  /\ results' = rest
  /\ IF running
     THEN queue' = queue \o [k \in DOMAIN parts |->
                     Chunk(<<i, parts[k]>>, Samples(heard, plan, parts[k], split))]
     ELSE UNCHANGED queue

(* dispatch of a chunk's parts: to the manager, or, when it is gone, an     *)
(* error straight into the result channel, of which `rest` is unread.       *)
Dispatch(heard, i, plan, parts, split, rest) ==
  LET Cmd(k) == Chunk(<<i, parts[k]>>, Samples(heard, plan, parts[k], split))
  IN  IF running
      THEN /\ queue' = queue \o [k \in DOMAIN parts |-> Cmd(k)]
           /\ results' = rest
      ELSE /\ results' = rest \o [k \in DOMAIN parts |-> Answered(Cmd(k), "err", <<>>)]
           /\ UNCHANGED queue

AddChunk(heard, plan) ==
  /\ plans' = Append(plans, plan)
  /\ slots' = Append(slots, Whole(0))
  /\ Dispatch(heard, Len(plans) + 1, plan, <<"Whole">>, 0, results)

managerFrame == <<serving, loaded, running, model_loading, replies>>

RollingInit ==
  /\ ManagerInit
  /\ phase = "input"
  /\ audio = <<>> /\ base = 0 /\ needs_dedup = FALSE
  /\ plans = <<>> /\ slots = <<>> /\ results = <<>>
  /\ load_waited = 0 /\ output = <<>>
  /\ unheard = {}

-----------------------------------------------------------------------------
(* What the forwarder sends on.                                             *)

Final(text, failed, partial) ==
  [kind |-> "Final", text |-> text, failed |-> failed, partial |-> partial]
Late(text, failed) == [kind |-> "Late", text |-> text, failed |-> failed, partial |-> FALSE]
Lost == [kind |-> "RollingWorkerLost", text |-> <<>>, failed |-> 0, partial |-> TRUE]

(* The worker is over: its output closes, and the forwarder that saw no     *)
(* Final says so.                                                           *)
Exit(sent) ==
  /\ phase' = "gone"
  /\ output' = IF \E i \in DOMAIN sent : sent[i].kind = "Final" THEN sent
               ELSE Append(sent, Lost)

-----------------------------------------------------------------------------
(* RollingInput::Samples: push, cut (at most once, since audio comes one    *)
(* unit at a time), then collect.                                           *)
NextUnits ==
  {IF Repeats THEN 1 ELSE Len(audio) + 1}
  \cup {u \in {Quiet} : Len(audio) - Len(Words(audio)) < MaxQuiet}

(* Mutant: a buffer that one pass still takes is cut.                       *)
CutDueEarly(buf) == Len(buf) >= SinglePassMax

(* try_cut: more is buffered than a chunk may hold.                         *)
CutDue(buf) == Len(buf) > SinglePassMax

Push(u) ==
  /\ phase = "input" /\ Len(audio) < MaxAudio
  /\ phase' = "collect"
  /\ LET pushed == Append(audio, u)
         buf == SubSeq(pushed, base + 1, Len(pushed))
         cut == PlanCut(buf)
     IN  /\ audio' = pushed
         /\ IF ~CutDue(buf)
            THEN UNCHANGED <<base, needs_dedup, plans, slots, results, queue>>
            ELSE /\ AddChunk(pushed, Plan(base, cut.at, needs_dedup))
                 /\ base' = base + Advance(cut)
                 /\ needs_dedup' = (cut.kind = "Hard")
  /\ UNCHANGED <<load_waited, output, managerFrame, faults, unheard>>

Collected ==
  /\ phase = "collect" /\ results = <<>>
  /\ phase' = "input"
  /\ UNCHANGED <<sessionVars, plans, slots, results, load_waited, output, managerVars, unheard>>

(* The sender is dropped: the recording was cancelled.                      *)
Abandon ==
  /\ phase = "input"
  /\ Exit(output)
  /\ UNCHANGED <<sessionVars, plans, slots, results, load_waited, managerVars, unheard>>

(* RollingInput::Finish, up to the first wait.                              *)
Finish ==
  /\ phase = "input"
  /\ LET tail == Plan(base, Len(audio) - base, needs_dedup)
     IN  IF tail.len < MinTail
         THEN /\ plans' = Append(plans, tail)
              /\ slots' = Append(slots, Done(<<>>, FALSE))
              /\ UNCHANGED <<results, queue>>
         ELSE AddChunk(audio, tail)
  /\ base' = Len(audio)
  /\ phase' = "wait"
  /\ UNCHANGED <<audio, needs_dedup, load_waited, output, managerFrame, faults, unheard>>

-----------------------------------------------------------------------------
(* on_result.  `r`, the oldest unread result, answers a part of chunk `i`.  *)

Reads(i, part, r) ==
  /\ phase \in {"collect", "wait", "late"}
  /\ r.client = <<i, part>>
  /\ UNCHANGED <<phase, sessionVars, plans, load_waited, output, managerFrame, faults, unheard>>

Settle(i, text, failed) ==
  /\ slots' = [slots EXCEPT ![i] = Done(text, failed)]
  /\ results' = Tail(results)
  /\ UNCHANGED queue

Failed(r) == r.result \in {"err", "hungup"}

WorthSplitting(i) ==
  plans[i].len >= ResplitMin /\ Words(Span(audio, plans[i])) # <<>>

WholeHeard(i, r) ==
  /\ Reads(i, "Whole", r) /\ slots[i].kind = "Whole"
  /\ r.result = "text"
  /\ Settle(i, r.text, FALSE)

WholeEmpty(i, r) ==
  /\ Reads(i, "Whole", r) /\ slots[i].kind = "Whole"
  /\ r.result = "empty" /\ ~WorthSplitting(i)
  /\ Settle(i, <<>>, FALSE)

WholeSplit(i, r) ==
  /\ Reads(i, "Whole", r) /\ slots[i].kind = "Whole"
  /\ r.result = "empty" /\ WorthSplitting(i)
  /\ slots' = [slots EXCEPT ![i] = Halves(Open, Open)]
  /\ \E split \in Splits(plans[i].len) :
       Dispatch(audio, i, plans[i], <<"FirstHalf", "SecondHalf">>, split, Tail(results))

WholeRetried(i, r) ==
  /\ Reads(i, "Whole", r) /\ slots[i].kind = "Whole"
  /\ Failed(r) /\ slots[i].attempt = 0
  /\ slots' = [slots EXCEPT ![i] = Whole(1)]
  /\ Dispatch(audio, i, plans[i], <<"Whole">>, 0, Tail(results))

(* Mutant: the chunk that failed again is not counted.                      *)
WholeForgiven(i, r) ==
  /\ Reads(i, "Whole", r) /\ slots[i].kind = "Whole"
  /\ Failed(r) /\ slots[i].attempt # 0
  /\ Settle(i, <<>>, FALSE)

WholeFailed(i, r) ==
  /\ Reads(i, "Whole", r) /\ slots[i].kind = "Whole"
  /\ Failed(r) /\ slots[i].attempt # 0
  /\ Settle(i, <<>>, TRUE)

(* A half's answer; the second one settles the chunk.                       *)
HalfAnswered(i, part, r) ==
  /\ Reads(i, part, r) /\ slots[i].kind = "Halves"
  /\ LET answer == [state |-> IF Failed(r) THEN "err" ELSE "ok", text |-> r.text]
         first  == IF part = "FirstHalf"  THEN answer ELSE slots[i].first
         second == IF part = "SecondHalf" THEN answer ELSE slots[i].second
         text   == first.text \o second.text
     IN  IF "open" \in {first.state, second.state}
         THEN /\ slots' = [slots EXCEPT ![i] = Halves(first, second)]
              /\ results' = Tail(results)
              /\ UNCHANGED queue
         ELSE Settle(i, text, "err" \in {first.state, second.state} \/ text = <<>>)

TakeResult ==
  /\ results # <<>>
  /\ LET r == Head(results)
     IN  \E i \in DOMAIN slots :
           \/ WholeHeard(i, r) \/ WholeEmpty(i, r) \/ WholeSplit(i, r)
           \/ WholeRetried(i, r) \/ WholeFailed(i, r)
           \/ \E part \in {"FirstHalf", "SecondHalf"} : HalfAnswered(i, part, r)

-----------------------------------------------------------------------------
(* finish.                                                                  *)

frame == <<sessionVars, plans, slots, results, managerVars, unheard>>

(* assemble, with the count of chunks whose words are missing.              *)
Assembled == Assemble(plans, [i \in DOMAIN slots |-> slots[i].text])
FailedChunks == Cardinality(Outstanding \cup {i \in DOMAIN slots : slots[i].failed})

Waiting(p) == phase = p /\ Outstanding # {} /\ results = <<>>

(* Mutant: the wait for a load may be one poll too long.                    *)
LoadHoldsLonger == model_loading /\ load_waited <= MaxLoadWait

(* A load in flight holds the watchdog, up to max_load_wait in total.       *)
LoadHolds == model_loading /\ load_waited < MaxLoadWait

(* Mutant: the time spent waiting for a load is not added up.               *)
PollLoadingUncounted ==
  /\ Waiting("wait") /\ LoadHolds
  /\ UNCHANGED <<load_waited, phase, output, frame>>

(* A poll while the model loads: not a wedge.                               *)
PollLoading ==
  /\ Waiting("wait") /\ LoadHolds
  /\ load_waited' = load_waited + 1
  /\ UNCHANGED <<phase, output, frame>>

WatchdogFires ==
  /\ Waiting("wait") /\ ~LoadHolds
  /\ output' = Append(output, Final(Assembled, FailedChunks, TRUE))
  /\ phase' = "late"
  /\ UNCHANGED <<load_waited, frame>>

Deliver ==
  /\ phase = "wait" /\ Outstanding = {}
  /\ Exit(Append(output, Final(Assembled, FailedChunks, FALSE)))
  /\ UNCHANGED <<load_waited, frame>>

DeliverLate ==
  /\ phase = "late" /\ Outstanding = {}
  /\ Exit(Append(output, Late(Assembled, FailedChunks)))
  /\ UNCHANGED <<load_waited, frame>>

GiveUp ==
  /\ Waiting("late")
  /\ Exit(output)
  /\ UNCHANGED <<load_waited, frame>>

(* A panic while finishing hands the audio back; a panic on samples ends    *)
(* the thread.                                                              *)
panicFrame == <<sessionVars, plans, slots, results, load_waited, queue, managerFrame, unheard>>

PanicFinishing ==
  /\ phase \in {"wait", "late"} /\ Fails
  /\ Exit(Append(output, Final(<<>>, Len(plans), TRUE)))
  /\ UNCHANGED panicFrame

PanicCollecting ==
  /\ phase = "collect" /\ Fails
  /\ Exit(output)
  /\ UNCHANGED panicFrame

-----------------------------------------------------------------------------
(* The engine: it hears the words, hears nothing, or errs.                  *)

EngineHears ==
  /\ LET words == Words(serving.samples)
     IN  Transcribed(IF words = <<>> THEN "empty" ELSE "text", words)
  /\ UNCHANGED <<faults, workerVars, unheard>>

EngineDeaf ==
  /\ Fails /\ Words(serving.samples) # <<>>
  /\ Transcribed("empty", <<>>)
  /\ unheard' = unheard \cup ToSet(Words(serving.samples))
  /\ UNCHANGED <<workerVars>>

EngineErrs ==
  /\ Fails
  /\ Transcribed("err", <<>>)
  /\ UNCHANGED <<workerVars, unheard>>

ManagerSteps ==
  /\ \/ TakeCommand \/ LoadSucceeds \/ LoadFails \/ LoadPanics
     \/ InferencePanics
  /\ UNCHANGED <<workerVars, unheard>>

(* Bound: an idle unload counts as one of the failures.                     *)
ManagerIdles ==
  /\ Fails /\ IdleUnload
  /\ UNCHANGED <<workerVars, unheard>>

(* The thread that waits for one answer.                                    *)
ForwardAnswer ==
  \E r \in replies :
    /\ replies' = replies \ {r}
    /\ results' = Append(results, r)
    /\ UNCHANGED <<phase, sessionVars, plans, slots, load_waited, output, queue, serving,
                   loaded, running, model_loading, faults, unheard>>

-----------------------------------------------------------------------------
Speaks == \E u \in NextUnits : Push(u)
WorkerRuns == Collected \/ TakeResult \/ PollLoading \/ WatchdogFires
              \/ Deliver \/ DeliverLate \/ GiveUp
WorkerPanics == PanicFinishing \/ PanicCollecting
EngineNext == EngineHears \/ EngineDeaf \/ EngineErrs \/ ManagerSteps \/ ManagerIdles

(* Bound: the manager's life after the worker's is not explored.            *)
Attended == phase # "gone"

RollingNext ==
  \/ Speaks \/ Finish \/ Abandon \/ WorkerRuns \/ WorkerPanics
  \/ Attended /\ (EngineNext \/ ForwardAnswer)

RollingSpec == RollingInit /\ [][RollingNext]_rollingVars

(* Only the worker is fair: the engine may take for ever, and what is       *)
(* promised of the worker is promised all the same.                         *)
FairRollingSpec == RollingSpec /\ WF_rollingVars(WorkerRuns)
=============================================================================
