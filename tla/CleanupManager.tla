---------------------------- MODULE CleanupManager ----------------------------
(***************************************************************************)
(* The clean-up of transcripts: the thread that owns the language model    *)
(* (flow-core/src/cleanup_manager.rs), the worker thread each clean-up     *)
(* runs on (clean_in_segments in cleanup.rs) and the threads that wait for *)
(* the answers (run_pipeline in coordinator.rs).                           *)
(*                                                                         *)
(* The deadline, the grace period and the waiter's timeout are not         *)
(* measured: each may pass whenever its thread waits.  A cleaned text is,  *)
(* for each segment, where its words come from: "raw", "clean", or the     *)
(* beginning of a generation that was cancelled or ran out of tokens.      *)
(***************************************************************************)
EXTENDS Segments, SequencesExt, FiniteSets

CONSTANTS
  Texts,          \* the transcripts that may be cleaned: of each request, a set
  MaxRequests,    \* bound: clean-ups
  MaxWarmups,     \* bound: recordings started
  MaxMishaps      \* bound: failed loads and generations, panics

ASSUME CleanupAssumption ==
  /\ MaxRequests \in Nat /\ MaxWarmups \in Nat /\ MaxMishaps \in Nat
  /\ \A n \in 1..MaxRequests : Texts[n] \subseteq Seq(BOOLEAN)

VARIABLES
  commands,          \* the CleanupCommand channel
  manager,           \* the thread: its stage, the command in hand, the result it will send
  provider,          \* provider.is_some()
  load_failed_once, warmed_up,
  worker,            \* the thread that generates
  cancel,            \* the flag it checks
  answer,            \* gen_rx: what the worker has sent
  answers,           \* what the reply channels hold
  waiting,           \* the requests a thread waits for
  cleaned,           \* the CleanupDone messages
  requests, warmups, mishaps

managerThread == <<commands, manager, provider, load_failed_once, warmed_up, answers>>
generation == <<worker, cancel, answer>>
clients == <<waiting, cleaned, requests, warmups>>
cleanupVars == <<managerThread, generation, clients, mishaps>>

(* A request comes with the number of its segments, which the worker finds. *)
Clean(id, text) ==
  [kind |-> "Clean", id |-> id, text |-> text, segments |-> Len(SplitIntoSegments(text))]
WarmupCall == [kind |-> "Warmup", id |-> 0, text |-> <<>>, segments |-> 0]

Raw(segments) == [i \in 1..segments |-> "raw"]

(* A CleanupResult, for request `id`; `of` is the request whose generation  *)
(* it is (its own: `of` is there to be checked).                            *)
Result(id, of, text, used_llm) == [id |-> id, of |-> of, text |-> text, used_llm |-> used_llm]
RawResult(r) == Result(r.id, r.id, Raw(r.segments), FALSE)

NoCommand == [kind |-> "None", id |-> 0, text |-> <<>>, segments |-> 0]
NoResult == Result(0, 0, <<>>, FALSE)
IdleManager == [stage |-> "idle", command |-> NoCommand, result |-> NoResult]
NoWorker == [stage |-> "off", id |-> 0, segments |-> 0, out |-> <<>>]
NoAnswer == [kind |-> "none", of |-> 0, text |-> <<>>]

CleanupInit ==
  /\ commands = <<>> /\ manager = IdleManager
  /\ provider = FALSE /\ load_failed_once = FALSE /\ warmed_up = FALSE
  /\ worker = NoWorker /\ cancel = FALSE /\ answer = NoAnswer
  /\ answers = {} /\ waiting = {} /\ cleaned = {}
  /\ requests = 0 /\ warmups = 0 /\ mishaps = MaxMishaps

Mishap == mishaps > 0 /\ mishaps' = mishaps - 1
Stage(stage) == manager.stage = stage
Alive == ~Stage("dead")
Command == manager.command
ToStage(stage) == manager' = [manager EXCEPT !.stage = stage]

-----------------------------------------------------------------------------
(* The coordinator's threads.                                               *)

(* run_pipeline: without a manager the transcript goes on as it is.         *)
RequestCleanup(text) ==
  /\ requests' = requests + 1
  /\ LET r == Clean(requests', text)
     IN  IF Alive
         THEN /\ commands' = Append(commands, r) /\ waiting' = waiting \cup {r}
              /\ UNCHANGED cleaned
         ELSE /\ cleaned' = cleaned \cup {RawResult(r)}
              /\ UNCHANGED <<commands, waiting>>
  /\ UNCHANGED <<manager, provider, load_failed_once, warmed_up, answers, generation, warmups,
                 mishaps>>

RequestWarmup ==
  /\ warmups < MaxWarmups /\ Alive
  /\ warmups' = warmups + 1
  /\ commands' = Append(commands, WarmupCall)
  /\ UNCHANGED <<manager, provider, load_failed_once, warmed_up, answers, generation, waiting,
                 cleaned, requests, mishaps>>

Concluded(r, result) ==
  /\ waiting' = waiting \ {r} /\ cleaned' = cleaned \cup {result}
  /\ UNCHANGED <<commands, manager, provider, load_failed_once, warmed_up, generation, requests,
                 warmups, mishaps>>

WaiterHears(r) ==
  \E a \in answers : a.id = r.id /\ Concluded(r, a) /\ answers' = answers \ {a}

(* The waiter's own timeout, or a manager that died with the request.       *)
WaiterGivesUp(r) ==
  (~\E a \in answers : a.id = r.id) /\ Concluded(r, RawResult(r)) /\ UNCHANGED answers

Waits == \E r \in waiting : WaiterHears(r) \/ WaiterGivesUp(r)

-----------------------------------------------------------------------------
(* The manager.                                                             *)

TakeCleanupCommand ==
  /\ Stage("idle") /\ commands # <<>>
  /\ manager' = [IdleManager EXCEPT !.stage = "load", !.command = Head(commands)]
  /\ commands' = Tail(commands)
  /\ UNCHANGED <<provider, load_failed_once, warmed_up, answers, generation, clients, mishaps>>

(* ensure_loaded: a load that failed is not tried again.                    *)
MayLoad == Stage("load") /\ ~provider /\ ~load_failed_once

LoadCleanup ==
  /\ MayLoad /\ provider' = TRUE
  /\ UNCHANGED <<commands, manager, load_failed_once, warmed_up, answers, generation, clients,
                 mishaps>>

LoadCleanupFails ==
  /\ MayLoad /\ Mishap /\ load_failed_once' = TRUE
  /\ UNCHANGED <<commands, manager, provider, warmed_up, answers, generation, clients>>

Ready(kind) == Stage("load") /\ (provider \/ load_failed_once) /\ Command.kind = kind

(* Mutant: a warm-up that does nothing is answered like a request.          *)
AnswerAll ==
  /\ (Ready("Clean") /\ ~provider) \/ (Ready("Warmup") /\ (~provider \/ warmed_up))
  /\ answers' = answers \cup {RawResult(Command)}
  /\ manager' = IdleManager
  /\ UNCHANGED <<commands, provider, load_failed_once, warmed_up, generation, clients, mishaps>>

(* Nothing to generate with, or nothing to warm up.                         *)
SkipGeneration ==
  /\ \/ Ready("Clean") /\ ~provider /\ answers' = answers \cup {RawResult(Command)}
     \/ Ready("Warmup") /\ (~provider \/ warmed_up) /\ UNCHANGED answers
  /\ manager' = IdleManager
  /\ UNCHANGED <<commands, provider, load_failed_once, warmed_up, generation, clients, mishaps>>

StartWarmup ==
  /\ Ready("Warmup") /\ provider /\ ~warmed_up
  /\ ToStage("warm")
  /\ UNCHANGED <<commands, provider, load_failed_once, warmed_up, answers, generation, clients,
                 mishaps>>

WarmedUp ==
  /\ Stage("warm")
  /\ manager' = IdleManager
  /\ \/ warmed_up' = TRUE /\ UNCHANGED mishaps
     \/ Mishap /\ UNCHANGED warmed_up
  /\ UNCHANGED <<commands, provider, load_failed_once, answers, generation, clients>>

(* A panic while loading or warming up ends the thread: what is queued is   *)
(* dropped with its reply channels.                                         *)
ManagerPanics ==
  /\ MayLoad \/ Stage("warm")
  /\ Mishap
  /\ manager' = [IdleManager EXCEPT !.stage = "dead"]
  /\ commands' = <<>> /\ provider' = FALSE /\ warmed_up' = FALSE
  /\ UNCHANGED <<load_failed_once, answers, generation, clients>>

IdleCleanupUnload ==
  /\ Stage("idle") /\ commands = <<>> /\ provider
  /\ provider' = FALSE /\ warmed_up' = FALSE
  /\ UNCHANGED <<commands, manager, load_failed_once, answers, generation, clients, mishaps>>

-----------------------------------------------------------------------------
(* run_with_deadline.                                                       *)

StartWorker ==
  /\ Ready("Clean") /\ provider
  /\ ToStage("race")
  /\ worker' = [NoWorker EXCEPT !.stage = "check", !.id = Command.id,
                                !.segments = Command.segments]
  /\ cancel' = FALSE /\ answer' = NoAnswer
  /\ UNCHANGED <<commands, provider, load_failed_once, warmed_up, answers, clients, mishaps>>

Usable(a) == a.kind = "text"

(* The result, which the manager sends when the worker has been joined.     *)
Joining(result) ==
  /\ manager' = [manager EXCEPT !.stage = "join", !.result = result]
  /\ UNCHANGED <<commands, provider, load_failed_once, warmed_up, answers, worker, cancel, answer,
                 clients, mishaps>>

(* An answer in time, or in the grace period.                               *)
WorkerAnswered ==
  /\ Stage("race") \/ Stage("grace")
  /\ answer.kind \in {"text", "empty"}
  /\ Joining(IF Usable(answer) THEN Result(Command.id, answer.of, answer.text, TRUE)
                               ELSE RawResult(Command))

(* Mutant: a worker that panicked is waited for.                            *)
NotYet == answer.kind = "none"

NothingUsable == answer.kind \in {"none", "hungup"}

(* The deadline; a worker that panicked is treated the same.                *)
Deadline ==
  /\ Stage("race") /\ NothingUsable
  /\ ToStage("grace") /\ cancel' = TRUE
  /\ UNCHANGED <<commands, provider, load_failed_once, warmed_up, answers, worker, answer, clients,
                 mishaps>>

GraceEnds == Stage("grace") /\ NothingUsable /\ Joining(RawResult(Command))

(* Mutant: the worker is left behind.                                       *)
Detached == TRUE

Joined == worker.stage = "off"

SendResult ==
  /\ Stage("join") /\ Joined
  /\ answers' = answers \cup {manager.result}
  /\ manager' = IdleManager
  /\ UNCHANGED <<commands, provider, load_failed_once, warmed_up, generation, clients, mishaps>>

-----------------------------------------------------------------------------
(* The worker: clean_in_segments.                                           *)

(* Mutant: a generation stopped by the deadline is kept.                    *)
AcceptCancelled == {"raw", "clean", "cancelled"}

(* accept_generation, and what becomes of the segment: rejected or failed   *)
(* generations leave the raw words.  A generation that reached its budget   *)
(* of tokens ("budget") is not told from one that ended.                    *)
Accepted == {"raw", "clean", "budget"}

workerFrame == <<managerThread, cancel, clients>>

(* The cancel flag is looked at before each segment, and while a segment is *)
(* generated, where only a cancelled generation is cut.                     *)
BeginSegment ==
  /\ worker.stage = "check" /\ Len(worker.out) < worker.segments
  /\ worker' = IF cancel /\ worker.segments > 1
               THEN [worker EXCEPT !.out = Append(@, "raw")]
               ELSE [worker EXCEPT !.stage = "generate"]
  /\ UNCHANGED <<workerFrame, answer, mishaps>>

SegmentCleaned(as) ==
  /\ worker.stage = "generate"
  /\ as = "cancelled" => cancel
  /\ worker' = [worker EXCEPT !.stage = "check", !.out = Append(@, as)]
  /\ UNCHANGED <<workerFrame, answer, mishaps>>

(* Nothing at all cleaned is no usable output.                              *)
WorkerSends ==
  /\ worker.stage = "check" /\ Len(worker.out) = worker.segments
  /\ answer' = IF ToSet(worker.out) \subseteq {"raw"}
               THEN [NoAnswer EXCEPT !.kind = "empty", !.of = worker.id]
               ELSE [kind |-> "text", of |-> worker.id, text |-> worker.out]
  /\ worker' = NoWorker
  /\ UNCHANGED <<workerFrame, mishaps>>

WorkerPanics ==
  /\ worker.stage = "generate" /\ Mishap
  /\ answer' = [NoAnswer EXCEPT !.kind = "hungup", !.of = worker.id]
  /\ worker' = NoWorker
  /\ UNCHANGED workerFrame

WorkerRuns == BeginSegment \/ (\E as \in Accepted : SegmentCleaned(as)) \/ WorkerSends

ManagerRuns == \/ TakeCleanupCommand \/ LoadCleanup \/ SkipGeneration \/ StartWarmup \/ WarmedUp
               \/ StartWorker \/ WorkerAnswered \/ Deadline \/ GraceEnds \/ SendResult

Requests == requests < MaxRequests /\ \E text \in Texts[requests + 1] : RequestCleanup(text)

CleanupNext == \/ Requests
               \/ RequestWarmup \/ Waits \/ ManagerRuns \/ WorkerRuns
               \/ LoadCleanupFails \/ ManagerPanics \/ IdleCleanupUnload \/ WorkerPanics
=============================================================================
