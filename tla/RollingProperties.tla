-------------------------- MODULE RollingProperties --------------------------
(* What must hold of one recording transcribed while it is made (module     *)
(* RollingWorker).                                                          *)
EXTENDS RollingWorker

Units == 0..MaxAudio
Texts == Seq(Units)
Clients == {<<>>} \cup (Nat \X Parts)   \* nobody waits for a warm-up
Answers == [client: Clients, result: {"text", "empty", "err", "hungup"}, text: Texts]
Commands == [kind: {"TranscribeChunk", "Warmup", "Nothing"},
             client: Clients, samples: Texts]
HalfStates == [state: {"open", "ok", "err"}, text: Texts]
Slots == [kind: {"Whole", "Halves", "Done"}, attempt: 0..1, first: HalfStates,
          second: HalfStates, text: Texts, failed: BOOLEAN]

(* Every variable of the worker and of the manager has its type; a chunk    *)
(* has a plan and a slot.                                                   *)
RollingTypeOK ==
  /\ phase \in Phases
  /\ audio \in Texts /\ base \in Nat /\ needs_dedup \in BOOLEAN
  /\ plans \in Seq([start: Nat, len: Nat, needs_dedup: BOOLEAN])
  /\ slots \in Seq(Slots) /\ Len(slots) = Len(plans)
  /\ results \in Seq(Answers)
  /\ load_waited \in 0..MaxLoadWait /\ faults \in 0..MaxFaults
  /\ output \in Seq([kind: {"Final", "Late", "RollingWorkerLost"}, text: Texts,
                     failed: Nat, partial: BOOLEAN])
  /\ queue \in Seq(Commands) /\ serving \in Commands /\ replies \subseteq Answers
  /\ loaded \in BOOLEAN /\ running \in BOOLEAN /\ model_loading \in BOOLEAN
  /\ unheard \subseteq Units

-----------------------------------------------------------------------------
(* The parts of chunks not yet answered, and the answers that will come.    *)
OpenParts ==
  {<<i, "Whole">> : i \in {j \in DOMAIN slots : slots[j].kind = "Whole"}}
  \cup {<<i, "FirstHalf">> : i \in {j \in DOMAIN slots : /\ slots[j].kind = "Halves"
                                                        /\ slots[j].first = Open}}
  \cup {<<i, "SecondHalf">> : i \in {j \in DOMAIN slots : /\ slots[j].kind = "Halves"
                                                         /\ slots[j].second = Open}}

Owed ==
  {queue[i].client : i \in DOMAIN queue} \cup {serving.client}
  \cup {r.client : r \in replies} \cup {results[i].client : i \in DOMAIN results}

(* Nothing waits on a chunk that will never complete: for each part of a    *)
(* chunk that is not answered, a command is queued or served, or an answer  *)
(* is on its way - through retries, re-splits, panics of the engine and the *)
(* death of the manager ("answer immediately so nothing waits", dispatch).  *)
EveryPartIsOwed == phase # "gone" => OpenParts \subseteq Owed

-----------------------------------------------------------------------------
(* Cutting the audio as it comes gives the chunks that planning the whole   *)
(* recording gives (plan_chunks): the rolling path has the policy of the    *)
(* batch path.                                                              *)
CutAsBatch == phase \in {"wait", "late"} /\ audio # <<>> => plans = PlanChunks(audio)

Texted == {i \in DOMAIN output : output[i].kind \in {"Final", "Late"}}

(* No transcript says a word twice, out of order, or one that was not said, *)
(* whatever was retried, split, failed or late (words are distinct here).   *)
NothingSaidTwice ==
  \A i \in Texted :
    /\ IsSorted(output[i].text, <)
    /\ ToSet(output[i].text) \subseteq ToSet(audio)

(* A transcript that is not partial and counts no failed chunk has every    *)
(* word of the recording but those the engine returned nothing for.         *)
CompleteHasEveryWord ==
  \A i \in Texted :
    ~output[i].partial /\ output[i].failed = 0
      => ToSet(Words(audio)) \subseteq ToSet(output[i].text) \cup unheard

(* With nothing failed the transcript is what was said, repeated words      *)
(* included: only the words that were heard twice are removed at a seam     *)
(* (dedup_seam).                                                            *)
(* The code does not keep it (README, What does not hold).                  *)
RepeatedWordsAreKept ==
  faults = MaxFaults =>
    \A i \in Texted : ~output[i].partial => output[i].text = Words(audio)

-----------------------------------------------------------------------------
(* The worker implements the promise of module RollingPromise, fair only to *)
(* itself.                                                                  *)
Said(o) == IF o.kind # "Final" THEN o.kind ELSE IF o.partial THEN "partial" ELSE "complete"

Promise == INSTANCE RollingPromise WITH
             stage <- CASE phase \in {"input", "collect"} -> "recording"
                        [] phase = "wait" -> "finishing"
                        [] phase = "late" -> "late"
                        [] phase = "gone" -> "over",
             sent <- [i \in DOMAIN output |-> Said(output[i])]

FinishIsAnswered == Promise!Spec
=============================================================================
