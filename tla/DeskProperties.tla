---------------------------- MODULE DeskProperties ----------------------------
(***************************************************************************)
(* What happens to a transcript after it is known: it is cleaned up        *)
(* (module CleanupManager), pasted (Clipboard), and what was lost is       *)
(* recovered from the saved recording (Recovery).  The three share no      *)
(* state; a behaviour is one of one of them, chosen at the start, the      *)
(* others at rest.                                                         *)
(***************************************************************************)
EXTENDS Clipboard, Recovery, CleanupManager

VARIABLE focus   \* the part that this behaviour is of

CONSTANTS
  Parts,    \* of "clipboard", "recovery" and "cleanup"
  Spoken    \* the texts whose segments are looked at

ASSUME SpokenAssumption == Spoken \subseteq Seq(BOOLEAN)

DeskInit ==
  /\ focus \in Parts
  /\ ClipInit /\ (focus # "clipboard" => clip.kind = "files")
  /\ RecoveryInit /\ (focus # "recovery" => last_wav = <<>> /\ queue = <<>> /\ ~loaded)
  /\ CleanupInit

OfClipboard == focus = "clipboard" /\ ClipNext /\ UNCHANGED <<focus, recoveryVars, cleanupVars>>
OfRecovery == focus = "recovery" /\ RecoveryNext /\ UNCHANGED <<focus, clipVars, cleanupVars>>
OfCleanup == focus = "cleanup" /\ CleanupNext /\ UNCHANGED <<focus, clipVars, recoveryVars>>

deskVars == <<focus, clipVars, recoveryVars, cleanupVars>>

DeskSafety == DeskInit /\ [][OfClipboard \/ OfRecovery \/ OfCleanup]_deskVars

(* Restore threads and the recovery thread run on; the clean-up manager and *)
(* its worker run on, and a generation ends, having a budget of tokens.     *)
DeskSpec == /\ DeskSafety
            /\ WF_clipVars(Restores) /\ WF_recoveryVars(RecoveryRuns)
            /\ WF_cleanupVars(ManagerRuns) /\ WF_cleanupVars(WorkerRuns)

-----------------------------------------------------------------------------
Contents == {NoContent} \cup {Content("user", k, n) : k \in Kinds, n \in 0..MaxCopies}
                        \cup {Transcript(n) : n \in 1..MaxTexts}

ClipTypeOK ==
  /\ clip \in Contents /\ copied \in Contents /\ told \in Contents
  /\ pasting \in [stage : Stages, text : Contents, previous : Contents]
  /\ restorers \subseteq [text : Contents, previous : Contents, looked : BOOLEAN]
  /\ field \subseteq Contents /\ texts \in 0..MaxTexts
  /\ taken \in BOOLEAN /\ raced \in BOOLEAN

(* paste_text borrows the clipboard: what the user copied, if it can be     *)
(* captured, is on the clipboard or in a snapshot that will be put back,    *)
(* unless a transcript was meant to replace it, a second paste began before *)
(* the first was undone, the keystroke of a paste could not be sent (the    *)
(* transcript then stays, and nothing is put back: insert.rs:107), or the   *)
(* copy came between a look and a write.                                    *)
Held(c) == \/ clip = c
           \/ pasting.stage \in {"saved", "set", "typed", "retyped"} /\ pasting.previous = c
           \/ \E r \in restorers : r.previous = c
UserContentIsHeld ==
  taken \/ raced \/ copied.kind = "files" \/ Held(copied)

(* The clipboard is given back: once no paste is under way and no new one   *)
(* comes, the user's content returns to it, or is known to be lost (as      *)
(* above: also to a paste whose keystroke failed).                          *)
ClipboardIsGivenBack ==
  (At("idle") /\ copied.kind # "files" /\ ~taken /\ ~raced)
    ~> (clip = copied \/ taken \/ raced \/ ~At("idle") \/ copied.kind = "files")

(* The overlay tells the user that the transcript is on the clipboard       *)
(* (coordinator.rs:1594-1603, insert.rs:44-54), so that a transcript which  *)
(* was not typed can be pasted by hand: it is there until something else    *)
(* is copied.                                                               *)
ToldTrue == told # NoContent => clip = told

-----------------------------------------------------------------------------
RecoveryStages == {"off", "read", "send", "wait"}

RecoveryTypeOK ==
  /\ last_wav \in Recordings \cup {<<>>} /\ tmp \in Recordings \cup {<<>>}
  /\ RECOVERY_RUNNING \in BOOLEAN
  /\ thread.stage \in RecoveryStages /\ thread.at \in Nat /\ thread.failed \in Nat
  /\ asks \in 0..MaxAsks /\ saves \in 0..MaxSaves /\ live \in 0..MaxLive
  /\ faults \in 0..MaxFaults

(* A recovery that says every chunk was heard has every word of the         *)
(* recording it read, in order and once, except those the engine returned   *)
(* nothing for (transcribe_paced_with, assemble).                           *)
RecoveredIsComplete ==
  (reported.kind = "recovered" /\ reported.failed = 0)
    => Without(reported.text, mute) = Without(Words(reported.samples), mute)

(* The flag that bars a second recovery comes down again, however the       *)
(* engine answers, unless the thread panicked.                              *)
RecoveryEnds == RECOVERY_RUNNING ~> (~RECOVERY_RUNNING \/ reported.kind = "panic")

(* "Pacing keeps at most one recovery chunk ahead of them" (recovery.rs:154):*)
(* live dictation never waits behind two chunks of a recovery.              *)
(* The code does not keep it (README, What does not hold).                  *)
RecoveryChunks ==
  {i \in DOMAIN queue : queue[i].kind = "TranscribeChunk" /\ queue[i].client # LiveClient}
Ahead == Cardinality(RecoveryChunks)
           + (IF serving.kind = "TranscribeChunk" /\ serving.client # LiveClient THEN 1 ELSE 0)
PacedAhead == Ahead <= 1

-----------------------------------------------------------------------------
CleanupTypeOK ==
  /\ manager.stage \in {"idle", "load", "warm", "race", "grace", "join", "dead"}
  /\ worker.stage \in {"off", "check", "generate"}
  /\ answer.kind \in {"none", "text", "empty", "hungup"}
  /\ {provider, load_failed_once, warmed_up, cancel} \subseteq BOOLEAN
  /\ \A a \in answers \cup cleaned : a.id \in 1..MaxRequests /\ a.used_llm \in BOOLEAN

(* Type invariant of the paste pipeline (insert.rs), the recovery thread    *)
(* (recovery.rs, spawn_recovery) and the clean-up manager                   *)
(* (cleanup_manager.rs).                                                    *)
DeskTypeOK == ClipTypeOK /\ RecoveryTypeOK /\ CleanupTypeOK

(* No generation outlives the clean-up it is for: the manager never goes on *)
(* to another command, unloads the model or ends with a live worker         *)
(* ("never detaches a live llama.cpp thread", cleanup_manager.rs:9-14).     *)
NoOrphanGeneration ==
  worker.stage # "off" => /\ manager.stage \in {"race", "grace", "join"}
                          /\ worker.id = Command.id /\ provider

(* A cleaned transcript has, for every segment, its raw words or a          *)
(* generation that was not cut by the deadline, and they are those of the   *)
(* request it answers; every request is answered once.                      *)
CleanedIsWhole ==
  /\ \A a \in cleaned :
       /\ a.of = a.id /\ "cancelled" \notin ToSet(a.text) /\ Len(a.text) > 0
       /\ ~a.used_llm => ToSet(a.text) = {"raw"}
  /\ \A a, b \in cleaned : a.id = b.id => a = b

(* The manager comes back to its queue, or dies: no generation, deadline or *)
(* panic of a worker holds it for good.                                     *)
ManagerComesBack == Alive ~> (Stage("idle") \/ Stage("dead"))

(* "a non-empty result is always complete text" (cleanup.rs:83), so it may  *)
(* replace the speaker's words.                                             *)
(* The code does not keep it (README, What does not hold).                  *)
NonEmptyIsComplete ==
  \A a \in cleaned : a.used_llm => ToSet(a.text) \subseteq {"raw", "clean"}

(* Segments take every word of a text, end at the ends of sentences unless  *)
(* a sentence is longer than a segment may be, and are at most a segment    *)
(* and a short remainder (split_into_segments).  Of no state: looked at in  *)
(* the initial ones.                                                        *)
Boundary(segments, k) ==
  LET upto[i \in 0..k] == IF i = 0 THEN 0 ELSE upto[i - 1] + segments[i]
  IN  upto[k]
SentenceStart(text, i) == Max({0} \cup {j \in 1 .. i - 1 : text[j]})
SentenceEnd(text, i) == Min({j \in i..Len(text) : text[j] \/ j = Len(text)})
Whole(text, segments) ==
  /\ Boundary(segments, Len(segments)) = Len(text)
  /\ \A k \in 1 .. Len(segments) - 1 :
       LET b == Boundary(segments, k)
       IN  text[b] \/ SentenceEnd(text, b) - SentenceStart(text, b) > SegmentMax
  /\ \A k \in DOMAIN segments :
       segments[k] <= SegmentAbove \/ segments[k] < SegmentMax + SegmentMinTail
SegmentsAreWhole ==
  (focus = "cleanup" /\ requests = 0 /\ warmups = 0)
    => \A text \in Spoken : Whole(text, SplitIntoSegments(text))
=============================================================================
