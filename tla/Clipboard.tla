------------------------------ MODULE Clipboard ------------------------------
(***************************************************************************)
(* The system clipboard between the user, the paste pipeline               *)
(* (flow-core/src/insert.rs) and the transcripts that are put there to     *)
(* stay (coordinator.rs).                                                  *)
(*                                                                         *)
(* Every content has an identity: two copies, or a copy and a transcript,  *)
(* are never the same text.  Reading the clipboard and writing it are two  *)
(* calls, and others run between them.  The delay before a restore is not  *)
(* measured: a restore thread may look at any moment after the paste.      *)
(***************************************************************************)
EXTENDS Naturals, FiniteSets

CONSTANTS
  Verifies,    \* macOS: the focused field is read after a paste
  MaxTexts,    \* bound: transcripts
  MaxCopies    \* bound: copies by the user

ASSUME ClipboardAssumption == Verifies \in BOOLEAN /\ MaxTexts \in Nat /\ MaxCopies \in Nat

VARIABLES
  clip,        \* what is on the clipboard
  pasting,     \* paste_text under way on the coordinator's thread
  restorers,   \* the threads that will put a snapshot back
  field,       \* what was typed into the focused field
  texts,       \* transcripts so far
  copied,      \* history: the user's newest content
  taken,       \* history: a delivery was meant to replace it, or hid it from a snapshot
  raced,       \* history: it was copied between another's look and write
  told         \* history: the transcript the user was told is on the clipboard

clipVars == <<clip, pasting, restorers, field, texts, copied, taken, raced, told>>

Content(by, kind, id) == [by |-> by, kind |-> kind, id |-> id]
Transcript(n) == Content("flow", "text", n)
NoContent == Content("none", "files", 0)
Kinds == {"text", "image", "files"}

(* paste_text by stages: reading, about to write, written, keystroke sent,  *)
(* keystroke sent again.                                                    *)
Stages == {"idle", "saved", "set", "typed", "retyped"}
NotPasting == [stage |-> "idle", text |-> NoContent, previous |-> NoContent]
At(stage) == pasting.stage = stage
GoTo(stage) == pasting' = [pasting EXCEPT !.stage = stage]

ClipInit ==
  /\ clip \in {Content("user", k, 0) : k \in Kinds}
  /\ pasting = NotPasting /\ restorers = {} /\ field = {}
  /\ texts = 0 /\ copied = clip
  /\ taken = FALSE /\ raced = FALSE /\ told = NoContent

(* Somebody has looked at the clipboard and is about to write it.           *)
Looked == At("saved") \/ \E r \in restorers : r.looked

UserCopies(kind) ==
  /\ copied.id < MaxCopies
  /\ copied' = Content("user", kind, copied.id + 1)
  /\ clip' = copied'
  /\ taken' = FALSE /\ raced' = Looked /\ told' = NoContent
  /\ UNCHANGED <<pasting, restorers, field, texts>>

-----------------------------------------------------------------------------
(* paste_text.                                                              *)

(* Mutant: only text is captured.                                          *)
TextOnly == IF clip.kind = "text" THEN clip ELSE NoContent

(* SavedClipboard: anything but text and images cannot be captured.         *)
Snapshot == IF clip.kind \in {"text", "image"} THEN clip ELSE NoContent

Save ==
  /\ At("idle") /\ texts < MaxTexts
  /\ texts' = texts + 1
  /\ pasting' = [stage |-> "saved", text |-> Transcript(texts + 1), previous |-> Snapshot]
  /\ taken' = (taken \/ clip # copied)
  /\ UNCHANGED <<clip, restorers, field, copied, raced, told>>

Set ==
  /\ At("saved")
  /\ clip' = pasting.text /\ told' = NoContent
  /\ GoTo("set")
  /\ UNCHANGED <<restorers, field, texts, copied, taken, raced>>

(* "Paste failed": the clipboard could not be written, or no key be sent.   *)
PasteFails ==
  /\ At("saved") \/ At("set")
  /\ taken' = (taken \/ At("set"))
  /\ pasting' = NotPasting
  /\ UNCHANGED <<clip, restorers, field, texts, copied, raced, told>>

(* paste_message: the outcomes that say the transcript is on the clipboard. *)
Skipped == {"SkippedSecureField", "SkippedNoAccessibility", "ClipboardOnly"}
OnClipboard == Skipped \cup {"VerificationFailed"}

(* Every outcome but VerificationFailed starts a restore thread.            *)
RestoreAfter(outcome) == outcome # "VerificationFailed"

Conclude(outcome) ==
  /\ restorers' = IF RestoreAfter(outcome)
                  THEN restorers \cup {[text |-> pasting.text, previous |-> pasting.previous,
                                        looked |-> FALSE]}
                  ELSE restorers
  /\ taken' = (taken \/ ~RestoreAfter(outcome))
  /\ told' = IF outcome \in OnClipboard THEN pasting.text ELSE told
  /\ pasting' = NotPasting
  /\ UNCHANGED <<clip, texts, copied, raced>>

Skip(outcome) == At("set") /\ Conclude(outcome) /\ UNCHANGED field

(* simulate_paste; the application may swallow it.                          *)
Types(from, to) ==
  /\ At(from)
  /\ field' \in {field, field \cup {clip}}
  /\ GoTo(to)
  /\ UNCHANGED <<clip, restorers, texts, copied, taken, raced, told>>

TailPresent == pasting.text \in field

(* verify_paste, `readable` being whether the field shows its text.         *)
AssumePasted == At("typed") /\ Conclude("Pasted") /\ UNCHANGED field
Verified(from) == At(from) /\ Verifies /\ TailPresent /\ Conclude("Pasted") /\ UNCHANGED field
Retype == Verifies /\ ~TailPresent /\ Types("typed", "retyped")
NotVerified == /\ At("retyped") \/ (At("typed") /\ Verifies /\ ~TailPresent)
               /\ Conclude("VerificationFailed") /\ UNCHANGED field

Pastes ==
  \/ Save \/ Set \/ PasteFails
  \/ \E o \in Skipped : Skip(o)
  \/ Types("set", "typed") \/ Retype
  \/ AssumePasted \/ Verified("typed") \/ Verified("retyped") \/ NotVerified

-----------------------------------------------------------------------------
(* The restore thread: looks, and writes the snapshot if the transcript is  *)
(* still there.                                                             *)
(* Mutant: the snapshot is put back whatever is there now.                  *)
RestoreAlways(r) == TRUE

ShouldRestore(r) == clip = r.text

RestorerLooks(r) ==
  /\ ~r.looked /\ ShouldRestore(r) /\ r.previous # NoContent
  /\ restorers' = (restorers \ {r}) \cup {[r EXCEPT !.looked = TRUE]}
  /\ UNCHANGED <<clip, pasting, field, texts, copied, taken, raced, told>>

(* The user has copied something else, or the snapshot could not be taken.  *)
RestorerLeaves(r) ==
  /\ ~r.looked /\ (~ShouldRestore(r) \/ r.previous = NoContent)
  /\ restorers' = restorers \ {r}
  /\ UNCHANGED <<clip, pasting, field, texts, copied, taken, raced, told>>

RestorerWrites(r) ==
  /\ r.looked
  /\ clip' = r.previous
  /\ restorers' = restorers \ {r}
  /\ UNCHANGED <<pasting, field, texts, copied, taken, raced, told>>

Restores == \E r \in restorers : RestorerLooks(r) \/ RestorerLeaves(r) \/ RestorerWrites(r)

-----------------------------------------------------------------------------
(* A transcript put on the clipboard to stay: one that came late, or was    *)
(* recovered from the saved recording by a thread of its own.               *)
PutTranscript ==
  /\ texts < MaxTexts
  /\ texts' = texts + 1
  /\ clip' = Transcript(texts + 1) /\ told' = clip'
  /\ taken' = TRUE
  /\ UNCHANGED <<pasting, restorers, field, copied, raced>>

DeliverToClipboard == At("idle") /\ PutTranscript
RecoveredToClipboard == PutTranscript

ClipNext == \/ \E k \in Kinds : UserCopies(k)
            \/ Pastes \/ Restores \/ DeliverToClipboard \/ RecoveredToClipboard
=============================================================================
