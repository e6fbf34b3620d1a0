------------------------------- MODULE Chunking -------------------------------
(***************************************************************************)
(* Where long audio is cut into chunks and how the transcripts of chunks   *)
(* are joined (flow-core/src/chunking.rs).  Pure: used by the batch path   *)
(* on whole recordings and by the rolling worker on growing ones.          *)
(*                                                                         *)
(* Audio is a sequence of units, each a word (a positive number, normalised *)
(* as the seam comparison sees it) or Quiet; a transcript is a sequence of *)
(* words.  Lengths and offsets are in units.                               *)
(***************************************************************************)
EXTENDS Naturals, SequencesExt

CONSTANTS
  SinglePassMax,   \* SINGLE_PASS_MAX_SECS and CUT_WINDOW_MAX_SECS: a chunk at most
  CutWindowMin,    \* CUT_WINDOW_MIN_SECS: a chunk cut in silence is longer
  Overlap,         \* OVERLAP_SECS: heard twice after a hard cut
  SeamWords        \* MAX_SEAM_OVERLAP_WORDS

(* What keeps the plan advancing ("cut >= 25s >> overlap" in plan_chunks).  *)
ASSUME ChunkingAssumption ==
  /\ SinglePassMax \in Nat /\ CutWindowMin \in Nat /\ Overlap \in Nat /\ SeamWords \in Nat
  /\ Overlap <= CutWindowMin /\ CutWindowMin < SinglePassMax

Quiet == 0

(* What is left of a sequence without some of its elements.                 *)
Without(s, unwanted) ==
  LET kept[n \in 0..Len(s)] ==
        IF n = 0 THEN <<>>
        ELSE IF s[n] \in unwanted THEN kept[n - 1] ELSE Append(kept[n - 1], s[n])
  IN  kept[Len(s)]

(* The words of the audio, in order.                                        *)
Words(audio) == Without(audio, {Quiet})

(* A ChunkPlan.                                                             *)
Plan(start, len, needs_dedup) ==
  [start |-> start, len |-> len, needs_dedup |-> needs_dedup]

Span(audio, p) == SubSeq(audio, p.start + 1, p.start + p.len)

(* plan_cut, for `remaining` longer than SinglePassMax: in the first quiet  *)
(* unit of the window if there is one, else mid-speech at the window's end. *)
PlanCut(remaining) ==
  LET quiet == {i \in CutWindowMin + 1 .. SinglePassMax : remaining[i] = Quiet}
  IN  IF quiet # {} THEN [at |-> Min(quiet), kind |-> "Silence"]
                    ELSE [at |-> SinglePassMax, kind |-> "Hard"]

(* How far the next chunk's start is from the start of the one cut.         *)
Advance(cut) == IF cut.kind = "Silence" THEN cut.at ELSE cut.at - Overlap

(* plan_chunks: the whole recording at once.                                *)
PlanChunks(audio) ==
  LET n == Len(audio)
      from[pos \in 0..n] == [dedup \in BOOLEAN |->
        IF pos = n THEN <<>>
        ELSE IF n - pos <= SinglePassMax THEN <<Plan(pos, n - pos, dedup)>>
        ELSE LET cut == PlanCut(SubSeq(audio, pos + 1, n))
             IN  <<Plan(pos, cut.at, dedup)>> \o from[pos + Advance(cut)][cut.kind = "Hard"]]
  IN  from[0][FALSE]

(* quietest_split: somewhere in the middle half, both parts substantial.    *)
Splits(len) == {s \in 1 .. len - 1 : len <= 4 * s /\ 4 * s <= 3 * len}

-----------------------------------------------------------------------------
(* Mutant: the words heard twice at a seam are kept.                        *)
KeepSeam(prev, next) == next

(* dedup_seam: drop from `next` its longest beginning that ends `prev`.     *)
DedupSeam(prev, next) ==
  LET cap == Min({SeamWords, Len(prev), Len(next)})
      repeated == {l \in 0..cap : IsSuffix(SubSeq(next, 1, l), prev)}
  IN  SubSeq(next, Max(repeated) + 1, Len(next))

(* assemble: what each chunk adds to the chunk before it, its beginning      *)
(* removed where the plan says the audio overlaps, all in a row.            *)
Assemble(plans, texts) ==
  LET n == Len(plans)
      added[i \in 0..n] ==
        IF i = 0 THEN <<>>
        ELSE IF plans[i].needs_dedup THEN DedupSeam(added[i - 1], texts[i])
                                     ELSE texts[i]
      joined[i \in 0..n] == IF i = 0 THEN <<>> ELSE joined[i - 1] \o added[i]
  IN  joined[n]
=============================================================================
