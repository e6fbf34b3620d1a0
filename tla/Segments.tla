------------------------------- MODULE Segments -------------------------------
(***************************************************************************)
(* How a long transcript is split for the clean-up model                   *)
(* (split_into_segments in flow-core/src/cleanup.rs).  Pure.               *)
(*                                                                         *)
(* A text is a sequence of Booleans: for each word, whether it ends a      *)
(* sentence.  Segments take the words in order, so a segment is its length.*)
(***************************************************************************)
EXTENDS Naturals, Sequences

CONSTANTS
  SegmentAbove,     \* SEGMENT_ABOVE_WORDS: not split up to here
  SegmentMin,       \* SEGMENT_MIN_WORDS: closed once it has these
  SegmentMax,       \* SEGMENT_MAX_WORDS: a piece at most
  SegmentMinTail    \* SEGMENT_MIN_TAIL_WORDS

ASSUME SegmentsAssumption ==
  /\ SegmentAbove \in Nat /\ SegmentMin \in Nat \ {0}
  /\ SegmentMax \in Nat /\ SegmentMin <= SegmentMax /\ SegmentMinTail \in Nat

(* A piece is a sentence, or a part of one longer than SegmentMax that is   *)
(* cut into parts of that length; this one has `piece` words with word `i`. *)
EndsPiece(text, i, piece) == text[i] \/ i = Len(text) \/ piece = SegmentMax

(* A piece that does not fit closes the segment being filled; one that      *)
(* fills it closes it too.                                                  *)
AddPiece(s, piece) ==
  LET fits == s.cur + piece <= SegmentMax
      closed == IF fits \/ s.cur = 0 THEN s.segments ELSE Append(s.segments, s.cur)
      cur == IF fits THEN s.cur + piece ELSE piece
  IN  IF cur >= SegmentMin THEN [segments |-> Append(closed, cur), cur |-> 0, piece |-> 0]
                           ELSE [segments |-> closed, cur |-> cur, piece |-> 0]

TakeWord(text, i, s) ==
  LET piece == s.piece + 1
  IN  IF EndsPiece(text, i, piece) THEN AddPiece(s, piece) ELSE [s EXCEPT !.piece = piece]

(* Mutant: a short remainder is dropped.                                    *)
DropTail(s) == s.segments

(* A short remainder joins the segment before it.                           *)
AddTail(s) ==
  LET last == Len(s.segments)
  IN  IF s.cur = 0 THEN s.segments
      ELSE IF s.cur < SegmentMinTail /\ last > 0
           THEN [s.segments EXCEPT ![last] = @ + s.cur]
           ELSE Append(s.segments, s.cur)

(* split_into_segments: `filled[i]` is what is filled by the first i words. *)
SplitIntoSegments(text) ==
  LET filled[i \in 0..Len(text)] ==
        IF i = 0 THEN [segments |-> <<>>, cur |-> 0, piece |-> 0]
                 ELSE TakeWord(text, i, filled[i - 1])
  IN  IF Len(text) <= SegmentAbove THEN <<Len(text)>> ELSE AddTail(filled[Len(text)])
=============================================================================
