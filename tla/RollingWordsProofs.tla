-------------------------- MODULE RollingWordsProofs --------------------------
(***************************************************************************)
(* Which words a transcript of the rolling worker has, for every recording *)
(* and every course of failures: each word that was heard, if the          *)
(* transcript is reported whole, and none of them twice.                   *)
(***************************************************************************)
EXTENDS RollingProofs

-----------------------------------------------------------------------------
(* What the parts of a chunk are.                                           *)

LEMMA UnitsAreNumbers == Units \subseteq Nat /\ Texts \subseteq Seq(Nat)
<1>1. Units \subseteq Nat
  BY Numbers DEF Units
<1>2. QED BY <1>1, SeqMonotonic DEF Texts

(* The samples of a chunk's parts.                                          *)
LEMMA SamplesAre ==
  ASSUME NEW S, NEW heard \in Seq(S), NEW p \in PlanRecords, p.start + p.len <= Len(heard),
         NEW split \in 0..p.len
  PROVE  /\ Samples(heard, p, "Whole", split) = Piece(heard, p.start, End(p))
         /\ Samples(heard, p, "FirstHalf", split) = Piece(heard, p.start, p.start + split)
         /\ Samples(heard, p, "SecondHalf", split) = Piece(heard, p.start + split, End(p))
         /\ p.start \in Nat /\ p.len \in Nat /\ End(p) \in Nat
         /\ p.start <= p.start + split /\ p.start + split <= End(p) /\ End(p) <= Len(heard)
<1>1. /\ p.start \in Nat /\ p.len \in Nat /\ End(p) \in Nat /\ End(p) = p.start + p.len
      /\ split \in Nat /\ split <= p.len /\ End(p) - p.start = p.len
      /\ p.start <= End(p) /\ End(p) <= Len(heard)
  BY DEF PlanRecords, End
<1> DEFINE chunk == Span(heard, p)
<1>2. chunk = Piece(heard, p.start, End(p))
  BY <1>1 DEF Span, Piece
<1> HIDE DEF chunk
<1>3. Piece(chunk, 0, split) = Piece(heard, p.start, p.start + split)
  <2>1. Piece(chunk, 0, split) = Piece(heard, p.start + 0, p.start + split)
    BY <1>1, <1>2, PieceOfPiece
  <2>2. QED BY <1>1, <2>1
<1>4. Piece(chunk, split, p.len) = Piece(heard, p.start + split, End(p))
  <2>1. Piece(chunk, split, p.len) = Piece(heard, p.start + split, p.start + p.len)
    BY <1>1, <1>2, PieceOfPiece
  <2>2. QED BY <1>1, <2>1
<1>5. Piece(chunk, 0, split) = SubSeq(chunk, 1, split)
  BY DEF Piece
<1>6. /\ Samples(heard, p, "Whole", split) = chunk
      /\ Samples(heard, p, "FirstHalf", split) = SubSeq(chunk, 1, split)
      /\ Samples(heard, p, "SecondHalf", split) = SubSeq(chunk, split + 1, p.len)
  <2>1. "FirstHalf" # "Whole" /\ "SecondHalf" # "Whole" /\ "SecondHalf" # "FirstHalf"
    OBVIOUS
  <2>2. Samples(heard, p, "Whole", split) = chunk
    BY DEF Samples, chunk
  <2>3. Samples(heard, p, "FirstHalf", split) = SubSeq(chunk, 1, split)
    BY <2>1, Zenon DEF Samples, chunk
  <2>4. Samples(heard, p, "SecondHalf", split) = SubSeq(chunk, split + 1, p.len)
    BY <2>1, Zenon DEF Samples, chunk
  <2>5. QED BY <2>2, <2>3, <2>4
<1>7. Samples(heard, p, "Whole", split) = Piece(heard, p.start, End(p))
  BY <1>2, <1>6
<1>8. Samples(heard, p, "FirstHalf", split) = Piece(heard, p.start, p.start + split)
  BY <1>3, <1>5, <1>6
<1>9. Samples(heard, p, "SecondHalf", split) = Piece(heard, p.start + split, End(p))
  <2>1. Piece(chunk, split, p.len) = SubSeq(chunk, split + 1, p.len)
    BY DEF Piece
  <2>2. QED BY <1>4, <1>6, <2>1
<1>10. p.start <= p.start + split /\ p.start + split <= End(p)
  BY <1>1
<1>11. QED BY <1>1, <1>7, <1>8, <1>9, <1>10

-----------------------------------------------------------------------------
(* What the engine makes of samples: their words, or nothing; and what it   *)
(* gave nothing for it failed at or is deaf to.                             *)
Right(text, failed, samples, deaf) ==
  /\ text \in {<<>>, Words(samples)}
  /\ failed \/ ToSet(Words(samples)) \subseteq ToSet(text) \cup deaf
AnswersTo(r, samples, deaf) ==
  /\ Right(r.text, Failed(r), samples, deaf)
  /\ r.result = "empty" => r.text = <<>>

(* Commands asked and answers told to a client are about its samples.       *)
Fits(client, samples, asked, told, deaf) ==
  /\ \A c \in asked : c.client = client => c.samples = samples
  /\ \A r \in told : r.client = client => AnswersTo(r, samples, deaf)
HalfFits(client, half, samples, asked, told, deaf) ==
  /\ Fits(client, samples, asked, told, deaf)
  /\ half.state # "open" => Right(half.text, half.state = "err", samples, deaf)

(* Halves are long enough that each holds the whole of a seam.  (A chunk is *)
(* cut in halves from 8 s on, in its middle half; a seam is of 1.5 s.)      *)
HalvesHoldSeams ==
  \A len \in Nat : len >= ResplitMin =>
    \A s \in Splits(len) : Overlap <= s /\ s + Overlap <= len

(* The text of a chunk that is done says words of the chunk and no others,  *)
(* all that were heard unless it failed; in order, and all or none of those *)
(* a seam may share.                                                        *)
Settled(slot, p, heard, deaf) ==
  /\ SaysItsOwn(slot.text, p, heard)
  /\ slot.failed \/ MinTail > 1 \/ SaysAll(slot.text, p, heard, deaf)
  /\ Distinct(heard) =>
       /\ Increasing(slot.text)
       /\ Overlap <= p.len /\ HalvesHoldSeams => SaysWholeSeams(slot.text, p, heard)

SlotRight(i, slot, p, heard, asked, told, deaf) ==
  /\ slot.kind # "Done" => slot.text = <<>>
  /\ slot.kind = "Whole" => Fits(<<i, "Whole">>, Samples(heard, p, "Whole", 0), asked, told, deaf)
  /\ slot.kind = "Halves" =>
       /\ p.len >= ResplitMin
       /\ \E split \in Splits(p.len) :
            /\ HalfFits(<<i, "FirstHalf">>, slot.first, Samples(heard, p, "FirstHalf", split),
                        asked, told, deaf)
            /\ HalfFits(<<i, "SecondHalf">>, slot.second, Samples(heard, p, "SecondHalf", split),
                        asked, told, deaf)
  /\ slot.kind = "Done" => Settled(slot, p, heard, deaf)

(* Who asks is a part of a chunk; a chunk not cut in halves asks as a whole. *)
KnownClient(x, all) ==
  x # <<>> => \E i \in DOMAIN all, part \in Parts :
                x = <<i, part>> /\ (all[i].kind = "Whole" => part = "Whole")

Requests == ToSet(queue) \cup {serving}
Replied == replies \cup ToSet(results)
SaysInv ==
  /\ ~Repeats => Distinct(audio)
  /\ \A c \in Requests \cup Replied : KnownClient(c.client, slots)
  /\ \A i \in DOMAIN slots :
       SlotRight(i, slots[i], plans[i], audio, Requests, Replied, unheard)

-----------------------------------------------------------------------------
(* A chunk settles well.                                                    *)

LEMMA SplitIs ==
  ASSUME NEW len \in Nat, NEW split \in Splits(len)
  PROVE  split \in Nat /\ split \in 0..len
BY DEF Splits

(* As a whole.                                                              *)
LEMMA WholeSettles ==
  ASSUME NEW heard \in Texts, NEW p \in PlanRecords, p.start + p.len <= Len(heard),
         NEW text \in Texts, NEW failed \in BOOLEAN, NEW deaf,
         Right(text, failed, Samples(heard, p, "Whole", 0), deaf)
  PROVE  Settled(Done(text, failed), p, heard, deaf)
<1> DEFINE samples == Samples(heard, p, "Whole", 0)
<1>1. /\ Done(text, failed).text = text /\ Done(text, failed).failed = failed
      /\ heard \in Seq(Nat) /\ text \in Seq(Nat)
  BY SlotsAre, UnitsAreNumbers
<1>2. /\ samples = Piece(heard, p.start, End(p)) /\ p.start \in Nat /\ p.len \in Nat
      /\ End(p) \in Nat /\ p.start <= End(p) /\ End(p) <= Len(heard) /\ End(p) = p.start + p.len
  <2>1. p.len \in Nat /\ 0 \in 0..p.len /\ p.start + 0 = p.start
    BY DEF PlanRecords
  <2>2. QED BY <2>1, SamplesAre DEF Texts, End
<1>3. /\ ToSet(Words(samples)) = Between(heard, p.start, End(p))
      /\ Distinct(heard) => Increasing(Words(samples))
  BY <1>1, <1>2, PieceSays
<1>4. ToSet(<<>>) = {} /\ Increasing(<<>>)
  BY DEF ToSet, Increasing
<1>5. /\ text = <<>> \/ text = Words(samples)
      /\ failed \/ ToSet(Words(samples)) \subseteq ToSet(text) \cup deaf
  BY DEF Right
<1>5a. \A a, b, c \in Nat :
         a <= b /\ b <= c => Between(heard, a, c) = Between(heard, a, b) \cup Between(heard, b, c)
  BY BetweenJoins
<1> HIDE DEF samples
<1>6. SaysItsOwn(text, p, heard) /\ (failed \/ SaysAll(text, p, heard, deaf))
  BY <1>3, <1>4, <1>5 DEF SaysItsOwn, SaysAll
<1>7. Distinct(heard) => Increasing(text)
  BY <1>3, <1>4, <1>5
<1>8. ASSUME Distinct(heard), Overlap <= p.len
      PROVE  SaysWholeSeams(text, p, heard)
  <2>1. CASE text = <<>>
    BY <1>4, <2>1 DEF SaysWholeSeams
  <2>2. CASE text = Words(samples)
    <3>1. /\ p.start + Overlap \in Nat /\ p.start + Overlap <= End(p) /\ End(p) - Overlap \in Nat
          /\ p.start <= p.start + Overlap /\ p.start <= End(p) - Overlap
          /\ End(p) - Overlap <= End(p)
      BY <1>2, <1>8, Numbers
    <3>2. Between(heard, p.start, End(p)) = Between(heard, p.start, p.start + Overlap)
                                            \cup Between(heard, p.start + Overlap, End(p))
      BY <1>2, <3>1, <1>5a
    <3>3. Between(heard, p.start, End(p)) = Between(heard, p.start, End(p) - Overlap)
                                            \cup Between(heard, End(p) - Overlap, End(p))
      BY <1>2, <3>1, <1>5a
    <3>4. ToSet(text) = Between(heard, p.start, End(p))
      BY <1>3, <2>2
    <3>5. QED BY <3>2, <3>3, <3>4 DEF SaysWholeSeams
  <2>3. QED BY <1>5, <2>1, <2>2
<1>9. QED BY <1>1, <1>6, <1>7, <1>8 DEF Settled

(* By its halves.                                                           *)
LEMMA HalvesSettle ==
  ASSUME NEW heard \in Texts, NEW p \in PlanRecords, p.start + p.len <= Len(heard),
         NEW split \in Splits(p.len), p.len >= ResplitMin,
         NEW first \in Texts, NEW second \in Texts, NEW ferr \in BOOLEAN, NEW serr \in BOOLEAN,
         NEW deaf,
         Right(first, ferr, Samples(heard, p, "FirstHalf", split), deaf),
         Right(second, serr, Samples(heard, p, "SecondHalf", split), deaf),
         NEW failed \in BOOLEAN, ferr \/ serr => failed
  PROVE  Settled(Done(first \o second, failed), p, heard, deaf)
<1> DEFINE text == first \o second
           mid == p.start + split
           s1 == Samples(heard, p, "FirstHalf", split)
           s2 == Samples(heard, p, "SecondHalf", split)
<1>1. /\ text \in Texts /\ Done(text, failed).text = text /\ Done(text, failed).failed = failed
      /\ heard \in Seq(Nat) /\ first \in Seq(Nat) /\ second \in Seq(Nat)
  <2>1. text \in Texts
    BY ConcatProperties DEF Texts
  <2>2. heard \in Seq(Nat) /\ first \in Seq(Nat) /\ second \in Seq(Nat)
    BY UnitsAreNumbers
  <2> HIDE DEF text
  <2>3. Done(text, failed).text = text /\ Done(text, failed).failed = failed
    BY <2>1, SlotsAre
  <2>4. QED BY <2>1, <2>2, <2>3
<1>2. /\ s1 = Piece(heard, p.start, mid) /\ s2 = Piece(heard, mid, End(p))
      /\ p.start \in Nat /\ p.len \in Nat /\ End(p) \in Nat /\ mid \in Nat /\ split \in Nat
      /\ p.start <= mid /\ mid <= End(p) /\ End(p) <= Len(heard) /\ mid <= Len(heard)
      /\ End(p) = p.start + p.len
  <2>1. p.len \in Nat /\ p.start \in Nat
    BY DEF PlanRecords
  <2>2. split \in 0..p.len /\ split \in Nat
    BY <2>1, SplitIs
  <2>3. /\ s1 = Piece(heard, p.start, mid) /\ s2 = Piece(heard, mid, End(p))
        /\ End(p) \in Nat /\ p.start <= mid /\ mid <= End(p) /\ End(p) <= Len(heard)
    BY <2>2, SamplesAre DEF Texts
  <2>4. Len(heard) \in Nat
    BY <1>1, LenProperties
  <2>5. QED BY <2>1, <2>2, <2>3, <2>4 DEF End
<1>3. /\ ToSet(Words(s1)) = Between(heard, p.start, mid)
      /\ ToSet(Words(s2)) = Between(heard, mid, End(p))
      /\ Words(s1) \in Seq(Nat) /\ Words(s2) \in Seq(Nat)
      /\ Distinct(heard) => Increasing(Words(s1)) /\ Increasing(Words(s2))
  <2> HIDE DEF mid, s1, s2
  <2>1. QED BY <1>1, <1>2, PieceSays
<1>4. ToSet(<<>>) = {} /\ Increasing(<<>>)
  BY DEF ToSet, Increasing
<1>5. /\ first = <<>> \/ first = Words(s1)
      /\ ferr \/ ToSet(Words(s1)) \subseteq ToSet(first) \cup deaf
      /\ second = <<>> \/ second = Words(s2)
      /\ serr \/ ToSet(Words(s2)) \subseteq ToSet(second) \cup deaf
  BY DEF Right
<1>6. ToSet(text) = ToSet(first) \cup ToSet(second)
  BY <1>1, ToSetOfConcat
<1>6a. \A a, b, c \in Nat :
         a <= b /\ b <= c => Between(heard, a, c) = Between(heard, a, b) \cup Between(heard, b, c)
  BY BetweenJoins
<1>7. Between(heard, p.start, End(p)) = Between(heard, p.start, mid) \cup Between(heard, mid, End(p))
  <2> HIDE DEF mid
  <2>1. QED BY <1>2, <1>6a
<1> HIDE DEF text, mid, s1, s2
<1>8. /\ ToSet(first) \subseteq Between(heard, p.start, mid)
      /\ ToSet(second) \subseteq Between(heard, mid, End(p))
  BY <1>3, <1>4, <1>5
<1>9. SaysItsOwn(text, p, heard)
  BY <1>6, <1>7, <1>8 DEF SaysItsOwn
<1>10. failed \/ SaysAll(text, p, heard, deaf)
  BY <1>3, <1>5, <1>6, <1>7 DEF SaysAll
<1>11. ASSUME Distinct(heard) PROVE Increasing(text)
  <2>1. Increasing(first) /\ Increasing(second)
    BY <1>3, <1>4, <1>5, <1>11
  <2>2. \A x \in Between(heard, p.start, mid) : x \in Nat /\ x <= mid
    BY <1>1, <1>2, <1>11, BetweenIs
  <2>3. \A y \in Between(heard, mid, End(p)) : y \in Nat /\ mid < y
    BY <1>1, <1>2, <1>11, BetweenIs
  <2>4. \A x \in ToSet(first), y \in ToSet(second) : x < y
    BY <1>2, <1>8, <2>2, <2>3
  <2>5. QED BY <1>1, <2>1, <2>4, IncreasingConcat DEF text
<1>12. ASSUME Distinct(heard), HalvesHoldSeams
       PROVE  SaysWholeSeams(text, p, heard)
  <2>1. /\ p.start + Overlap \in Nat /\ p.start <= p.start + Overlap /\ p.start + Overlap <= mid
        /\ End(p) - Overlap \in Nat /\ mid <= End(p) - Overlap /\ End(p) - Overlap <= End(p)
        /\ Overlap \in Nat
    <3>1. Overlap <= split /\ split + Overlap <= p.len /\ Overlap \in Nat
      BY <1>2, <1>12, Numbers DEF HalvesHoldSeams
    <3> DEFINE a == p.start
               l == p.len
    <3>2. a \in Nat /\ l \in Nat /\ split \in Nat
      BY <1>2
    <3>3. mid = a + split /\ End(p) = a + l /\ l = p.len
      BY <1>2 DEF mid
    <3> HIDE DEF a, l
    <3>4. /\ a + Overlap \in Nat /\ a <= a + Overlap /\ a + Overlap <= a + split
          /\ (a + l) - Overlap \in Nat /\ a + split <= (a + l) - Overlap
          /\ (a + l) - Overlap <= a + l
      BY <3>1, <3>2, <3>3
    <3>5. QED BY <3>1, <3>3, <3>4 DEF a
  <2>2. \/ Between(heard, p.start, p.start + Overlap) \subseteq ToSet(text)
        \/ \A x \in ToSet(text) : p.start + Overlap < x
    <3>1. CASE first = Words(s1)
      <4>1. Between(heard, p.start, mid) = Between(heard, p.start, p.start + Overlap)
                                           \cup Between(heard, p.start + Overlap, mid)
        BY <1>2, <2>1, <1>6a
      <4>2. QED BY <1>3, <1>6, <3>1, <4>1
    <3>2. CASE first = <<>>
      <4>1. \A y \in Between(heard, mid, End(p)) : y \in Nat /\ mid < y
        BY <1>1, <1>2, <1>12, BetweenIs
      <4>2. \A y \in Between(heard, mid, End(p)) : p.start + Overlap < y
        BY <1>2, <2>1, <4>1
      <4>3. \A x \in ToSet(text) : x \in Between(heard, mid, End(p))
        BY <1>4, <1>6, <1>8, <3>2
      <4>4. QED BY <4>2, <4>3
    <3>3. QED BY <1>5, <3>1, <3>2
  <2>3. \/ Between(heard, End(p) - Overlap, End(p)) \subseteq ToSet(text)
        \/ \A x \in ToSet(text) : x <= End(p) - Overlap
    <3>1. CASE second = Words(s2)
      <4>1. Between(heard, mid, End(p)) = Between(heard, mid, End(p) - Overlap)
                                          \cup Between(heard, End(p) - Overlap, End(p))
        BY <1>2, <2>1, <1>6a
      <4>2. QED BY <1>3, <1>6, <3>1, <4>1
    <3>2. CASE second = <<>>
      <4>1. \A y \in Between(heard, p.start, mid) : y \in Nat /\ y <= mid
        BY <1>1, <1>2, <1>12, BetweenIs
      <4>2. \A y \in Between(heard, p.start, mid) : y <= End(p) - Overlap
        BY <1>2, <2>1, <4>1
      <4>3. \A x \in ToSet(text) : x \in Between(heard, p.start, mid)
        BY <1>4, <1>6, <1>8, <3>2
      <4>4. QED BY <4>2, <4>3
    <3>3. QED BY <1>5, <3>1, <3>2
  <2>4. QED BY <2>2, <2>3 DEF SaysWholeSeams
<1>13. failed \/ MinTail > 1 \/ SaysAll(text, p, heard, deaf)
  BY <1>10
<1>14. QED BY <1>1, <1>9, <1>11, <1>12, <1>13 DEF Settled, text

(* A tail too short to be transcribed; when it is shorter than one unit,    *)
(* nothing is left out.                                                     *)
LEMMA TailSettles ==
  ASSUME NEW heard \in Texts, NEW p \in PlanRecords, p.len < MinTail, NEW deaf
  PROVE  Settled(Done(<<>>, FALSE), p, heard, deaf)
<1>1. ToSet(<<>>) = {} /\ Increasing(<<>>)
  BY DEF ToSet, Increasing
<1>2. Done(<<>>, FALSE).text = <<>> /\ Done(<<>>, FALSE).failed = FALSE
  BY SlotsAre, EmptyText
<1>3. MinTail > 1 \/ Between(heard, p.start, End(p)) = {}
  <2>1. p.start \in Nat /\ p.len \in Nat
    BY DEF PlanRecords
  <2>2. MinTail > 1 \/ p.len = 0
    BY <2>1, Numbers
  <2>3. p.len = 0 => p.start + 1 .. End(p) = {}
    BY <2>1 DEF End
  <2>4. QED BY <2>2, <2>3 DEF Between
<1>4. MinTail > 1 \/ SaysAll(<<>>, p, heard, deaf)
  BY <1>3 DEF SaysAll
<1>5. SaysItsOwn(<<>>, p, heard) /\ SaysWholeSeams(<<>>, p, heard)
  BY <1>1 DEF SaysItsOwn, SaysWholeSeams
<1>6. QED BY <1>1, <1>2, <1>4, <1>5 DEF Settled

-----------------------------------------------------------------------------
(* What is right stays right.                                               *)

(* New answers are to what was asked.                                       *)
LEMMA FitsStay ==
  ASSUME NEW client, NEW samples, NEW asked, NEW told, NEW deaf, NEW asked2, NEW told2, NEW deaf2,
         deaf \subseteq deaf2,
         \A c \in asked2 : c.client = client => c \in asked,
         \A r \in told2 : r.client = client =>
            \/ r \in told
            \/ \E c \in asked : c.client = client /\ AnswersTo(r, c.samples, deaf2),
         Fits(client, samples, asked, told, deaf)
  PROVE  Fits(client, samples, asked2, told2, deaf2)
<1>1. \A c \in asked2 : c.client = client => c.samples = samples
  BY DEF Fits
<1>2. ASSUME NEW r \in told2, r.client = client
      PROVE  AnswersTo(r, samples, deaf2)
  <2>1. CASE r \in told
    BY <1>2, <2>1 DEF Fits, AnswersTo, Right
  <2>2. CASE \E c \in asked : c.client = client /\ AnswersTo(r, c.samples, deaf2)
    BY <2>2 DEF Fits
  <2>3. QED BY <1>2, <2>1, <2>2
<1>3. QED BY <1>1, <1>2 DEF Fits

LEMMA HalfFitsStay ==
  ASSUME NEW client, NEW half, NEW samples, NEW asked, NEW told, NEW deaf,
         NEW asked2, NEW told2, NEW deaf2,
         deaf \subseteq deaf2,
         \A c \in asked2 : c.client = client => c \in asked,
         \A r \in told2 : r.client = client =>
            \/ r \in told
            \/ \E c \in asked : c.client = client /\ AnswersTo(r, c.samples, deaf2),
         HalfFits(client, half, samples, asked, told, deaf)
  PROVE  HalfFits(client, half, samples, asked2, told2, deaf2)
<1>1. Fits(client, samples, asked2, told2, deaf2)
  <2>1. Fits(client, samples, asked, told, deaf)
    BY DEF HalfFits
  <2>2. QED BY <2>1, FitsStay
<1>2. half.state # "open" => Right(half.text, half.state = "err", samples, deaf2)
  BY DEF HalfFits, Right
<1>3. QED BY <1>1, <1>2 DEF HalfFits

LEMMA SettledStays ==
  ASSUME NEW slot, NEW p, NEW heard, NEW deaf, NEW deaf2, deaf \subseteq deaf2,
         Settled(slot, p, heard, deaf)
  PROVE  Settled(slot, p, heard, deaf2)
<1>1. SaysAll(slot.text, p, heard, deaf) => SaysAll(slot.text, p, heard, deaf2)
  BY DEF SaysAll
<1>2. QED BY <1>1 DEF Settled

(* Nothing new is asked for chunk i, and what is newly told answers what    *)
(* was asked for it.                                                        *)
AskedBefore(i, asked, asked2) ==
  \A c \in asked2, part \in Parts : c.client = <<i, part>> => c \in asked
ToldRight(i, asked, told, told2, deaf2) ==
  \A r \in told2, part \in Parts : r.client = <<i, part>> =>
     \/ r \in told
     \/ \E c \in asked : c.client = <<i, part>> /\ AnswersTo(r, c.samples, deaf2)

LEMMA SlotStays ==
  ASSUME NEW i, NEW slot, NEW p, NEW heard, NEW asked, NEW told, NEW deaf,
         NEW asked2, NEW told2, NEW deaf2,
         deaf \subseteq deaf2,
         AskedBefore(i, asked, asked2), ToldRight(i, asked, told, told2, deaf2),
         SlotRight(i, slot, p, heard, asked, told, deaf)
  PROVE  SlotRight(i, slot, p, heard, asked2, told2, deaf2)
<1> DEFINE Stays(part) ==
             /\ \A c \in asked2 : c.client = <<i, part>> => c \in asked
             /\ \A r \in told2 : r.client = <<i, part>> =>
                  \/ r \in told
                  \/ \E c \in asked : c.client = <<i, part>> /\ AnswersTo(r, c.samples, deaf2)
<1>1. Stays("Whole") /\ Stays("FirstHalf") /\ Stays("SecondHalf")
  BY DEF Parts, AskedBefore, ToldRight
<1>2. ASSUME NEW samples, Fits(<<i, "Whole">>, samples, asked, told, deaf)
      PROVE  Fits(<<i, "Whole">>, samples, asked2, told2, deaf2)
  <2> DEFINE client == <<i, "Whole">>
  <2>1. /\ \A c \in asked2 : c.client = client => c \in asked
        /\ \A r \in told2 : r.client = client =>
             \/ r \in told
             \/ \E c \in asked : c.client = client /\ AnswersTo(r, c.samples, deaf2)
        /\ Fits(client, samples, asked, told, deaf)
    BY <1>1, <1>2
  <2> HIDE DEF client
  <2>2. Fits(client, samples, asked2, told2, deaf2)
    BY <2>1, FitsStay
  <2>3. QED BY <2>2 DEF client
<1>3. ASSUME NEW part \in {"FirstHalf", "SecondHalf"}, NEW half, NEW samples,
             HalfFits(<<i, part>>, half, samples, asked, told, deaf)
      PROVE  HalfFits(<<i, part>>, half, samples, asked2, told2, deaf2)
  <2> DEFINE client == <<i, part>>
  <2>1. Stays(part)
    BY <1>1
  <2>2. /\ \A c \in asked2 : c.client = client => c \in asked
        /\ \A r \in told2 : r.client = client =>
             \/ r \in told
             \/ \E c \in asked : c.client = client /\ AnswersTo(r, c.samples, deaf2)
        /\ HalfFits(client, half, samples, asked, told, deaf)
    BY <1>3, <2>1
  <2> HIDE DEF client
  <2>3. HalfFits(client, half, samples, asked2, told2, deaf2)
    BY <2>2, HalfFitsStay
  <2>4. QED BY <2>3 DEF client
<1> HIDE DEF Stays
<1>4. slot.kind # "Done" => slot.text = <<>>
  BY DEF SlotRight
<1>5. slot.kind = "Whole" =>
        Fits(<<i, "Whole">>, Samples(heard, p, "Whole", 0), asked2, told2, deaf2)
  BY <1>2 DEF SlotRight
<1>6. ASSUME slot.kind = "Halves"
      PROVE  /\ p.len >= ResplitMin
             /\ \E split \in Splits(p.len) :
                  /\ HalfFits(<<i, "FirstHalf">>, slot.first, Samples(heard, p, "FirstHalf", split),
                              asked2, told2, deaf2)
                  /\ HalfFits(<<i, "SecondHalf">>, slot.second,
                              Samples(heard, p, "SecondHalf", split), asked2, told2, deaf2)
  <2>1. p.len >= ResplitMin
    BY <1>6 DEF SlotRight
  <2>2. PICK split \in Splits(p.len) :
          /\ HalfFits(<<i, "FirstHalf">>, slot.first, Samples(heard, p, "FirstHalf", split),
                      asked, told, deaf)
          /\ HalfFits(<<i, "SecondHalf">>, slot.second, Samples(heard, p, "SecondHalf", split),
                      asked, told, deaf)
    BY <1>6 DEF SlotRight
  <2>3. /\ HalfFits(<<i, "FirstHalf">>, slot.first, Samples(heard, p, "FirstHalf", split),
                    asked2, told2, deaf2)
        /\ HalfFits(<<i, "SecondHalf">>, slot.second, Samples(heard, p, "SecondHalf", split),
                    asked2, told2, deaf2)
    BY <1>3, <2>2
  <2>4. QED BY <2>1, <2>3
<1>7. slot.kind = "Done" => Settled(slot, p, heard, deaf2)
  BY SettledStays DEF SlotRight
<1>8. QED BY <1>4, <1>5, <1>6, <1>7 DEF SlotRight

(* One more unit is heard.                                                  *)
LEMMA SlotStaysAsAudioGrows ==
  ASSUME NEW i, NEW slot \in Slots, NEW p \in PlanRecords, NEW heard \in Texts,
         p.start + p.len <= Len(heard), NEW u \in Units,
         NEW asked, NEW told, NEW deaf, SlotRight(i, slot, p, heard, asked, told, deaf)
  PROVE  SlotRight(i, slot, p, Append(heard, u), asked, told, deaf)
<1> DEFINE more == Append(heard, u)
<1>1. /\ more \in Texts /\ p.start \in Nat /\ p.len \in Nat /\ End(p) = p.start + p.len
      /\ End(p) \in Nat /\ p.start + p.len <= Len(more) /\ End(p) <= Len(heard)
  <2>1. more \in Texts /\ Len(more) = Len(heard) + 1 /\ Len(heard) \in Nat
    BY AppendProperties, LenProperties DEF Texts
  <2>2. p.start \in Nat /\ p.len \in Nat
    BY DEF PlanRecords
  <2> HIDE DEF more
  <2>3. QED BY <2>1, <2>2 DEF End
<1>2. \A from, to \in Nat : from <= to /\ to <= Len(heard) =>
        /\ Piece(more, from, to) = Piece(heard, from, to)
        /\ Between(more, from, to) = Between(heard, from, to)
  BY PieceStays DEF Texts
<1> HIDE DEF more
<1>3. ASSUME NEW split \in 0..p.len, NEW part \in Parts
      PROVE  Samples(more, p, part, split) = Samples(heard, p, part, split)
  <2>1. /\ Samples(heard, p, "Whole", split) = Piece(heard, p.start, End(p))
        /\ Samples(heard, p, "FirstHalf", split) = Piece(heard, p.start, p.start + split)
        /\ Samples(heard, p, "SecondHalf", split) = Piece(heard, p.start + split, End(p))
        /\ p.start <= p.start + split /\ p.start + split <= End(p)
    BY SamplesAre DEF Texts
  <2>2. /\ Samples(more, p, "Whole", split) = Piece(more, p.start, End(p))
        /\ Samples(more, p, "FirstHalf", split) = Piece(more, p.start, p.start + split)
        /\ Samples(more, p, "SecondHalf", split) = Piece(more, p.start + split, End(p))
    BY <1>1, SamplesAre DEF Texts
  <2>3. p.start + split \in Nat /\ p.start + split <= Len(heard) /\ p.start <= End(p)
    <3>1. Len(heard) \in Nat
      BY LenProperties DEF Texts
    <3>2. QED BY <1>1, <2>1, <3>1
  <2>4. /\ Piece(more, p.start, End(p)) = Piece(heard, p.start, End(p))
        /\ Piece(more, p.start, p.start + split) = Piece(heard, p.start, p.start + split)
        /\ Piece(more, p.start + split, End(p)) = Piece(heard, p.start + split, End(p))
    BY <1>1, <1>2, <2>1, <2>3
  <2>5. QED BY <2>1, <2>2, <2>4 DEF Parts
<1>4. \A from, to \in Nat : from <= to /\ to <= End(p) =>
        Between(more, from, to) = Between(heard, from, to)
  <2>1. Len(heard) \in Nat
    BY LenProperties DEF Texts
  <2>2. \A to \in Nat : to <= End(p) => to <= Len(heard)
    BY <1>1, <2>1
  <2>3. QED BY <1>2, <2>2
<1>5. slot.kind # "Done" => slot.text = <<>>
  BY DEF SlotRight
<1>6. slot.kind = "Whole" =>
        Fits(<<i, "Whole">>, Samples(more, p, "Whole", 0), asked, told, deaf)
  <2>1. 0 \in 0..p.len /\ "Whole" \in Parts
    BY <1>1 DEF Parts
  <2>2. Samples(more, p, "Whole", 0) = Samples(heard, p, "Whole", 0)
    BY <1>3, <2>1
  <2>3. QED BY <2>2 DEF SlotRight
<1>7. ASSUME slot.kind = "Halves"
      PROVE  /\ p.len >= ResplitMin
             /\ \E split \in Splits(p.len) :
                  /\ HalfFits(<<i, "FirstHalf">>, slot.first, Samples(more, p, "FirstHalf", split),
                              asked, told, deaf)
                  /\ HalfFits(<<i, "SecondHalf">>, slot.second,
                              Samples(more, p, "SecondHalf", split), asked, told, deaf)
  <2>1. \A split \in Splits(p.len) :
          /\ Samples(more, p, "FirstHalf", split) = Samples(heard, p, "FirstHalf", split)
          /\ Samples(more, p, "SecondHalf", split) = Samples(heard, p, "SecondHalf", split)
    <3>1. \A split \in Splits(p.len) : split \in 0..p.len
      BY <1>1, SplitIs
    <3>2. "FirstHalf" \in Parts /\ "SecondHalf" \in Parts
      BY DEF Parts
    <3>3. QED BY <1>3, <3>1, <3>2
  <2>2. PICK split \in Splits(p.len) :
          /\ HalfFits(<<i, "FirstHalf">>, slot.first, Samples(heard, p, "FirstHalf", split),
                      asked, told, deaf)
          /\ HalfFits(<<i, "SecondHalf">>, slot.second, Samples(heard, p, "SecondHalf", split),
                      asked, told, deaf)
    BY <1>7 DEF SlotRight
  <2>3. p.len >= ResplitMin
    BY <1>7 DEF SlotRight
  <2>4. QED BY <2>1, <2>2, <2>3
<1>8. ASSUME slot.kind = "Done"
      PROVE  Settled(slot, p, more, deaf)
  <2>1. Settled(slot, p, heard, deaf)
    BY <1>8 DEF SlotRight
  <2>2. Between(more, p.start, End(p)) = Between(heard, p.start, End(p))
    BY <1>1, <1>4
  <2>3. SaysItsOwn(slot.text, p, more)
    BY <2>1, <2>2 DEF Settled, SaysItsOwn
  <2>4. slot.failed \/ MinTail > 1 \/ SaysAll(slot.text, p, more, deaf)
    BY <2>1, <2>2 DEF Settled, SaysAll
  <2>5. Overlap <= p.len /\ SaysWholeSeams(slot.text, p, heard)
          => SaysWholeSeams(slot.text, p, more)
    <3> SUFFICES ASSUME Overlap <= p.len, SaysWholeSeams(slot.text, p, heard)
                 PROVE  SaysWholeSeams(slot.text, p, more)
      OBVIOUS
    <3>1. /\ p.start + Overlap \in Nat /\ p.start + Overlap <= End(p) /\ End(p) - Overlap \in Nat
          /\ p.start <= p.start + Overlap /\ End(p) - Overlap <= End(p)
      BY <1>1, Numbers
    <3>2. /\ Between(more, p.start, p.start + Overlap) = Between(heard, p.start, p.start + Overlap)
          /\ Between(more, End(p) - Overlap, End(p)) = Between(heard, End(p) - Overlap, End(p))
      <4>1. End(p) <= End(p)
        BY <1>1
      <4>2. QED BY <1>1, <1>4, <3>1, <4>1
    <3>3. QED BY <3>2 DEF SaysWholeSeams
  <2>6. Distinct(more) => Distinct(heard)
    <3>1. \A k \in 1..Len(heard) : k \in 1..Len(more) /\ more[k] = heard[k]
      BY AppendProperties, LenProperties DEF more, Texts
    <3>2. QED BY <3>1 DEF Distinct
  <2>7. QED BY <2>1, <2>3, <2>4, <2>5, <2>6 DEF Settled
<1>9. SlotRight(i, slot, p, more, asked, told, deaf)
  BY <1>5, <1>6, <1>7, <1>8 DEF SlotRight
<1>10. QED BY <1>9 DEF more

-----------------------------------------------------------------------------
(* Steps that leave the chunks alone.                                       *)

LEMMA ToSetOfTail ==
  ASSUME NEW S, NEW s \in Seq(S), s # <<>>
  PROVE  ToSet(s) = {Head(s)} \cup ToSet(Tail(s))
<1>1. /\ Len(s) \in Nat /\ Len(s) > 0 /\ Head(s) = s[1] /\ DOMAIN s = 1..Len(s)
      /\ Tail(s) \in Seq(S) /\ Len(Tail(s)) = Len(s) - 1 /\ DOMAIN Tail(s) = 1 .. Len(s) - 1
      /\ \A i \in 1 .. Len(s) - 1 : Tail(s)[i] = s[i + 1]
  BY HeadTailProperties, LenProperties
<1>2. ToSet(Tail(s)) \subseteq ToSet(s) /\ Head(s) \in ToSet(s)
  <2>1. \A i \in 1 .. Len(s) - 1 : i + 1 \in 1..Len(s)
    BY <1>1
  <2>2. 1 \in 1..Len(s)
    BY <1>1
  <2>3. QED BY <1>1, <2>1, <2>2 DEF ToSet
<1>3. \A i \in 1..Len(s) : s[i] \in {Head(s)} \cup ToSet(Tail(s))
  <2> SUFFICES ASSUME NEW i \in 1..Len(s), i # 1 PROVE s[i] \in ToSet(Tail(s))
    BY <1>1
  <2>1. i - 1 \in 1 .. Len(s) - 1 /\ (i - 1) + 1 = i
    BY <1>1
  <2>2. Tail(s)[i - 1] = s[i]
    BY <1>1, <2>1
  <2>3. QED BY <1>1, <2>1, <2>2 DEF ToSet
<1>4. ToSet(s) \subseteq {Head(s)} \cup ToSet(Tail(s))
  BY <1>1, <1>3 DEF ToSet
<1>5. QED BY <1>2, <1>4

(* What is asked was asked before, or is nobody's; what is told was told    *)
(* before, or answers what was asked.                                       *)
LEMMA ChunksStay ==
  ASSUME SaysInv, UNCHANGED <<audio, plans, slots>>, unheard \subseteq unheard',
         \A c \in Requests' : c \in Requests \/ c.client = <<>>,
         \A r \in Replied' : \/ r \in Replied
                             \/ \E c \in Requests : /\ r.client = c.client
                                                    /\ AnswersTo(r, c.samples, unheard')
  PROVE  SaysInv'
<1>1. ~Repeats => Distinct(audio')
  BY DEF SaysInv
<1>2. \A c \in (Requests \cup Replied)' : KnownClient(c.client, slots')
  <2>1. \A c \in Requests \cup Replied : KnownClient(c.client, slots)
    BY DEF SaysInv
  <2>2. \A c \in Requests' : KnownClient(c.client, slots)
    BY <2>1 DEF KnownClient
  <2>3. \A r \in Replied' : KnownClient(r.client, slots)
    BY <2>1
  <2>4. QED BY <2>2, <2>3
<1>3. ASSUME NEW i \in DOMAIN slots
      PROVE  SlotRight(i, slots[i], plans[i], audio, Requests', Replied', unheard')
  <2> DEFINE asked == Requests
             asked2 == Requests'
             told == Replied
             told2 == Replied'
             slot == slots[i]
             plan == plans[i]
             deaf == unheard
             deaf2 == unheard'
  <2>0. deaf \subseteq deaf2
    OBVIOUS
  <2>1. SlotRight(i, slot, plan, audio, asked, told, deaf)
    BY DEF SaysInv
  <2>2. AskedBefore(i, asked, asked2)
    <3>1. \A part : <<>> # <<i, part>>
      OBVIOUS
    <3>2. QED BY <3>1 DEF AskedBefore
  <2>3. ToldRight(i, asked, told, told2, deaf2)
    BY DEF ToldRight
  <2> HIDE DEF asked, asked2, told, told2, slot, plan, deaf, deaf2
  <2>4. SlotRight(i, slot, plan, audio, asked2, told2, deaf2)
    BY <2>0, <2>1, <2>2, <2>3, SlotStays
  <2>5. QED BY <2>4 DEF asked2, told2, slot, plan, deaf2
<1>4. QED BY <1>1, <1>2, <1>3 DEF SaysInv

(* The manager answers the command it serves, if it answers.                *)
LEMMA ServedSays ==
  ASSUME SaysInv, UNCHANGED <<workerVars, queue>>, unheard \subseteq unheard',
         serving' = Nothing, NEW result, NEW text, Reply(serving, result, text),
         AnswersTo(Answered(serving, result, text), serving.samples, unheard')
  PROVE  SaysInv'
<1>1. \A c \in Requests' : c \in Requests \/ c.client = <<>>
  BY EmptyText DEF Requests
<1>2. Replied' = Replied \cup {Answered(serving, result, text)}
  BY DEF Replied, Reply, workerVars
<1>3. Answered(serving, result, text).client = serving.client
  BY DEF Answered
<1>4. \A r \in Replied' : \/ r \in Replied
                          \/ \E c \in Requests : /\ r.client = c.client
                                                 /\ AnswersTo(r, c.samples, unheard')
  BY <1>2, <1>3 DEF Requests
<1>5. UNCHANGED <<audio, plans, slots>>
  BY DEF workerVars, sessionVars
<1>6. QED BY <1>1, <1>4, <1>5, ChunksStay

LEMMA AnsweredIs ==
  ASSUME NEW cmd, NEW result, NEW text
  PROVE  /\ Answered(cmd, result, text).client = cmd.client
         /\ Answered(cmd, result, text).result = result
         /\ Answered(cmd, result, text).text = text
BY DEF Answered

(* No answer but an error is always right.                                  *)
LEMMA ErrorIsRight ==
  ASSUME NEW cmd, NEW result \in {"err", "hungup"}, NEW samples, NEW deaf
  PROVE  AnswersTo(Answered(cmd, result, <<>>), samples, deaf)
BY AnsweredIs DEF AnswersTo, Right, Failed

LEMMA EngineSays ==
  ASSUME SaysInv, EngineHears \/ EngineDeaf \/ EngineErrs
                  \/ (InferencePanics /\ UNCHANGED <<workerVars, unheard>>)
  PROVE  SaysInv'
<1> DEFINE words == Words(serving.samples)
<1>1. CASE EngineHears
  <2> DEFINE result == IF words = <<>> THEN "empty" ELSE "text"
  <2>1. /\ Reply(serving, result, words) /\ serving' = Nothing
        /\ UNCHANGED <<workerVars, queue, unheard>>
    BY <1>1 DEF EngineHears, Transcribed
  <2>2. AnswersTo(Answered(serving, result, words), serving.samples, unheard')
    BY AnsweredIs DEF AnswersTo, Right
  <2> HIDE DEF words, result
  <2>3. QED BY <2>1, <2>2, ServedSays
<1>2. CASE EngineDeaf
  <2>1. /\ Reply(serving, "empty", <<>>) /\ serving' = Nothing
        /\ UNCHANGED <<workerVars, queue>> /\ unheard' = unheard \cup ToSet(words)
    BY <1>2 DEF EngineDeaf, Transcribed
  <2>2. AnswersTo(Answered(serving, "empty", <<>>), serving.samples, unheard')
    BY <2>1, AnsweredIs DEF AnswersTo, Right
  <2>3. QED BY <2>1, <2>2, ServedSays
<1>3. CASE EngineErrs
  <2>1. /\ Reply(serving, "err", <<>>) /\ serving' = Nothing
        /\ UNCHANGED <<workerVars, queue, unheard>>
    BY <1>3 DEF EngineErrs, Transcribed
  <2>2. AnswersTo(Answered(serving, "err", <<>>), serving.samples, unheard')
    BY ErrorIsRight
  <2>3. QED BY <2>1, <2>2, ServedSays
<1>4. CASE InferencePanics /\ UNCHANGED <<workerVars, unheard>>
  <2>1. /\ Reply(serving, "err", <<>>) /\ serving' = Nothing
        /\ UNCHANGED <<workerVars, queue, unheard>>
    BY <1>4 DEF InferencePanics
  <2>2. AnswersTo(Answered(serving, "err", <<>>), serving.samples, unheard')
    BY ErrorIsRight
  <2>3. QED BY <2>1, <2>2, ServedSays
<1>5. QED BY <1>1, <1>2, <1>3, <1>4

LEMMA LoadSays ==
  ASSUME OwedInv, SaysInv, UNCHANGED <<workerVars, unheard>>,
         TakeCommand \/ LoadSucceeds \/ LoadFails \/ LoadPanics
  PROVE  SaysInv'
<1>0. /\ UNCHANGED <<audio, plans, slots, results>> /\ queue \in Seq(Made)
      /\ unheard \subseteq unheard'
  BY TypesInParts DEF workerVars, sessionVars, OwedInv, ChannelsShape
<1>1. CASE TakeCommand
  <2>1. /\ ToSet(queue) = {Head(queue)} \cup ToSet(Tail(queue)) /\ queue' = Tail(queue)
        /\ serving' \in {Nothing, Head(queue)} /\ replies' = replies
    BY <1>0, <1>1, ToSetOfTail DEF TakeCommand
  <2>2. \A c \in Requests' : c \in Requests \/ c.client = <<>>
    BY <2>1, EmptyText DEF Requests
  <2>3. Replied' = Replied
    BY <1>0, <2>1 DEF Replied
  <2>4. QED BY <1>0, <2>2, <2>3, ChunksStay
<1>2. CASE LoadSucceeds
  <2>1. UNCHANGED <<queue, replies>> /\ serving' \in {Nothing, serving}
    BY <1>2 DEF LoadSucceeds
  <2>2. \A c \in Requests' : c \in Requests \/ c.client = <<>>
    BY <2>1, EmptyText DEF Requests
  <2>3. Replied' = Replied
    BY <1>0, <2>1 DEF Replied
  <2>4. QED BY <1>0, <2>2, <2>3, ChunksStay
<1>3. CASE LoadFails
  <2>1. UNCHANGED queue /\ serving' = Nothing
    BY <1>3 DEF LoadFails
  <2>2. CASE serving = Warmup
    <3>1. \A c \in Requests' : c \in Requests \/ c.client = <<>>
      BY <2>1, EmptyText DEF Requests
    <3>2. Replied' = Replied
      BY <1>0, <1>3, <2>2 DEF Replied, LoadFails
    <3>3. QED BY <1>0, <3>1, <3>2, ChunksStay
  <2>3. CASE serving # Warmup
    <3>1. Reply(serving, "err", <<>>)
      BY <1>3, <2>3 DEF LoadFails
    <3>2. AnswersTo(Answered(serving, "err", <<>>), serving.samples, unheard')
      BY ErrorIsRight
    <3>3. QED BY <1>0, <2>1, <3>1, <3>2, ServedSays
  <2>4. QED BY <2>2, <2>3
<1>4. CASE LoadPanics
  <2>1. /\ queue' = <<>> /\ serving' = Nothing
        /\ replies' = replies \cup {Answered(c, "hungup", <<>>) :
                                      c \in ({serving} \cup ToSet(queue)) \ {Warmup}}
    BY <1>4 DEF LoadPanics, ToSet
  <2>2. \A c \in Requests' : c \in Requests \/ c.client = <<>>
    <3>1. Requests' = {Nothing}
      BY <2>1 DEF Requests, ToSet
    <3>2. QED BY <3>1, EmptyText
  <2>3. \A r \in Replied' : \/ r \in Replied
                            \/ \E c \in Requests : /\ r.client = c.client
                                                   /\ AnswersTo(r, c.samples, unheard')
    <3> SUFFICES ASSUME NEW r \in Replied', r \notin Replied
                 PROVE  \E c \in Requests : /\ r.client = c.client
                                            /\ AnswersTo(r, c.samples, unheard')
      OBVIOUS
    <3>1. PICK c \in Requests : r = Answered(c, "hungup", <<>>)
      BY <1>0, <2>1 DEF Replied, Requests
    <3>2. r.client = c.client /\ AnswersTo(r, c.samples, unheard')
      BY <3>1, AnsweredIs, ErrorIsRight
    <3>3. QED BY <3>2
  <2>4. QED BY <1>0, <2>2, <2>3, ChunksStay
<1>5. QED BY <1>1, <1>2, <1>3, <1>4

(* An answer forwarded; and steps that change none of all this.             *)
LEMMA ForwardSays ==
  ASSUME OwedInv, SaysInv, ForwardAnswer
  PROVE  SaysInv'
<1>1. PICK r \in replies :
        /\ replies' = replies \ {r} /\ results' = Append(results, r)
        /\ UNCHANGED <<sessionVars, plans, slots, queue, serving, unheard>>
  BY DEF ForwardAnswer
<1>2. ToSet(results') = ToSet(results) \cup {r}
  BY <1>1, ToSetOfAppend, TypesInParts DEF OwedInv, ChannelsShape
<1>3. Requests' = Requests /\ Replied' \subseteq Replied
  BY <1>1, <1>2 DEF Requests, Replied
<1>4. UNCHANGED <<audio, plans, slots, unheard>>
  BY <1>1 DEF sessionVars
<1>5. QED BY <1>3, <1>4, ChunksStay

LEMMA OthersSay ==
  ASSUME SaysInv, UNCHANGED <<sessionVars, plans, slots, results, queue, serving, replies, unheard>>
  PROVE  SaysInv'
<1>1. Requests' = Requests /\ Replied' = Replied /\ UNCHANGED <<audio, plans, slots, unheard>>
  BY DEF Requests, Replied, sessionVars
<1>2. QED BY <1>1, ChunksStay

-----------------------------------------------------------------------------
(* Steps that read an answer.                                               *)

(* What a dispatch asks, and what it tells when the manager is gone.        *)
NewlyAsked(c, i, heard, plan, parts, split) ==
  \E k \in DOMAIN parts : /\ c.client = <<i, parts[k]>>
                          /\ c.samples = Samples(heard, plan, parts[k], split)
NewlyTold(r, i, parts) ==
  /\ r.result = "err" /\ r.text = <<>>
  /\ \E k \in DOMAIN parts : r.client = <<i, parts[k]>>

LEMMA ChunkIs ==
  ASSUME NEW client, NEW samples
  PROVE  Chunk(client, samples).client = client /\ Chunk(client, samples).samples = samples
BY DEF Chunk

LEMMA DispatchSays ==
  ASSUME queue \in Seq(Made), NEW rest \in Seq(Answers), NEW i \in Nat,
         NEW heard \in Texts, NEW plan \in PlanRecords, plan.start + plan.len <= Len(heard),
         NEW parts \in {<<"Whole">>, <<"FirstHalf", "SecondHalf">>},
         NEW split \in Nat, split <= plan.len \/ parts = <<"Whole">>,
         Dispatch(heard, i, plan, parts, split, rest), UNCHANGED <<serving, replies>>
  PROVE  /\ \A c \in Requests' : c \in Requests \/ NewlyAsked(c, i, heard, plan, parts, split)
         /\ \A r \in Replied' : r \in replies \cup ToSet(rest) \/ NewlyTold(r, i, parts)
<1> DEFINE Cmd(k) == Chunk(<<i, parts[k]>>, Samples(heard, plan, parts[k], split))
           cmds == [k \in DOMAIN parts |-> Cmd(k)]
           errs == [k \in DOMAIN parts |-> Answered(Cmd(k), "err", <<>>)]
<1>1. /\ DOMAIN parts = 1..Len(parts) /\ Len(parts) \in {1, 2}
      /\ \A k \in DOMAIN parts : parts[k] \in Parts /\ (parts[k] # "Whole" => split <= plan.len)
  <2>1. CASE parts = <<"Whole">>
    <3>1. DOMAIN parts = {1} /\ parts[1] = "Whole" /\ parts \in Seq(Parts) /\ Len(parts) = 1
      BY <2>1 DEF Parts
    <3>2. QED BY <3>1 DEF Parts
  <2>2. CASE parts = <<"FirstHalf", "SecondHalf">>
    <3>1. /\ DOMAIN parts = {1, 2} /\ parts[1] = "FirstHalf" /\ parts[2] = "SecondHalf"
          /\ parts \in Seq(Parts) /\ Len(parts) = 2
      BY <2>2 DEF Parts
    <3>2. split <= plan.len
      BY <2>2
    <3>3. QED BY <3>1, <3>2 DEF Parts
  <2>3. QED BY <2>1, <2>2
<1>2. \A k \in DOMAIN parts :
        /\ Cmd(k) \in Made /\ Cmd(k).client = <<i, parts[k]>>
        /\ Cmd(k).samples = Samples(heard, plan, parts[k], split)
  BY <1>1, SamplesTyped, ChunkTyped, ChunkIs
<1>3. \A k \in DOMAIN parts : /\ Answered(Cmd(k), "err", <<>>) \in Answers
                              /\ Answered(Cmd(k), "err", <<>>).client = <<i, parts[k]>>
                              /\ Answered(Cmd(k), "err", <<>>).result = "err"
                              /\ Answered(Cmd(k), "err", <<>>).text = <<>>
  <2> SUFFICES ASSUME NEW k \in DOMAIN parts
               PROVE  /\ Answered(Cmd(k), "err", <<>>) \in Answers
                      /\ Answered(Cmd(k), "err", <<>>).client = <<i, parts[k]>>
                      /\ Answered(Cmd(k), "err", <<>>).result = "err"
                      /\ Answered(Cmd(k), "err", <<>>).text = <<>>
    OBVIOUS
  <2>1. Cmd(k) \in Made /\ Cmd(k).client = <<i, parts[k]>>
    BY <1>2
  <2> DEFINE cmd == Cmd(k)
  <2> HIDE DEF cmd, Cmd
  <2>2. Answered(cmd, "err", <<>>) \in Answers
    BY <2>1, AnswerTyped, EmptyText DEF cmd
  <2>3. /\ Answered(cmd, "err", <<>>).client = cmd.client
        /\ Answered(cmd, "err", <<>>).result = "err"
        /\ Answered(cmd, "err", <<>>).text = <<>>
    BY AnsweredIs
  <2>4. QED BY <2>1, <2>2, <2>3 DEF cmd
<1> HIDE DEF Cmd
<1>4. cmds \in Seq(Made) /\ \A c \in ToSet(cmds) : NewlyAsked(c, i, heard, plan, parts, split)
  <2>1. cmds \in Seq(Made)
    BY <1>1, <1>2, IsASeq
  <2>2. \A c \in ToSet(cmds) : \E k \in DOMAIN parts : c = Cmd(k)
    BY DEF ToSet
  <2>3. QED BY <1>2, <2>1, <2>2 DEF NewlyAsked
<1>5. errs \in Seq(Answers) /\ \A r \in ToSet(errs) : NewlyTold(r, i, parts)
  <2>1. errs \in Seq(Answers)
    BY <1>1, <1>3, IsASeq
  <2>2. \A r \in ToSet(errs) : \E k \in DOMAIN parts : r = Answered(Cmd(k), "err", <<>>)
    BY DEF ToSet
  <2>3. QED BY <1>3, <2>1, <2>2 DEF NewlyTold
<1>6. CASE running
  <2>1. queue' = queue \o cmds /\ results' = rest
    BY <1>6 DEF Dispatch, Cmd
  <2> HIDE DEF cmds
  <2>2. ToSet(queue') = ToSet(queue) \cup ToSet(cmds)
    BY <1>4, <2>1, ToSetOfConcat
  <2>3. QED BY <1>4, <2>1, <2>2 DEF Requests, Replied
<1>7. CASE ~running
  <2>1. results' = rest \o errs /\ queue' = queue
    BY <1>7 DEF Dispatch, Cmd
  <2> HIDE DEF errs
  <2>2. ToSet(results') = ToSet(rest) \cup ToSet(errs)
    BY <1>5, <2>1, ToSetOfConcat
  <2>3. QED BY <1>5, <2>1, <2>2 DEF Requests, Replied
<1>8. QED BY <1>6, <1>7

(* One chunk changes: what is asked or told anew is asked or told for it.   *)
OfChunk(client, i, slot) ==
  \E part \in Parts : client = <<i, part>> /\ (slot.kind = "Whole" => part = "Whole")

LEMMA OneSlotSays ==
  ASSUME OwedInv, SaysInv, NEW i \in DOMAIN slots, NEW slot \in Slots,
         slots' = [slots EXCEPT ![i] = slot], UNCHANGED <<audio, plans, unheard>>,
         \A c \in Requests' : c \in Requests \/ OfChunk(c.client, i, slot),
         \A r \in Replied' : r \in Replied \/ OfChunk(r.client, i, slot),
         slot.kind = "Whole" => slots[i].kind = "Whole",
         SlotRight(i, slot, plans[i], audio, Requests', Replied', unheard)
  PROVE  SaysInv'
<1>1. /\ DOMAIN slots' = DOMAIN slots /\ slots'[i] = slot
      /\ \A j \in DOMAIN slots : j # i => slots'[j] = slots[j]
  BY SlotReplaced, TypesInParts DEF OwedInv
<1>2. ASSUME NEW x, KnownClient(x, slots) PROVE KnownClient(x, slots')
  <2>1. CASE x = <<>>
    BY <2>1 DEF KnownClient
  <2>2. CASE x # <<>>
    <3>1. PICK j \in DOMAIN slots, part \in Parts :
            x = <<j, part>> /\ (slots[j].kind = "Whole" => part = "Whole")
      BY <1>2, <2>2 DEF KnownClient
    <3>2. slots'[j].kind = "Whole" => part = "Whole"
      BY <1>1, <3>1
    <3>3. QED BY <1>1, <3>1, <3>2 DEF KnownClient
  <2>3. QED BY <2>1, <2>2
<1>3. ASSUME NEW x, OfChunk(x, i, slot) PROVE KnownClient(x, slots')
  BY <1>1, <1>3 DEF OfChunk, KnownClient
<1>4. \A c \in (Requests \cup Replied)' : KnownClient(c.client, slots')
  <2>1. \A c \in Requests \cup Replied : KnownClient(c.client, slots)
    BY DEF SaysInv
  <2>2. \A c \in Requests' : KnownClient(c.client, slots')
    BY <1>2, <1>3, <2>1
  <2>3. \A r \in Replied' : KnownClient(r.client, slots')
    BY <1>2, <1>3, <2>1
  <2>4. QED BY <2>2, <2>3
<1>5. ASSUME NEW j \in DOMAIN slots, j # i
      PROVE  SlotRight(j, slots[j], plans[j], audio, Requests', Replied', unheard)
  <2> DEFINE asked == Requests
             asked2 == Requests'
             told == Replied
             told2 == Replied'
             s == slots[j]
             p == plans[j]
             deaf == unheard
  <2>1. SlotRight(j, s, p, audio, asked, told, deaf)
    BY DEF SaysInv
  <2>2. \A part \in Parts : ~OfChunk(<<j, part>>, i, slot)
    BY <1>5 DEF OfChunk
  <2>3. AskedBefore(j, asked, asked2) /\ ToldRight(j, asked, told, told2, deaf)
    BY <2>2 DEF AskedBefore, ToldRight
  <2>4. deaf \subseteq deaf
    OBVIOUS
  <2> HIDE DEF asked, asked2, told, told2, s, p, deaf
  <2>5. SlotRight(j, s, p, audio, asked2, told2, deaf)
    BY <2>1, <2>3, <2>4, SlotStays
  <2>6. QED BY <2>5 DEF asked2, told2, s, p, deaf
<1>6. \A j \in DOMAIN slots :
        SlotRight(j, slots'[j], plans[j], audio, Requests', Replied', unheard)
  BY <1>1, <1>5
<1>7. ~Repeats => Distinct(audio')
  BY DEF SaysInv
<1>8. QED BY <1>1, <1>4, <1>6, <1>7 DEF SaysInv

(* The answer read was told, and the others are told still.                 *)
LEMMA ReadSays ==
  ASSUME OwedInv, SaysInv, results # <<>>, NEW i \in DOMAIN slots, NEW part \in Parts,
         Reads(i, part, Head(results))
  PROVE  /\ Head(results) \in Replied /\ Head(results).client = <<i, part>>
         /\ Head(results) \in Answers /\ Head(results).text \in Texts
         /\ replies \cup ToSet(Tail(results)) \subseteq Replied
         /\ UNCHANGED <<audio, plans, unheard, serving, replies>>
         /\ slots[i] \in Slots /\ plans[i] \in PlanRecords /\ i \in Nat
         /\ plans[i].start + plans[i].len <= Len(audio) /\ audio \in Texts
         /\ SlotRight(i, slots[i], plans[i], audio, Requests, Replied, unheard)
<1>1. /\ SessionShape /\ ChannelsShape /\ i \in Nat /\ slots[i] \in Slots
      /\ plans[i] \in PlanRecords /\ plans[i].start + plans[i].len <= Len(audio)
      /\ Head(results) \in Answers
  BY Reading
<1>2. ToSet(results) = {Head(results)} \cup ToSet(Tail(results))
  BY <1>1, ToSetOfTail DEF ChannelsShape
<1>3. Head(results).client = <<i, part>> /\ UNCHANGED <<audio, plans, unheard, serving, replies>>
  BY DEF Reads, sessionVars, managerFrame
<1>4. Head(results).text \in Texts
  BY <1>1 DEF Answers
<1>5. audio \in Texts
  BY <1>1 DEF SessionShape
<1>6. SlotRight(i, slots[i], plans[i], audio, Requests, Replied, unheard)
  BY DEF SaysInv
<1>7. Head(results) \in Replied /\ replies \cup ToSet(Tail(results)) \subseteq Replied
  BY <1>2 DEF Replied
<1>8. QED BY <1>1, <1>3, <1>4, <1>5, <1>6, <1>7

(* Nothing is asked or told anew.                                           *)
LEMMA QuietReadSays ==
  ASSUME OwedInv, SaysInv, results # <<>>, NEW i \in DOMAIN slots, NEW part \in Parts,
         Reads(i, part, Head(results)), NEW slot \in Slots, slot.kind # "Whole",
         slots' = [slots EXCEPT ![i] = slot], results' = Tail(results), UNCHANGED queue,
         SlotRight(i, slot, plans[i], audio, Requests, Replied, unheard)
  PROVE  SaysInv'
<1>1. /\ replies \cup ToSet(Tail(results)) \subseteq Replied
      /\ UNCHANGED <<audio, plans, unheard, serving, replies>>
  BY ReadSays
<1>2. Requests' = Requests /\ Replied' \subseteq Replied
  <2>1. Replied' = replies' \cup ToSet(results')
    BY DEF Replied
  <2>2. QED BY <1>1, <2>1 DEF Requests
<1>3. SlotRight(i, slot, plans[i], audio, Requests', Replied', unheard)
  <2> DEFINE asked == Requests
             asked2 == Requests'
             told == Replied
             told2 == Replied'
             p == plans[i]
             deaf == unheard
  <2>1. SlotRight(i, slot, p, audio, asked, told, deaf) /\ deaf \subseteq deaf
    OBVIOUS
  <2>2. AskedBefore(i, asked, asked2) /\ ToldRight(i, asked, told, told2, deaf)
    BY <1>2 DEF AskedBefore, ToldRight
  <2> HIDE DEF asked, asked2, told, told2, p, deaf
  <2>3. SlotRight(i, slot, p, audio, asked2, told2, deaf)
    BY <2>1, <2>2, SlotStays
  <2>4. QED BY <2>3 DEF asked2, told2, p, deaf
<1>4. QED BY <1>1, <1>2, <1>3, OneSlotSays

(* The chunk is done.                                                       *)
LEMMA SettleSays ==
  ASSUME OwedInv, SaysInv, results # <<>>, NEW i \in DOMAIN slots, NEW part \in Parts,
         Reads(i, part, Head(results)), NEW text \in Texts, NEW failed \in BOOLEAN,
         Settle(i, text, failed), Settled(Done(text, failed), plans[i], audio, unheard)
  PROVE  SaysInv'
<1>1. Done(text, failed) \in Slots /\ Done(text, failed).kind = "Done"
  BY SlotsAre
<1>2. SlotRight(i, Done(text, failed), plans[i], audio, Requests, Replied, unheard)
  BY <1>1 DEF SlotRight
<1>3. /\ slots' = [slots EXCEPT ![i] = Done(text, failed)] /\ results' = Tail(results)
      /\ UNCHANGED queue
  BY DEF Settle
<1>4. QED BY <1>1, <1>2, <1>3, QuietReadSays

LEMMA WholeSettledSays ==
  ASSUME OwedInv, SaysInv, results # <<>>, NEW i \in DOMAIN slots,
         LET r == Head(results)
         IN  WholeHeard(i, r) \/ WholeEmpty(i, r) \/ WholeFailed(i, r)
  PROVE  SaysInv'
<1> DEFINE r == Head(results)
           p == plans[i]
           samples == Samples(audio, p, "Whole", 0)
<1>1. Reads(i, "Whole", r) /\ slots[i].kind = "Whole" /\ "Whole" \in Parts
  BY DEF WholeHeard, WholeEmpty, WholeFailed, Parts
<1>2. /\ r \in Replied /\ r.client = <<i, "Whole">> /\ r.text \in Texts
      /\ p \in PlanRecords /\ p.start + p.len <= Len(audio) /\ audio \in Texts
      /\ SlotRight(i, slots[i], p, audio, Requests, Replied, unheard)
  BY <1>1, ReadSays
<1>3. AnswersTo(r, samples, unheard)
  <2>1. Fits(<<i, "Whole">>, samples, Requests, Replied, unheard)
    BY <1>1, <1>2 DEF SlotRight
  <2>2. QED BY <1>2, <2>1 DEF Fits
<1>4. PICK text \in Texts, failed \in BOOLEAN :
        Settle(i, text, failed) /\ Right(text, failed, samples, unheard)
  <2>1. CASE WholeHeard(i, r)
    <3>1. Settle(i, r.text, FALSE) /\ ~Failed(r)
      BY <2>1 DEF WholeHeard, Failed
    <3>2. Right(r.text, FALSE, samples, unheard)
      BY <1>3, <3>1 DEF AnswersTo, Right
    <3>3. QED BY <1>2, <3>1, <3>2
  <2>2. CASE WholeEmpty(i, r)
    <3>1. Settle(i, <<>>, FALSE) /\ ~Failed(r) /\ r.result = "empty"
      BY <2>2 DEF WholeEmpty, Failed
    <3>2. Right(<<>>, FALSE, samples, unheard)
      BY <1>3, <3>1 DEF AnswersTo, Right
    <3>3. QED BY <3>1, <3>2, EmptyText
  <2>3. CASE WholeFailed(i, r)
    <3>1. Settle(i, <<>>, TRUE)
      BY <2>3 DEF WholeFailed
    <3>2. Right(<<>>, TRUE, samples, unheard)
      BY DEF Right
    <3>3. QED BY <3>1, <3>2, EmptyText
  <2>4. QED BY <2>1, <2>2, <2>3
<1>5. Settled(Done(text, failed), p, audio, unheard)
  BY <1>2, <1>4, WholeSettles
<1>6. QED BY <1>1, <1>4, <1>5, SettleSays

(* An error asks again; and silence where there were words, of the halves.  *)
LEMMA AgainSays ==
  ASSUME OwedInv, SaysInv, results # <<>>, NEW i \in DOMAIN slots,
         WholeSplit(i, Head(results)) \/ WholeRetried(i, Head(results))
  PROVE  SaysInv'
<1> DEFINE r == Head(results)
           p == plans[i]
<1>1. Reads(i, "Whole", r) /\ slots[i].kind = "Whole" /\ "Whole" \in Parts
  BY DEF WholeSplit, WholeRetried, Parts
<1>2. /\ replies \cup ToSet(Tail(results)) \subseteq Replied
      /\ UNCHANGED <<audio, plans, unheard, serving, replies>>
      /\ p \in PlanRecords /\ i \in Nat
      /\ p.start + p.len <= Len(audio) /\ audio \in Texts
      /\ SlotRight(i, slots[i], p, audio, Requests, Replied, unheard)
  BY <1>1, ReadSays
<1>3. queue \in Seq(Made) /\ Tail(results) \in Seq(Answers)
  BY <1>1, Reading DEF ChannelsShape
<1>4. \A part : part # "Whole" =>
        /\ \A c \in Requests : c.client # <<i, part>>
        /\ \A c \in Replied : c.client # <<i, part>>
  <2>1. \A c \in Requests \cup Replied : KnownClient(c.client, slots)
    BY DEF SaysInv
  <2> SUFFICES ASSUME NEW part, part # "Whole", NEW c \in Requests \cup Replied,
                      c.client = <<i, part>>
               PROVE  FALSE
    OBVIOUS
  <2>2. KnownClient(<<i, part>>, slots) /\ <<i, part>> # <<>>
    BY <2>1
  <2>3. PICK j \in DOMAIN slots, q \in Parts :
          <<i, part>> = <<j, q>> /\ (slots[j].kind = "Whole" => q = "Whole")
    BY <2>2 DEF KnownClient
  <2>4. QED BY <1>1, <2>3
<1>5. \A told, samples, deaf : told.result = "err" /\ told.text = <<>> => AnswersTo(told, samples, deaf)
  BY DEF AnswersTo, Right, Failed
<1>6. CASE WholeRetried(i, r)
  <2>1. /\ slots' = [slots EXCEPT ![i] = Whole(1)]
        /\ Dispatch(audio, i, p, <<"Whole">>, 0, Tail(results))
    BY <1>6 DEF WholeRetried
  <2>2. /\ \A c \in Requests' : c \in Requests \/ NewlyAsked(c, i, audio, p, <<"Whole">>, 0)
        /\ \A a \in Replied' : a \in replies \cup ToSet(Tail(results)) \/ NewlyTold(a, i, <<"Whole">>)
    <3> DEFINE parts == <<"Whole">>
               rest == Tail(results)
    <3>1. /\ parts \in {<<"Whole">>, <<"FirstHalf", "SecondHalf">>} /\ rest \in Seq(Answers)
          /\ 0 \in Nat /\ (0 <= p.len \/ parts = <<"Whole">>)
          /\ Dispatch(audio, i, p, parts, 0, rest)
      BY <1>3, <2>1
    <3>1a. parts = <<"Whole">>
      OBVIOUS
    <3> HIDE DEF parts, rest, p
    <3>2. /\ \A c \in Requests' : c \in Requests \/ NewlyAsked(c, i, audio, p, parts, 0)
          /\ \A a \in Replied' : a \in replies \cup ToSet(rest) \/ NewlyTold(a, i, parts)
      BY <1>2, <1>3, <3>1, DispatchSays
    <3>3. QED BY <3>2 DEF parts, rest
  <2>3. DOMAIN <<"Whole">> = {1} /\ <<"Whole">>[1] = "Whole"
    OBVIOUS
  <2> DEFINE samples == Samples(audio, p, "Whole", 0)
  <2>4. /\ \A c \in Requests' : c \in Requests \/ (c.client = <<i, "Whole">> /\ c.samples = samples)
        /\ \A a \in Replied' : \/ a \in Replied
                               \/ a.client = <<i, "Whole">> /\ AnswersTo(a, samples, unheard)
    BY <1>2, <1>5, <2>2, <2>3 DEF NewlyAsked, NewlyTold
  <2>5. Fits(<<i, "Whole">>, samples, Requests, Replied, unheard)
    BY <1>1, <1>2 DEF SlotRight
  <2>6. Fits(<<i, "Whole">>, samples, Requests', Replied', unheard)
    BY <2>4, <2>5 DEF Fits
  <2>7. Whole(1) \in Slots /\ Whole(1).kind = "Whole" /\ Whole(1).text = <<>>
    BY SlotsAre
  <2>8. SlotRight(i, Whole(1), p, audio, Requests', Replied', unheard)
    BY <2>6, <2>7 DEF SlotRight
  <2>9. /\ \A c \in Requests' : c \in Requests \/ OfChunk(c.client, i, Whole(1))
        /\ \A a \in Replied' : a \in Replied \/ OfChunk(a.client, i, Whole(1))
    BY <1>1, <2>4 DEF OfChunk
  <2>10. QED BY <1>1, <1>2, <2>1, <2>7, <2>8, <2>9, OneSlotSays
<1>7. CASE WholeSplit(i, r)
  <2> DEFINE parts == <<"FirstHalf", "SecondHalf">>
             rest == Tail(results)
  <2>1. PICK split \in Splits(p.len) : Dispatch(audio, i, p, parts, split, rest)
    BY <1>7 DEF WholeSplit
  <2>2. slots' = [slots EXCEPT ![i] = Halves(Open, Open)] /\ p.len >= ResplitMin
    BY <1>7 DEF WholeSplit, WorthSplitting
  <2>3. split \in Nat /\ split <= p.len
    <3>1. p.len \in Nat
      BY <1>2 DEF PlanRecords
    <3>2. split \in Nat /\ split \in 0..p.len
      BY <3>1, SplitIs
    <3>3. QED BY <3>1, <3>2
  <2>4. /\ DOMAIN parts = {1, 2} /\ parts[1] = "FirstHalf" /\ parts[2] = "SecondHalf"
        /\ parts \in {<<"Whole">>, <<"FirstHalf", "SecondHalf">>} /\ rest \in Seq(Answers)
    BY <1>3
  <2>5. /\ \A c \in Requests' : c \in Requests \/ NewlyAsked(c, i, audio, p, parts, split)
        /\ \A a \in Replied' : a \in replies \cup ToSet(rest) \/ NewlyTold(a, i, parts)
    <3>1. /\ Dispatch(audio, i, p, parts, split, rest) /\ UNCHANGED <<serving, replies>>
          /\ (split <= p.len \/ parts = <<"Whole">>) /\ p.start + p.len <= Len(audio)
      BY <1>2, <2>1, <2>3
    <3>2. /\ audio \in Texts /\ p \in PlanRecords /\ i \in Nat /\ split \in Nat
          /\ queue \in Seq(Made) /\ rest \in Seq(Answers)
          /\ parts \in {<<"Whole">>, <<"FirstHalf", "SecondHalf">>}
      BY <1>2, <1>3, <2>3, <2>4
    <3> HIDE DEF parts, rest, p
    <3>3. QED BY <3>1, <3>2, DispatchSays
  <2> DEFINE s1 == Samples(audio, p, "FirstHalf", split)
             s2 == Samples(audio, p, "SecondHalf", split)
             slot == Halves(Open, Open)
  <2>6. \A c \in Requests' : \/ c \in Requests
                             \/ c.client = <<i, "FirstHalf">> /\ c.samples = s1
                             \/ c.client = <<i, "SecondHalf">> /\ c.samples = s2
    BY <2>4, <2>5 DEF NewlyAsked
  <2>7. \A a \in Replied' :
          \/ a \in Replied
          \/ a.client = <<i, "FirstHalf">> /\ AnswersTo(a, s1, unheard)
          \/ a.client = <<i, "SecondHalf">> /\ AnswersTo(a, s2, unheard)
    BY <1>2, <1>5, <2>4, <2>5 DEF NewlyTold
  <2>8. Open \in HalfStates /\ Open.state = "open"
    BY SlotsAre DEF Open
  <2>9. /\ slot \in Slots /\ slot.kind = "Halves" /\ slot.first = Open /\ slot.second = Open
        /\ slot.text = <<>>
    BY <2>8, SlotsAre
  <2> HIDE DEF s1, s2, slot, parts, rest, p
  <2>10. HalfFits(<<i, "FirstHalf">>, Open, s1, Requests', Replied', unheard)
    <3>1. "FirstHalf" # "Whole" /\ <<i, "FirstHalf">> # <<i, "SecondHalf">>
      OBVIOUS
    <3>2. Fits(<<i, "FirstHalf">>, s1, Requests', Replied', unheard)
      BY <1>4, <2>6, <2>7, <3>1 DEF Fits
    <3>3. QED BY <2>8, <3>2 DEF HalfFits
  <2>11. HalfFits(<<i, "SecondHalf">>, Open, s2, Requests', Replied', unheard)
    <3>1. "SecondHalf" # "Whole" /\ <<i, "FirstHalf">> # <<i, "SecondHalf">>
      OBVIOUS
    <3>2. Fits(<<i, "SecondHalf">>, s2, Requests', Replied', unheard)
      BY <1>4, <2>6, <2>7, <3>1 DEF Fits
    <3>3. QED BY <2>8, <3>2 DEF HalfFits
  <2>12. SlotRight(i, slot, p, audio, Requests', Replied', unheard)
    BY <2>2, <2>9, <2>10, <2>11 DEF SlotRight, s1, s2
  <2>13. /\ \A c \in Requests' : c \in Requests \/ OfChunk(c.client, i, slot)
         /\ \A a \in Replied' : a \in Replied \/ OfChunk(a.client, i, slot)
    BY <2>6, <2>7, <2>9 DEF OfChunk, Parts
  <2>14. slots' = [slots EXCEPT ![i] = slot] /\ slot.kind # "Whole"
    BY <2>2, <2>9 DEF slot
  <2>15. SlotRight(i, slot, plans[i], audio, Requests', Replied', unheard)
    BY <2>12 DEF p
  <2>16. QED BY <1>2, <2>9, <2>13, <2>14, <2>15, OneSlotSays
<1>8. QED BY <1>6, <1>7

(* A half's answer is that of its samples; with both known the chunk is.    *)
LEMMA HalfSays ==
  ASSUME OwedInv, SaysInv, results # <<>>, NEW i \in DOMAIN slots,
         NEW part \in {"FirstHalf", "SecondHalf"}, HalfAnswered(i, part, Head(results))
  PROVE  SaysInv'
<1> DEFINE r == Head(results)
           p == plans[i]
           state == IF Failed(r) THEN "err" ELSE "ok"
           answer == [state |-> state, text |-> r.text]
           first  == IF part = "FirstHalf"  THEN answer ELSE slots[i].first
           second == IF part = "SecondHalf" THEN answer ELSE slots[i].second
           text   == first.text \o second.text
           failed == "err" \in {first.state, second.state} \/ text = <<>>
<1>1. Reads(i, part, r) /\ slots[i].kind = "Halves" /\ part \in Parts
  BY DEF HalfAnswered, Parts
<1>2. /\ r \in Replied /\ r.client = <<i, part>> /\ r.text \in Texts
      /\ slots[i] \in Slots /\ p \in PlanRecords /\ p.start + p.len <= Len(audio)
      /\ audio \in Texts
      /\ SlotRight(i, slots[i], p, audio, Requests, Replied, unheard)
  BY <1>1, ReadSays
<1>3. /\ answer \in HalfStates /\ answer.state \in {"ok", "err"} /\ answer.text = r.text
      /\ answer.state = "err" <=> Failed(r)
  <2>1. answer.state = state /\ answer.text = r.text
    OBVIOUS
  <2>2. /\ state \in {"ok", "err"} /\ state \in {"open", "ok", "err"}
        /\ state = "err" <=> Failed(r)
    OBVIOUS
  <2>3. answer \in HalfStates
    BY <1>2, <2>2 DEF HalfStates
  <2>4. QED BY <2>1, <2>2, <2>3
<1>4. /\ first \in HalfStates /\ second \in HalfStates
      /\ slots[i].first \in HalfStates /\ slots[i].second \in HalfStates
  <2>1. slots[i].first \in HalfStates /\ slots[i].second \in HalfStates
    BY <1>2 DEF Slots
  <2>2. QED BY <1>3, <2>1
<1>5. PICK split \in Splits(p.len) :
        /\ HalfFits(<<i, "FirstHalf">>, slots[i].first, Samples(audio, p, "FirstHalf", split),
                    Requests, Replied, unheard)
        /\ HalfFits(<<i, "SecondHalf">>, slots[i].second, Samples(audio, p, "SecondHalf", split),
                    Requests, Replied, unheard)
  BY <1>1, <1>2 DEF SlotRight
<1>6. p.len >= ResplitMin
  BY <1>1, <1>2 DEF SlotRight
<1>7. ASSUME NEW samples, NEW half,
             HalfFits(<<i, part>>, half, samples, Requests, Replied, unheard)
      PROVE  HalfFits(<<i, part>>, answer, samples, Requests, Replied, unheard)
  <2>1. Fits(<<i, part>>, samples, Requests, Replied, unheard)
    BY <1>7 DEF HalfFits
  <2>2. AnswersTo(r, samples, unheard)
    BY <1>2, <2>1 DEF Fits
  <2>3. Right(answer.text, answer.state = "err", samples, unheard)
    <3>1. Right(r.text, Failed(r), samples, unheard)
      BY <2>2 DEF AnswersTo
    <3> HIDE DEF answer
    <3>2. CASE Failed(r)
      BY <1>3, <3>1, <3>2 DEF Right
    <3>3. CASE ~Failed(r)
      BY <1>3, <3>1, <3>3 DEF Right
    <3>4. QED BY <3>2, <3>3
  <2>4. QED BY <2>1, <2>3 DEF HalfFits
<1> DEFINE s1 == Samples(audio, p, "FirstHalf", split)
           s2 == Samples(audio, p, "SecondHalf", split)
<1> HIDE DEF s1, s2, answer
<1>8. /\ HalfFits(<<i, "FirstHalf">>, first, s1, Requests, Replied, unheard)
      /\ HalfFits(<<i, "SecondHalf">>, second, s2, Requests, Replied, unheard)
  <2>1. CASE part = "FirstHalf"
    <3>1. first = answer /\ second = slots[i].second
      BY <2>1
    <3>2. QED BY <1>5, <1>7, <2>1, <3>1 DEF s1, s2
  <2>2. CASE part = "SecondHalf"
    <3>1. first = slots[i].first /\ second = answer
      BY <2>2
    <3>2. QED BY <1>5, <1>7, <2>2, <3>1 DEF s1, s2
  <2>3. QED BY <2>1, <2>2
<1>9. \/ /\ slots' = [slots EXCEPT ![i] = Halves(first, second)] /\ results' = Tail(results)
         /\ UNCHANGED queue
      \/ "open" \notin {first.state, second.state} /\ Settle(i, text, failed)
  BY DEF HalfAnswered, answer
<1> HIDE DEF first, second
<1>10. CASE /\ slots' = [slots EXCEPT ![i] = Halves(first, second)] /\ results' = Tail(results)
            /\ UNCHANGED queue
  <2> DEFINE slot == Halves(first, second)
  <2>1. /\ slot \in Slots /\ slot.kind = "Halves" /\ slot.first = first /\ slot.second = second
        /\ slot.text = <<>>
    BY <1>4, SlotsAre
  <2> HIDE DEF slot
  <2>2. SlotRight(i, slot, p, audio, Requests, Replied, unheard)
    BY <1>6, <1>8, <2>1 DEF SlotRight, s1, s2
  <2>3. slots' = [slots EXCEPT ![i] = slot] /\ slot.kind # "Whole"
    BY <1>10, <2>1 DEF slot
  <2>4. SlotRight(i, slot, plans[i], audio, Requests, Replied, unheard)
    BY <2>2
  <2>5. results' = Tail(results) /\ UNCHANGED queue /\ Reads(i, part, Head(results))
    BY <1>1, <1>10
  <2>6. QED BY <1>1, <2>1, <2>3, <2>4, <2>5, QuietReadSays
<1>11. CASE "open" \notin {first.state, second.state} /\ Settle(i, text, failed)
  <2> DEFINE ferr == first.state = "err"
             serr == second.state = "err"
  <2>1. Right(first.text, ferr, s1, unheard) /\ Right(second.text, serr, s2, unheard)
    BY <1>8, <1>11 DEF HalfFits
  <2>2. first.text \in Texts /\ second.text \in Texts
    BY <1>4 DEF HalfStates
  <2>3. text \in Texts
    BY <2>2, ConcatProperties DEF Texts
  <2>4. failed \in BOOLEAN /\ (ferr \/ serr => failed) /\ ferr \in BOOLEAN /\ serr \in BOOLEAN
    OBVIOUS
  <2>5. Settled(Done(text, failed), p, audio, unheard)
    <3> DEFINE a == first.text
               b == second.text
    <3>1. /\ a \in Texts /\ b \in Texts /\ Right(a, ferr, Samples(audio, p, "FirstHalf", split), unheard)
          /\ Right(b, serr, Samples(audio, p, "SecondHalf", split), unheard)
      BY <2>1, <2>2 DEF s1, s2
    <3> HIDE DEF a, b, failed, ferr, serr, p
    <3>2. Settled(Done(a \o b, failed), p, audio, unheard)
      BY <1>2, <1>6, <2>4, <3>1, HalvesSettle
    <3>3. QED BY <3>2 DEF a, b
  <2>6. Settle(i, text, failed)
    BY <1>11
  <2> HIDE DEF text, failed
  <2>7. QED BY <1>1, <2>3, <2>4, <2>5, <2>6, SettleSays
<1>12. QED BY <1>9, <1>10, <1>11

LEMMA TakeResultSays ==
  ASSUME OwedInv, SaysInv, TakeResult
  PROVE  SaysInv'
<1> DEFINE r == Head(results)
<1>1. results # <<>>
  BY DEF TakeResult
<1>2. PICK i \in DOMAIN slots :
        \/ WholeHeard(i, r) \/ WholeEmpty(i, r) \/ WholeSplit(i, r)
        \/ WholeRetried(i, r) \/ WholeFailed(i, r)
        \/ \E part \in {"FirstHalf", "SecondHalf"} : HalfAnswered(i, part, r)
  BY DEF TakeResult
<1>3. CASE WholeHeard(i, r) \/ WholeEmpty(i, r) \/ WholeFailed(i, r)
  BY <1>1, <1>3, WholeSettledSays
<1>4. CASE WholeSplit(i, r) \/ WholeRetried(i, r)
  BY <1>1, <1>4, AgainSays
<1>5. CASE \E part \in {"FirstHalf", "SecondHalf"} : HalfAnswered(i, part, r)
  BY <1>1, <1>5, HalfSays
<1>6. QED BY <1>2, <1>3, <1>4, <1>5
-----------------------------------------------------------------------------
(* Steps that hear a unit or plan a chunk.                                  *)

LEMMA HearingSays ==
  ASSUME OwedInv, SaysInv, NEW u \in Units
  PROVE  \A j \in DOMAIN slots :
           SlotRight(j, slots[j], plans[j], Append(audio, u), Requests, Replied, unheard)
<1> SUFFICES ASSUME NEW j \in DOMAIN slots
             PROVE  SlotRight(j, slots[j], plans[j], Append(audio, u), Requests, Replied, unheard)
  OBVIOUS
<1>1. /\ slots \in Seq(Slots) /\ plans \in Seq(PlanRecords) /\ Len(slots) = Len(plans)
      /\ WithinAudio /\ audio \in Texts
  BY TypesInParts DEF OwedInv, SessionShape
<1>2. j \in 1..Len(slots) /\ j \in 1..Len(plans) /\ j \in DOMAIN plans
  BY <1>1, LenProperties
<1> DEFINE s == slots[j]
           p == plans[j]
           asked == Requests
           told == Replied
           deaf == unheard
<1>3. s \in Slots /\ p \in PlanRecords /\ p.start + p.len <= Len(audio)
  BY <1>1, <1>2, ElementOfSeq DEF WithinAudio
<1>4. SlotRight(j, s, p, audio, asked, told, deaf)
  BY DEF SaysInv
<1> HIDE DEF s, p, asked, told, deaf
<1>5. SlotRight(j, s, p, Append(audio, u), asked, told, deaf)
  BY <1>1, <1>3, <1>4, SlotStaysAsAudioGrows
<1>6. QED BY <1>5 DEF s, p, asked, told, deaf

(* A new chunk is asked for as a whole, and by itself.                      *)
LEMMA AddedSays ==
  ASSUME OwedInv, SaysInv, audio' \in Texts, Len(audio) <= Len(audio'),
         ~Repeats => Distinct(audio'),
         NEW plan \in PlanRecords, plan.start + plan.len <= Len(audio'),
         AddChunk(audio', plan), UNCHANGED <<serving, replies, unheard>>,
         \A j \in DOMAIN slots :
           SlotRight(j, slots[j], plans[j], audio', Requests, Replied, unheard)
  PROVE  SaysInv'
<1> DEFINE n == Len(plans) + 1
           samples == Samples(audio', plan, "Whole", 0)
<1>1. /\ plans' = Append(plans, plan) /\ slots' = Append(slots, Whole(0))
      /\ Dispatch(audio', n, plan, <<"Whole">>, 0, results)
  BY DEF AddChunk
<1>2. SessionShape /\ ChannelsShape /\ queue \in Seq(Made) /\ results \in Seq(Answers)
  BY TypesInParts DEF OwedInv, ChannelsShape
<1>3. Whole(0) \in Slots /\ Whole(0).kind = "Whole" /\ Whole(0).text = <<>>
  BY SlotsAre
<1>4. /\ Len(plans) \in Nat /\ n \in Nat /\ DOMAIN slots = 1..Len(plans)
      /\ DOMAIN slots' = 1 .. Len(plans) + 1
      /\ slots'[n] = Whole(0) /\ \A j \in DOMAIN slots : slots'[j] = slots[j]
  <2>1. /\ Len(plans) \in Nat /\ DOMAIN slots = 1..Len(plans)
        /\ DOMAIN slots' = 1 .. Len(plans) + 1
        /\ slots'[Len(plans) + 1] = Whole(0) /\ \A j \in DOMAIN slots : slots'[j] = slots[j]
    BY <1>1, <1>2, <1>3, ChunkAdded
  <2>2. QED BY <2>1
<1>5. plans'[n] = plan /\ \A j \in DOMAIN slots : plans'[j] = plans[j]
  BY <1>1, <1>2, <1>4, AppendProperties DEF SessionShape
<1>6. n \notin DOMAIN slots /\ DOMAIN slots' = DOMAIN slots \cup {n}
  BY <1>4
<1> HIDE DEF n
<1>7. /\ \A c \in Requests' : c \in Requests \/ NewlyAsked(c, n, audio', plan, <<"Whole">>, 0)
      /\ \A r \in Replied' : r \in replies \cup ToSet(results) \/ NewlyTold(r, n, <<"Whole">>)
  <2> DEFINE parts == <<"Whole">>
             heard == audio'
  <2>1. /\ parts \in {<<"Whole">>, <<"FirstHalf", "SecondHalf">>} /\ 0 \in Nat
        /\ (0 <= plan.len \/ parts = <<"Whole">>) /\ heard \in Texts
        /\ Dispatch(heard, n, plan, parts, 0, results) /\ plan.start + plan.len <= Len(heard)
        /\ UNCHANGED <<serving, replies>>
    BY <1>1
  <2> HIDE DEF parts, heard
  <2>2. /\ \A c \in Requests' : c \in Requests \/ NewlyAsked(c, n, heard, plan, parts, 0)
        /\ \A r \in Replied' : r \in replies \cup ToSet(results) \/ NewlyTold(r, n, parts)
    BY <1>2, <1>4, <2>1, DispatchSays
  <2>3. QED BY <2>2 DEF parts, heard
<1>8. DOMAIN <<"Whole">> = {1} /\ <<"Whole">>[1] = "Whole"
  OBVIOUS
<1>9. \A c \in Requests' : c \in Requests \/ (c.client = <<n, "Whole">> /\ c.samples = samples)
  BY <1>7, <1>8 DEF NewlyAsked
<1>10. \A r \in Replied' : \/ r \in Replied
                           \/ r.client = <<n, "Whole">> /\ AnswersTo(r, samples, unheard)
  <2>1. \A r : NewlyTold(r, n, <<"Whole">>) =>
                 r.client = <<n, "Whole">> /\ AnswersTo(r, samples, unheard)
    BY <1>8 DEF NewlyTold, AnswersTo, Right, Failed
  <2>2. QED BY <1>7, <2>1 DEF Replied
<1> HIDE DEF samples
<1>11. \A c \in Requests \cup Replied : KnownClient(c.client, slots)
  BY DEF SaysInv
<1>12. \A c \in Requests \cup Replied : \A part : c.client # <<n, part>>
  <2> SUFFICES ASSUME NEW c \in Requests \cup Replied, NEW part, c.client = <<n, part>>
               PROVE  FALSE
    OBVIOUS
  <2>1. KnownClient(<<n, part>>, slots) /\ <<n, part>> # <<>>
    BY <1>11
  <2>2. PICK j \in DOMAIN slots, q \in Parts : <<n, part>> = <<j, q>>
    BY <2>1 DEF KnownClient
  <2>3. QED BY <1>6, <2>2
<1>13. \A c \in (Requests \cup Replied)' : KnownClient(c.client, slots')
  <2>1. ASSUME NEW x, KnownClient(x, slots) PROVE KnownClient(x, slots')
    <3>1. CASE x = <<>>
      BY <3>1 DEF KnownClient
    <3>2. CASE x # <<>>
      <4>1. PICK j \in DOMAIN slots, part \in Parts :
              x = <<j, part>> /\ (slots[j].kind = "Whole" => part = "Whole")
        BY <2>1, <3>2 DEF KnownClient
      <4>2. j \in DOMAIN slots' /\ (slots'[j].kind = "Whole" => part = "Whole")
        BY <1>4, <1>6, <4>1
      <4>3. QED BY <4>1, <4>2 DEF KnownClient
    <3>3. QED BY <3>1, <3>2
  <2>2. KnownClient(<<n, "Whole">>, slots')
    BY <1>6 DEF KnownClient, Parts
  <2>3. \A c \in Requests' : KnownClient(c.client, slots')
    BY <1>9, <1>11, <2>1, <2>2
  <2>4. \A r \in Replied' : KnownClient(r.client, slots')
    BY <1>10, <1>11, <2>1, <2>2
  <2>5. QED BY <2>3, <2>4
<1>14. ASSUME NEW j \in DOMAIN slots
       PROVE  SlotRight(j, slots[j], plans[j], audio', Requests', Replied', unheard)
  <2> DEFINE asked == Requests
             asked2 == Requests'
             told == Replied
             told2 == Replied'
             s == slots[j]
             p == plans[j]
             deaf == unheard
             heard == audio'
  <2>1. SlotRight(j, s, p, heard, asked, told, deaf) /\ deaf \subseteq deaf
    OBVIOUS
  <2>2. \A part : <<j, part>> # <<n, "Whole">>
    BY <1>6
  <2>3. AskedBefore(j, asked, asked2) /\ ToldRight(j, asked, told, told2, deaf)
    BY <1>9, <1>10, <2>2 DEF AskedBefore, ToldRight
  <2> HIDE DEF asked, asked2, told, told2, s, p, deaf, heard
  <2>4. SlotRight(j, s, p, heard, asked2, told2, deaf)
    BY <2>1, <2>3, SlotStays
  <2>5. QED BY <2>4 DEF asked2, told2, s, p, deaf, heard
<1>15. SlotRight(n, Whole(0), plan, audio', Requests', Replied', unheard)
  <2>1. Fits(<<n, "Whole">>, samples, Requests', Replied', unheard)
    BY <1>9, <1>10, <1>12 DEF Fits
  <2>2. QED BY <1>3, <2>1 DEF SlotRight, samples
<1>16. \A j \in DOMAIN slots' :
         SlotRight(j, slots'[j], plans'[j], audio', Requests', Replied', unheard)
  BY <1>4, <1>5, <1>6, <1>14, <1>15
<1>17. QED BY <1>13, <1>16 DEF SaysInv

LEMMA PushSays ==
  ASSUME OwedInv, SaysInv, NEW u \in NextUnits, Push(u)
  PROVE  SaysInv'
<1> DEFINE pushed == Append(audio, u)
           buf == SubSeq(pushed, base + 1, Len(pushed))
           cut == PlanCut(buf)
           plan == Plan(base, cut.at, needs_dedup)
<1>0. SessionShape
  BY TypesInParts DEF OwedInv
<1>1. /\ audio \in Texts /\ base \in Nat /\ Len(audio) \in Nat /\ base <= Len(audio)
      /\ Len(audio) < MaxAudio
  BY <1>0, LenProperties DEF SessionShape, Texts, Push
<1>2. u \in Units /\ (~Repeats => u \in {Quiet, Len(audio) + 1})
  <2>1. u \in {1, Len(audio) + 1, Quiet} /\ (~Repeats => u \in {Quiet, Len(audio) + 1})
    BY DEF NextUnits
  <2>2. QED BY <1>1, <2>1, Numbers DEF Units, Quiet
<1>3. /\ pushed \in Texts /\ Len(pushed) = Len(audio) + 1 /\ audio' = pushed
      /\ \A k \in 1..Len(audio) : pushed[k] = audio[k]
      /\ pushed[Len(audio) + 1] = u
  BY <1>1, <1>2, AppendProperties DEF Texts, Push
<1>4. UNCHANGED <<serving, replies, unheard>>
  BY DEF Push, managerFrame
<1>5. ~Repeats => Distinct(pushed)
  <2>1. \A k \in 1..Len(pushed) : k \in 1..Len(audio) \/ k = Len(audio) + 1
    BY <1>1, <1>3
  <2> HIDE DEF pushed
  <2>2. ~Repeats => Distinct(audio)
    BY DEF SaysInv
  <2>3. QED BY <1>2, <1>3, <2>1, <2>2 DEF Distinct
<1>6. \A j \in DOMAIN slots :
        SlotRight(j, slots[j], plans[j], pushed, Requests, Replied, unheard)
  BY <1>2, HearingSays
<1>7. CASE ~CutDue(buf)
  <2>1. UNCHANGED <<plans, slots, results, queue>>
    BY <1>7 DEF Push
  <2>2. Requests' = Requests /\ Replied' = Replied
    BY <1>4, <2>1 DEF Requests, Replied
  <2> HIDE DEF pushed
  <2>3. QED BY <1>3, <1>4, <1>5, <1>6, <2>1, <2>2 DEF SaysInv
<1>8. CASE CutDue(buf)
  <2>1. AddChunk(pushed, plan)
    BY <1>8 DEF Push
  <2>2. Len(buf) = Len(pushed) - base /\ Len(buf) > SinglePassMax
    <3>1. Len(buf) = IF base + 1 <= Len(pushed) THEN Len(pushed) - (base + 1) + 1 ELSE 0
      <4>1. \A i \in base + 1 .. Len(pushed) : pushed[i] \in Units
        <5>1. \A i \in base + 1 .. Len(pushed) : i \in 1..Len(pushed)
          BY <1>1, <1>3
        <5>2. QED BY <1>3, <5>1, ElementOfSeq DEF Texts
      <4>2. base + 1 \in Int /\ Len(pushed) \in Int
        BY <1>1, <1>3
      <4> HIDE DEF pushed
      <4>3. QED BY <4>1, <4>2, SubSeqProperties
    <3>2. Len(buf) > SinglePassMax
      BY <1>8 DEF CutDue
    <3>3. QED BY <1>1, <1>3, <3>1, <3>2
  <2>3. cut.at \in 1..SinglePassMax
    BY CutIs
  <2> HIDE DEF cut
  <2>4. plan \in PlanRecords /\ plan.start + plan.len <= Len(pushed)
    <3>1. base + cut.at <= Len(pushed)
      BY <1>1, <1>3, <2>2, <2>3, Numbers
    <3>2. plan \in PlanRecords /\ plan.start = base /\ plan.len = cut.at
      BY <1>0, <1>1, <2>3 DEF Plan, PlanRecords, SessionShape
    <3>3. QED BY <3>1, <3>2
  <2> HIDE DEF plan, buf, pushed
  <2>5. /\ audio' \in Texts /\ Len(audio) <= Len(audio') /\ plan.start + plan.len <= Len(audio')
        /\ AddChunk(audio', plan) /\ (~Repeats => Distinct(audio'))
        /\ \A j \in DOMAIN slots :
             SlotRight(j, slots[j], plans[j], audio', Requests, Replied, unheard)
    BY <1>1, <1>3, <1>5, <1>6, <2>1, <2>4
  <2>6. QED BY <1>4, <2>4, <2>5, AddedSays
<1>9. QED BY <1>7, <1>8

LEMMA FinishSays ==
  ASSUME OwedInv, SaysInv, Finish
  PROVE  SaysInv'
<1> DEFINE tail == Plan(base, Len(audio) - base, needs_dedup)
           slot == Done(<<>>, FALSE)
<1>1. SessionShape /\ ChannelsShape
  BY TypesInParts DEF OwedInv
<1>2. /\ audio \in Texts /\ base \in Nat /\ Len(audio) \in Nat /\ base <= Len(audio)
      /\ needs_dedup \in BOOLEAN
  BY <1>1, LenProperties DEF SessionShape, Texts
<1>3. tail \in PlanRecords /\ tail.start + tail.len <= Len(audio)
  <2>1. Len(audio) - base \in Nat /\ base + (Len(audio) - base) = Len(audio)
    BY <1>2
  <2>2. QED BY <1>2, <2>1 DEF Plan, PlanRecords
<1>4. audio' = audio /\ UNCHANGED <<serving, replies, unheard>>
  BY DEF Finish, managerFrame
<1>5. /\ ~Repeats => Distinct(audio)
      /\ \A j \in DOMAIN slots :
           SlotRight(j, slots[j], plans[j], audio, Requests, Replied, unheard)
      /\ \A c \in Requests \cup Replied : KnownClient(c.client, slots)
  BY DEF SaysInv
<1> HIDE DEF tail
<1>6. CASE tail.len < MinTail
  <2>1. /\ plans' = Append(plans, tail) /\ slots' = Append(slots, slot)
        /\ UNCHANGED <<results, queue>>
    BY <1>6 DEF Finish, tail
  <2>2. slot \in Slots /\ slot.kind = "Done"
    BY SlotsAre, EmptyText
  <2>3. Settled(slot, tail, audio, unheard)
    BY <1>2, <1>3, <1>6, TailSettles
  <2> HIDE DEF slot
  <2>4. /\ Len(plans) \in Nat /\ DOMAIN slots = 1..Len(plans)
        /\ DOMAIN slots' = 1 .. Len(plans) + 1
        /\ slots'[Len(plans) + 1] = slot /\ \A j \in DOMAIN slots : slots'[j] = slots[j]
    <3>1. audio' \in Texts /\ Len(audio) <= Len(audio') /\ tail.start + tail.len <= Len(audio')
      BY <1>2, <1>3, <1>4
    <3>2. QED BY <1>1, <1>3, <2>1, <2>2, <3>1, ChunkAdded
  <2>5. plans'[Len(plans) + 1] = tail /\ \A j \in DOMAIN slots : plans'[j] = plans[j]
    BY <1>1, <1>3, <2>1, <2>4, AppendProperties DEF SessionShape
  <2>6. DOMAIN slots' = DOMAIN slots \cup {Len(plans) + 1}
    BY <2>4
  <2>7. Requests' = Requests /\ Replied' = Replied
    BY <1>4, <2>1 DEF Requests, Replied
  <2>8. ASSUME NEW x, KnownClient(x, slots) PROVE KnownClient(x, slots')
    <3>1. CASE x = <<>>
      BY <3>1 DEF KnownClient
    <3>2. CASE x # <<>>
      <4>1. PICK j \in DOMAIN slots, part \in Parts :
              x = <<j, part>> /\ (slots[j].kind = "Whole" => part = "Whole")
        BY <2>8, <3>2 DEF KnownClient
      <4>2. j \in DOMAIN slots' /\ (slots'[j].kind = "Whole" => part = "Whole")
        BY <2>4, <2>6, <4>1
      <4>3. QED BY <4>1, <4>2 DEF KnownClient
    <3>3. QED BY <3>1, <3>2
  <2>9. SlotRight(Len(plans) + 1, slot, tail, audio, Requests, Replied, unheard)
    BY <2>2, <2>3 DEF SlotRight
  <2>10. \A j \in DOMAIN slots' :
           SlotRight(j, slots'[j], plans'[j], audio, Requests, Replied, unheard)
    BY <1>5, <2>4, <2>5, <2>6, <2>9
  <2>11. \A c \in Requests \cup Replied : KnownClient(c.client, slots')
    BY <1>5, <2>8
  <2>12. QED BY <1>4, <1>5, <2>7, <2>10, <2>11 DEF SaysInv
<1>7. CASE ~(tail.len < MinTail)
  <2>1. AddChunk(audio', tail)
    BY <1>4, <1>7 DEF Finish, tail
  <2>2. /\ audio' \in Texts /\ Len(audio) <= Len(audio') /\ tail.start + tail.len <= Len(audio')
        /\ (~Repeats => Distinct(audio'))
        /\ \A j \in DOMAIN slots :
             SlotRight(j, slots[j], plans[j], audio', Requests, Replied, unheard)
    BY <1>2, <1>3, <1>4, <1>5
  <2>3. QED BY <1>3, <1>4, <2>1, <2>2, AddedSays
<1>8. QED BY <1>6, <1>7

LEMMA SaysFromTheStart == RollingInit => SaysInv
<1> SUFFICES ASSUME RollingInit PROVE SaysInv
  OBVIOUS
<1>1. /\ audio = <<>> /\ slots = <<>> /\ results = <<>> /\ queue \in {<<>>, <<Warmup>>}
      /\ serving = Nothing /\ replies = {}
  BY DEF RollingInit, ManagerInit
<1>2. Len(<<>>) = 0 /\ DOMAIN <<>> = {} /\ ToSet(<<>>) = {}
  BY DEF ToSet
<1>3. ToSet(queue) \subseteq {Warmup}
  <2>1. DOMAIN <<Warmup>> = {1} /\ <<Warmup>>[1] = Warmup
    OBVIOUS
  <2>2. QED BY <1>1, <1>2, <2>1 DEF ToSet
<1>4. \A c \in Requests \cup Replied : c.client = <<>>
  BY <1>1, <1>2, <1>3, EmptyText DEF Requests, Replied
<1>5. \A c \in Requests \cup Replied : KnownClient(c.client, slots)
  BY <1>4 DEF KnownClient
<1>6. Distinct(audio)
  BY <1>1, <1>2 DEF Distinct
<1>7. QED BY <1>1, <1>2, <1>5, <1>6 DEF SaysInv

LEMMA StepSays ==
  ASSUME OwedInv, SaysInv, [RollingNext]_rollingVars
  PROVE  SaysInv'
<1>1. CASE Speaks
  BY <1>1, PushSays DEF Speaks
<1>2. CASE Finish
  BY <1>2, FinishSays
<1>3. CASE TakeResult
  BY <1>3, TakeResultSays
<1>4. CASE EngineHears \/ EngineDeaf \/ EngineErrs
           \/ (InferencePanics /\ UNCHANGED <<workerVars, unheard>>)
  BY <1>4, EngineSays
<1>5. CASE UNCHANGED <<workerVars, unheard>> /\ (TakeCommand \/ LoadSucceeds \/ LoadFails \/ LoadPanics)
  BY <1>5, LoadSays
<1>6. CASE ForwardAnswer
  BY <1>6, ForwardSays
<1>7. CASE UNCHANGED <<sessionVars, plans, slots, results, queue, serving, replies, unheard>>
  BY <1>7, OthersSay
<1>8. Collected \/ Abandon \/ PollLoading \/ WatchdogFires \/ Deliver \/ DeliverLate \/ GiveUp
      \/ WorkerPanics \/ ManagerIdles \/ UNCHANGED rollingVars
        => UNCHANGED <<sessionVars, plans, slots, results, queue, serving, replies, unheard>>
  BY DEF Collected, Abandon, PollLoading, WatchdogFires, Deliver, DeliverLate, GiveUp,
         WorkerPanics, PanicFinishing, PanicCollecting, ManagerIdles, IdleUnload, frame,
         panicFrame, managerFrame, managerVars, workerVars, rollingVars
<1>9. \/ Speaks \/ Finish \/ TakeResult
      \/ EngineHears \/ EngineDeaf \/ EngineErrs \/ ForwardAnswer
      \/ InferencePanics /\ UNCHANGED <<workerVars, unheard>>
      \/ UNCHANGED <<workerVars, unheard>> /\ (TakeCommand \/ LoadSucceeds \/ LoadFails \/ LoadPanics)
      \/ Collected \/ Abandon \/ PollLoading \/ WatchdogFires \/ Deliver \/ DeliverLate \/ GiveUp
      \/ WorkerPanics \/ ManagerIdles \/ UNCHANGED rollingVars
  BY DEF RollingNext, WorkerRuns, EngineNext, ManagerSteps
<1>10. QED BY <1>1, <1>2, <1>3, <1>4, <1>5, <1>6, <1>7, <1>8, <1>9

LEMMA AlwaysSays == RollingSpec => []SaysInv
<1>1. OwedInv /\ SaysInv /\ [RollingNext]_rollingVars => SaysInv'
  BY StepSays
<1>2. QED BY <1>1, SaysFromTheStart, AlwaysOwed, PTL DEF RollingSpec
-----------------------------------------------------------------------------
(* The transcripts to be assembled, those of chunks that are not done empty. *)
Heard == [i \in DOMAIN slots |-> slots[i].text]

LEMMA HeardIs ==
  ASSUME OwedInv
  PROVE  /\ Assembled = Assemble(plans, Heard) /\ audio \in Seq(Nat) /\ audio \in Texts
         /\ Len(plans) \in Nat /\ DOMAIN slots = 1..Len(plans) /\ plans \in Seq(PlanRecords)
         /\ Heard \in [1..Len(plans) -> Seq(Nat)]
         /\ \A i \in 1..Len(plans) :
              /\ Heard[i] = slots[i].text /\ slots[i].kind \in {"Whole", "Halves", "Done"}
              /\ plans[i] \in PlanRecords /\ plans[i].start \in Nat /\ End(plans[i]) \in Nat
              /\ End(plans[i]) = plans[i].start + plans[i].len /\ plans[i].len \in Nat
              /\ End(plans[i]) <= Len(audio)
<1>1. /\ slots \in Seq(Slots) /\ Len(slots) = Len(plans) /\ Len(plans) \in Nat
      /\ DOMAIN slots = 1..Len(plans) /\ plans \in Seq(PlanRecords) /\ audio \in Texts
      /\ DOMAIN plans = 1..Len(plans) /\ WithinAudio
  BY TypesInParts, LenProperties DEF OwedInv, SessionShape
<1>2. \A i \in 1..Len(plans) : slots[i] \in Slots /\ plans[i] \in PlanRecords
  BY <1>1, ElementOfSeq
<1>3. \A i \in 1..Len(plans) : /\ slots[i].text \in Seq(Nat) /\ Heard[i] = slots[i].text
                               /\ slots[i].kind \in {"Whole", "Halves", "Done"}
  BY <1>1, <1>2, UnitsAreNumbers DEF Slots, Heard
<1>4. \A i \in 1..Len(plans) :
        /\ plans[i].start \in Nat /\ End(plans[i]) \in Nat /\ plans[i].len \in Nat
        /\ End(plans[i]) = plans[i].start + plans[i].len
        /\ End(plans[i]) <= Len(audio)
  BY <1>1, <1>2 DEF PlanRecords, End, WithinAudio
<1>5. Heard \in [1..Len(plans) -> Seq(Nat)]
  BY <1>1, <1>3 DEF Heard
<1>6. Assembled = Assemble(plans, Heard)
  BY DEF Assembled, Heard
<1>7. audio \in Seq(Nat)
  BY <1>1, UnitsAreNumbers
<1>8. QED BY <1>1, <1>2, <1>3, <1>4, <1>5, <1>6, <1>7

(* What each of them is.                                                    *)
LEMMA HeardSays ==
  ASSUME OwedInv, SaysInv, NEW i \in 1..Len(plans)
  PROVE  IF slots[i].kind = "Done" THEN Settled(slots[i], plans[i], audio, unheard)
                                   ELSE Heard[i] = <<>>
<1>1. SlotRight(i, slots[i], plans[i], audio, Requests, Replied, unheard) /\ Heard[i] = slots[i].text
  BY HeardIs DEF SaysInv
<1>2. QED BY <1>1 DEF SlotRight

LEMMA AssembledIs ==
  ASSUME OwedInv
  PROVE  ToSet(Assembled) = UNION {ToSet(Heard[i]) : i \in 1..Len(plans)}
BY HeardIs, AssembleKeeps

(* Only words of the recording.                                             *)
LEMMA AssembledIsSaid ==
  ASSUME OwedInv, SaysInv
  PROVE  ToSet(Assembled) \subseteq ToSet(audio)
<1>1. ToSet(Assembled) = UNION {ToSet(Heard[i]) : i \in 1..Len(plans)}
  BY AssembledIs
<1>2. ASSUME NEW i \in 1..Len(plans) PROVE ToSet(Heard[i]) \subseteq ToSet(audio)
  <2>1. CASE slots[i].kind = "Done"
    <3>1. ToSet(Heard[i]) \subseteq Between(audio, plans[i].start, End(plans[i]))
      BY <2>1, HeardIs, HeardSays DEF Settled, SaysItsOwn
    <3>2. Between(audio, plans[i].start, End(plans[i])) \subseteq ToSet(audio)
      <4>1. /\ plans[i].start \in Nat /\ End(plans[i]) \in Nat /\ End(plans[i]) <= Len(audio)
            /\ Len(audio) \in Nat /\ \A k \in 1..Len(audio) : audio[k] \in ToSet(audio)
        BY HeardIs, ToSetIs
      <4>2. \A k \in plans[i].start + 1 .. End(plans[i]) : k \in 1..Len(audio)
        BY <4>1
      <4>3. QED BY <4>1, <4>2 DEF Between
    <3>3. QED BY <3>1, <3>2
  <2>2. CASE slots[i].kind # "Done"
    <3>1. Heard[i] = <<>>
      BY <2>2, HeardSays
    <3>2. QED BY <3>1 DEF ToSet
  <2>3. QED BY <2>1, <2>2
<1>3. QED BY <1>1, <1>2

(* In order, each once.                                                     *)
LEMMA HeardInOrder ==
  ASSUME OwedInv, SaysInv, Distinct(audio)
  PROVE  SaysOwn(plans, Heard)
<1> SUFFICES ASSUME NEW i \in 1..Len(plans)
             PROVE  /\ Increasing(Heard[i])
                    /\ \A x \in ToSet(Heard[i]) : plans[i].start < x /\ x <= End(plans[i])
  BY DEF SaysOwn
<1>1. CASE slots[i].kind = "Done"
  <2>1. Settled(slots[i], plans[i], audio, unheard) /\ Heard[i] = slots[i].text
    BY <1>1, HeardIs, HeardSays
  <2>2. Increasing(Heard[i]) /\ ToSet(Heard[i]) \subseteq Between(audio, plans[i].start, End(plans[i]))
    BY <2>1 DEF Settled, SaysItsOwn
  <2>3. \A x \in Between(audio, plans[i].start, End(plans[i])) :
          plans[i].start < x /\ x <= End(plans[i])
    BY HeardIs, BetweenIs
  <2>4. QED BY <2>2, <2>3
<1>2. CASE slots[i].kind # "Done"
  <2>1. Heard[i] = <<>>
    BY <1>2, HeardSays
  <2>2. QED BY <2>1 DEF ToSet, Increasing
<1>3. QED BY <1>1, <1>2

(* Two chunks agree where they overlap.                                     *)
LEMMA SeamsAgree ==
  ASSUME OwedInv, SaysInv, Distinct(audio), HalvesHoldSeams, Laid(plans),
         \A i \in 1 .. Len(plans) - 1 : Overlap <= plans[i].len
  PROVE  Agree(plans, Heard)
<1> SUFFICES ASSUME NEW i \in 1 .. Len(plans) - 1, plans[i + 1].needs_dedup
             PROVE  SeamAgrees(Heard[i], Heard[i + 1], plans[i + 1].start, End(plans[i]))
  BY DEF Agree
<1> DEFINE p == plans[i]
           q == plans[i + 1]
           prev == Heard[i]
           next == Heard[i + 1]
<1>1. i \in 1..Len(plans) /\ i + 1 \in 1..Len(plans)
  BY HeardIs
<1>2. CASE slots[i].kind # "Done"
  <2>1. prev = <<>>
    BY <1>1, <1>2, HeardSays
  <2>2. {x \in ToSet(prev) : x > q.start} = {}
    BY <2>1 DEF ToSet
  <2>3. QED BY <2>2 DEF SeamAgrees
<1>3. CASE slots[i + 1].kind # "Done"
  <2>1. next = <<>>
    BY <1>1, <1>3, HeardSays
  <2>2. {x \in ToSet(next) : x <= End(p)} = {}
    BY <2>1 DEF ToSet
  <2>3. QED BY <2>2 DEF SeamAgrees
<1>4. CASE slots[i].kind = "Done" /\ slots[i + 1].kind = "Done"
  <2>1. /\ audio \in Seq(Nat) /\ p \in PlanRecords /\ q \in PlanRecords
        /\ LiesAfter(p, q) /\ q.needs_dedup /\ Overlap <= p.len
        /\ End(p) <= Len(audio) /\ End(q) <= Len(audio)
    BY <1>1, HeardIs DEF Laid
  <2>2. Overlap <= q.len
    BY <2>1 DEF LiesAfter
  <2>3. SaysItsOwn(prev, p, audio) /\ SaysWholeSeams(prev, p, audio)
    BY <1>1, <1>4, <2>1, HeardIs, HeardSays DEF Settled
  <2>4. SaysItsOwn(next, q, audio) /\ SaysWholeSeams(next, q, audio)
    BY <1>1, <1>4, <2>2, HeardIs, HeardSays DEF Settled
  <2> HIDE DEF p, q, prev, next
  <2>5. SeamAgrees(prev, next, q.start, End(p))
    BY <2>1, <2>3, <2>4, WholeSeamsAgree
  <2>6. QED BY <2>5 DEF p, q, prev, next
<1>5. QED BY <1>2, <1>3, <1>4

LEMMA AssembledGrows ==
  ASSUME OwedInv, SaysInv, CutInv, phase \in {"wait", "late"},
         ~Repeats, 2 * Overlap <= SinglePassMax, Overlap <= SeamWords, HalvesHoldSeams
  PROVE  Increasing(Assembled)
<1>1. Distinct(audio)
  BY DEF SaysInv
<1>2. Len(audio) \in Nat /\ audio \in Seq(Nat)
  BY HeardIs, LenProperties
<1>3. CASE audio # <<>>
  <2>1. Planned(audio, 0, FALSE, plans)
    BY <1>3 DEF CutInv
  <2>2. Laid(plans) /\ \A i \in 1 .. Len(plans) - 1 : Overlap <= plans[i].len
    BY <1>2, <2>1, PlannedAreLaid
  <2>3. SaysOwn(plans, Heard) /\ Agree(plans, Heard)
    BY <1>1, <2>2, HeardInOrder, SeamsAgree
  <2>4. Increasing(Assemble(plans, Heard))
    BY <2>2, <2>3, HeardIs, AssembleGrows
  <2>5. QED BY <2>4, HeardIs
<1>4. CASE audio = <<>>
  <2>1. ToSet(Assembled) \subseteq {}
    BY <1>4, AssembledIsSaid DEF ToSet
  <2>2. Assembled \in Texts
    BY AssembledTyped, TypesInParts DEF OwedInv
  <2>3. \A i \in 1..Len(Assembled) : Assembled[i] \in ToSet(Assembled)
    BY <2>2, ToSetIs DEF Texts
  <2>4. QED BY <2>1, <2>3 DEF Increasing
<1>5. QED BY <1>3, <1>4

(* All words, when no chunk failed or is missing.                           *)
LEMMA AssembledHasAll ==
  ASSUME OwedInv, SaysInv, CutInv, phase \in {"wait", "late"}, MinTail <= 1, FailedChunks = 0
  PROVE  ToSet(Words(audio)) \subseteq ToSet(Assembled) \cup unheard
<1>1. \A i \in 1..Len(plans) : slots[i].kind = "Done" /\ ~slots[i].failed
  <2> DEFINE missing == Outstanding \cup {i \in DOMAIN slots : slots[i].failed}
  <2>1. missing \subseteq 1..Len(plans) /\ Len(plans) \in Nat
    BY HeardIs DEF Outstanding
  <2>2. Cardinality(missing) = 0
    BY DEF FailedChunks
  <2> HIDE DEF missing
  <2>3. IsFiniteSet(1..Len(plans))
    BY <2>1, FS_Interval
  <2>4. IsFiniteSet(missing)
    BY <2>1, <2>3, FS_Subset
  <2>5. missing = {}
    BY <2>2, <2>4, FS_EmptySet
  <2>6. \A i \in DOMAIN slots : i \notin missing
    BY <2>5
  <2>7. QED BY <2>6, HeardIs DEF missing, Outstanding
<1>2. /\ Len(audio) \in Nat /\ audio \in Seq(Nat)
      /\ ToSet(Words(audio)) = {audio[k] : k \in 1..Len(audio)} \ {Quiet}
  BY HeardIs, LenProperties, WordsAreThoseSaid
<1>3. SUFFICES ASSUME NEW k \in 1..Len(audio), audio[k] # Quiet
               PROVE  audio[k] \in ToSet(Assembled) \cup unheard
  BY <1>2
<1>4. Planned(audio, 0, FALSE, plans)
  <2>1. audio # <<>>
    BY <1>2, <1>3
  <2>2. QED BY <2>1 DEF CutInv
<1>5. PICK i \in 1..Len(plans) : plans[i].start < k /\ k <= End(plans[i])
  BY <1>2, <1>4, PlannedCover
<1>6. audio[k] \in Between(audio, plans[i].start, End(plans[i]))
  <2>1. plans[i].start \in Nat /\ End(plans[i]) \in Nat
    BY HeardIs
  <2>2. k \in plans[i].start + 1 .. End(plans[i])
    BY <1>5, <2>1
  <2>3. QED BY <1>3, <2>2 DEF Between
<1>7. SaysAll(Heard[i], plans[i], audio, unheard)
  <2>1. Settled(slots[i], plans[i], audio, unheard) /\ Heard[i] = slots[i].text /\ ~slots[i].failed
    BY <1>1, HeardIs, HeardSays
  <2>2. ~(MinTail > 1)
    BY Numbers
  <2>3. QED BY <2>1, <2>2 DEF Settled
<1>8. ToSet(Assembled) = UNION {ToSet(Heard[j]) : j \in 1..Len(plans)}
  BY AssembledIs
<1>9. QED BY <1>6, <1>7, <1>8 DEF SaysAll
-----------------------------------------------------------------------------
(* What is sent.                                                            *)

LEMMA AlwaysAnswered == RollingSpec => []AnsweredSoFar
<1>1. RollingInit => AnsweredSoFar
  <2>1. phase = "input" /\ output = <<>> => AnsweredSoFar
    BY DEF AnsweredSoFar
  <2>2. QED BY <2>1 DEF RollingInit
<1>2. OwedInv /\ AnsweredSoFar /\ [RollingNext]_rollingVars => AnsweredSoFar'
  BY StepPromised
<1>3. QED BY <1>1, <1>2, AlwaysOwed, PTL DEF RollingSpec

(* After release the recording stands, and what was not heard is not        *)
(* forgotten.                                                               *)
LEMMA RecordingStands ==
  ASSUME [RollingNext]_rollingVars
  PROVE  unheard \subseteq unheard' /\ (phase \in {"wait", "late", "gone"} => audio' = audio)
<1>1. CASE Speaks
  BY <1>1 DEF Speaks, Push
<1>2. CASE EngineDeaf
  BY <1>2 DEF EngineDeaf, workerVars, sessionVars
<1>3. CASE TakeResult
  BY <1>3 DEF TakeResult, WholeHeard, WholeEmpty, WholeSplit, WholeRetried, WholeFailed,
              HalfAnswered, Reads, sessionVars
<1>4. CASE Finish
  BY <1>4 DEF Finish
<1>5. CASE ForwardAnswer
  BY <1>5 DEF ForwardAnswer, sessionVars
<1>6. CASE EngineHears \/ EngineErrs \/ ManagerSteps \/ ManagerIdles
  BY <1>6 DEF EngineHears, EngineErrs, ManagerSteps, ManagerIdles, workerVars, sessionVars
<1>7. CASE \/ Collected \/ Abandon \/ PollLoading \/ WatchdogFires \/ Deliver \/ DeliverLate
           \/ GiveUp \/ WorkerPanics
  BY <1>7 DEF Collected, Abandon, PollLoading, WatchdogFires, Deliver, DeliverLate, GiveUp,
              WorkerPanics, PanicFinishing, PanicCollecting, frame, panicFrame, sessionVars
<1>8. CASE UNCHANGED rollingVars
  BY <1>8 DEF rollingVars, workerVars, sessionVars
<1>9. QED BY <1>1, <1>2, <1>3, <1>4, <1>5, <1>6, <1>7, <1>8
      DEF RollingNext, WorkerRuns, EngineNext

(* An answer that is sent is what is assembled then, or has no text.        *)
Assembling(o) ==
  /\ phase \in {"wait", "late"} /\ o.text = Assembled
  /\ ~o.partial => o.failed = FailedChunks
Empty(o) == o.text = <<>> /\ o.partial

LEMMA SentOneMore ==
  ASSUME output \in Seq(Sent), NEW x \in Sent, NEW last \in Seq(Sent),
         last = output \/ last = Append(output, x), Assembling(x) \/ Empty(x),
         output' = last \/ Exit(last), NEW j \in DOMAIN output'
  PROVE  \/ j \in DOMAIN output /\ output'[j] = output[j]
         \/ Assembling(output'[j]) \/ Empty(output'[j])
<1>1. Lost \in Sent /\ Empty(Lost)
  BY EmptyText DEF Lost, Sent, Empty
<1>2. ASSUME NEW s \in Seq(Sent), NEW y \in Sent
      PROVE  \A k \in DOMAIN Append(s, y) :
               (k \in DOMAIN s /\ Append(s, y)[k] = s[k]) \/ Append(s, y)[k] = y
  <2> HIDE DEF Sent
  <2>1. /\ Len(s) \in Nat /\ DOMAIN s = 1..Len(s) /\ DOMAIN Append(s, y) = 1 .. Len(s) + 1
        /\ \A k \in 1..Len(s) : Append(s, y)[k] = s[k]
        /\ Append(s, y)[Len(s) + 1] = y
    BY AppendProperties, LenProperties
  <2>2. QED BY <2>1
<1>3. output' = last \/ output' = Append(last, Lost)
  BY DEF Exit
<1> HIDE DEF Lost, Sent
<1>4. (j \in DOMAIN last /\ output'[j] = last[j]) \/ Empty(output'[j])
  <2>1. CASE output' = last
    BY <2>1
  <2>2. CASE output' = Append(last, Lost)
    <3>1. \A k \in DOMAIN Append(last, Lost) :
            (k \in DOMAIN last /\ Append(last, Lost)[k] = last[k]) \/ Append(last, Lost)[k] = Lost
      BY <1>1, <1>2
    <3>2. QED BY <1>1, <2>2, <3>1
  <2>3. QED BY <1>3, <2>1, <2>2
<1>5. CASE last = output
  BY <1>4, <1>5
<1>6. CASE last = Append(output, x)
  <2>1. \A k \in DOMAIN Append(output, x) :
          (k \in DOMAIN output /\ Append(output, x)[k] = output[k]) \/ Append(output, x)[k] = x
    BY <1>2
  <2>2. QED BY <1>4, <1>6, <2>1
<1>7. QED BY <1>5, <1>6

LEMMA SentIs ==
  ASSUME OwedInv, [RollingNext]_rollingVars, NEW j \in DOMAIN output'
  PROVE  \/ j \in DOMAIN output /\ output'[j] = output[j]
         \/ Assembling(output'[j]) \/ Empty(output'[j])
<1>1. /\ output \in Seq(Sent) /\ SessionShape /\ Assembled \in Texts /\ FailedChunks \in Nat
  BY TypesInParts, AssembledTyped DEF OwedInv, StatusShape
<1>2. CASE UNCHANGED output
  BY <1>2
<1>3. ASSUME NEW x \in Sent, Assembling(x) \/ Empty(x), NEW last,
             last = output \/ last = Append(output, x), output' = last \/ Exit(last)
      PROVE  \/ j \in DOMAIN output /\ output'[j] = output[j]
             \/ Assembling(output'[j]) \/ Empty(output'[j])
  <2>1. last \in Seq(Sent)
    <3> HIDE DEF Sent
    <3>1. QED BY <1>1, <1>3, AppendProperties
  <2>2. QED BY <1>1, <1>3, <2>1, SentOneMore
<1>4. /\ Final(Assembled, FailedChunks, TRUE) \in Sent
      /\ Final(Assembled, FailedChunks, FALSE) \in Sent
      /\ Late(Assembled, FailedChunks) \in Sent /\ Lost \in Sent
  BY <1>1, AnswersTyped
<1>5. Empty(Lost)
  BY DEF Lost, Empty
<1>6. CASE WatchdogFires
  <2>1. /\ phase = "wait" /\ output' = Append(output, Final(Assembled, FailedChunks, TRUE))
    BY <1>6 DEF WatchdogFires, Waiting
  <2>2. Assembling(Final(Assembled, FailedChunks, TRUE))
    BY <2>1 DEF Assembling, Final
  <2>3. QED BY <1>3, <1>4, <2>1, <2>2
<1>7. CASE Deliver
  <2>1. phase = "wait" /\ Exit(Append(output, Final(Assembled, FailedChunks, FALSE)))
    BY <1>7 DEF Deliver
  <2>2. Assembling(Final(Assembled, FailedChunks, FALSE))
    BY <2>1 DEF Assembling, Final
  <2>3. QED BY <1>3, <1>4, <2>1, <2>2
<1>8. CASE DeliverLate
  <2>1. phase = "late" /\ Exit(Append(output, Late(Assembled, FailedChunks)))
    BY <1>8 DEF DeliverLate
  <2>2. Assembling(Late(Assembled, FailedChunks))
    BY <2>1 DEF Assembling, Late
  <2>3. QED BY <1>3, <1>4, <2>1, <2>2
<1>9. CASE Abandon \/ GiveUp \/ PanicCollecting
  <2>1. Exit(output)
    BY <1>9 DEF Abandon, GiveUp, PanicCollecting
  <2>2. QED BY <1>3, <1>4, <1>5, <2>1
<1>10. CASE PanicFinishing
  <2>1. Exit(Append(output, Final(<<>>, Len(plans), TRUE)))
    BY <1>10 DEF PanicFinishing
  <2>2. Final(<<>>, Len(plans), TRUE) \in Sent
    BY <1>1, LenProperties, EmptyText, AnswersTyped DEF SessionShape
  <2>3. Empty(Final(<<>>, Len(plans), TRUE))
    BY DEF Final, Empty
  <2>4. QED BY <1>3, <2>1, <2>2, <2>3
<1>11. CASE \/ Speaks \/ Finish \/ Collected \/ TakeResult \/ PollLoading \/ EngineNext
            \/ ForwardAnswer \/ UNCHANGED rollingVars
  <2>1. UNCHANGED output
    <3>1. CASE Speaks
      BY <3>1 DEF Speaks, Push
    <3>2. CASE Finish \/ Collected
      BY <3>2 DEF Finish, Collected
    <3>3. CASE TakeResult
      BY <3>3 DEF TakeResult, WholeHeard, WholeEmpty, WholeSplit, WholeRetried, WholeFailed,
                  HalfAnswered, Reads
    <3>4. CASE PollLoading
      BY <3>4 DEF PollLoading
    <3>5. CASE EngineNext
      BY <3>5 DEF EngineNext, EngineHears, EngineDeaf, EngineErrs, ManagerSteps, ManagerIdles,
                  workerVars
    <3>6. CASE ForwardAnswer
      BY <3>6 DEF ForwardAnswer
    <3>7. CASE UNCHANGED rollingVars
      BY <3>7 DEF rollingVars, workerVars
    <3>8. QED BY <1>11, <3>1, <3>2, <3>3, <3>4, <3>5, <3>6, <3>7
  <2>2. QED BY <1>2, <2>1
<1>12. QED BY <1>6, <1>7, <1>8, <1>9, <1>10, <1>11
       DEF RollingNext, WorkerRuns, WorkerPanics

(* A recording with answers sent stands.                                    *)
LEMMA SentStands ==
  ASSUME AnsweredSoFar, OwedInv, [RollingNext]_rollingVars, NEW j \in DOMAIN output
  PROVE  audio' = audio /\ unheard \subseteq unheard'
<1>1. phase \in Phases
  BY TypesInParts DEF OwedInv, StatusShape
<1>2. output # <<>>
  BY EmptySeq
<1>3. phase \in {"wait", "late", "gone"}
  BY <1>1, <1>2 DEF AnsweredSoFar, Phases
<1>4. QED BY <1>3, RecordingStands

(* The two properties, without the operators that compare and count words.  *)
Spoken == {audio[k] : k \in 1..Len(audio)} \ {Quiet}
SaidOnce ==
  \A j \in Texted : Increasing(output[j].text) /\ ToSet(output[j].text) \subseteq ToSet(audio)
SaidInFull ==
  \A j \in Texted :
    ~output[j].partial /\ output[j].failed = 0
      => Spoken \subseteq ToSet(output[j].text) \cup unheard

LEMMA NothingSaidAtFirst == RollingInit => SaidOnce /\ SaidInFull
<1>1. output = <<>> => Texted = {}
  <2>1. DOMAIN <<>> = {}
    OBVIOUS
  <2>2. QED BY <2>1 DEF Texted
<1>2. QED BY <1>1 DEF RollingInit, SaidOnce, SaidInFull

(* No word is said twice or out of order, and none that was not said, if    *)
(* words differ, a chunk is longer than two overlaps, a seam is compared    *)
(* over as many words as an overlap may hold, and half a chunk holds a      *)
(* whole overlap.                                                           *)
THEOREM RollingSaysNothingTwice ==
  ASSUME ~Repeats, 2 * Overlap <= SinglePassMax, Overlap <= SeamWords, HalvesHoldSeams
  PROVE  RollingSpec => []NothingSaidTwice
<1>1. OwedInv /\ SaysInv /\ CutInv /\ AnsweredSoFar /\ SaidOnce /\ [RollingNext]_rollingVars
        => SaidOnce'
  <2> SUFFICES ASSUME OwedInv, SaysInv, CutInv, AnsweredSoFar, SaidOnce,
                      [RollingNext]_rollingVars, NEW j \in Texted'
               PROVE  /\ Increasing(output'[j].text)
                      /\ ToSet(output'[j].text) \subseteq ToSet(audio')
    BY DEF SaidOnce
  <2>1. j \in DOMAIN output'
    BY DEF Texted
  <2>2. CASE j \in DOMAIN output /\ output'[j] = output[j]
    <3>1. j \in Texted
      BY <2>2 DEF Texted
    <3>2. audio' = audio
      BY <2>2, SentStands
    <3>3. Increasing(output[j].text) /\ ToSet(output[j].text) \subseteq ToSet(audio)
      BY <3>1 DEF SaidOnce
    <3>4. QED BY <2>2, <3>2, <3>3
  <2>3. CASE Assembling(output'[j])
    <3>1. audio' = audio /\ output'[j].text = Assembled /\ phase \in {"wait", "late"}
      BY <2>3, RecordingStands DEF Assembling
    <3>2. Increasing(Assembled) /\ ToSet(Assembled) \subseteq ToSet(audio)
      BY <3>1, AssembledGrows, AssembledIsSaid
    <3>3. QED BY <3>1, <3>2
  <2>4. CASE Empty(output'[j])
    <3>1. output'[j].text = <<>>
      BY <2>4 DEF Empty
    <3>2. Increasing(<<>>) /\ ToSet(<<>>) = {}
      BY DEF Increasing, ToSet
    <3>3. QED BY <3>1, <3>2
  <2>5. QED BY <2>1, <2>2, <2>3, <2>4, SentIs
<1>2. SaidOnce => NothingSaidTwice
  BY SortedIs DEF SaidOnce, NothingSaidTwice
<1>3. QED BY <1>1, <1>2, NothingSaidAtFirst, AlwaysOwed, AlwaysSays, AlwaysCut, AlwaysAnswered,
             PTL DEF RollingSpec

(* A complete transcript that counts no failed chunk has every word but     *)
(* those the engine returned nothing for, when a tail that is not           *)
(* transcribed is too short for a word.                                     *)
THEOREM RollingLosesNothing ==
  ASSUME MinTail <= 1
  PROVE  RollingSpec => []CompleteHasEveryWord
<1>1. OwedInv /\ SaysInv /\ CutInv /\ AnsweredSoFar /\ SaidInFull /\ [RollingNext]_rollingVars
        => SaidInFull'
  <2> SUFFICES ASSUME OwedInv, SaysInv, CutInv, AnsweredSoFar, SaidInFull,
                      [RollingNext]_rollingVars, NEW j \in Texted',
                      ~output'[j].partial, output'[j].failed = 0
               PROVE  Spoken' \subseteq ToSet(output'[j].text) \cup unheard'
    BY DEF SaidInFull
  <2>1. j \in DOMAIN output'
    BY DEF Texted
  <2>2. CASE j \in DOMAIN output /\ output'[j] = output[j]
    <3>1. j \in Texted
      BY <2>2 DEF Texted
    <3>2. Spoken' = Spoken /\ unheard \subseteq unheard'
      BY <2>2, SentStands DEF Spoken
    <3>3. Spoken \subseteq ToSet(output[j].text) \cup unheard
      BY <2>2, <3>1 DEF SaidInFull
    <3>4. QED BY <2>2, <3>2, <3>3
  <2>3. CASE Assembling(output'[j])
    <3>1. /\ audio' = audio /\ unheard \subseteq unheard' /\ output'[j].text = Assembled
          /\ phase \in {"wait", "late"} /\ FailedChunks = 0
      BY <2>3, RecordingStands DEF Assembling
    <3>2. Spoken \subseteq ToSet(Assembled) \cup unheard
      <4>1. ToSet(Words(audio)) = Spoken
        BY HeardIs, WordsAreThoseSaid DEF Spoken
      <4>2. QED BY <3>1, <4>1, AssembledHasAll
    <3>3. Spoken' = Spoken
      BY <3>1 DEF Spoken
    <3>4. QED BY <3>1, <3>2, <3>3
  <2>4. CASE Empty(output'[j])
    BY <2>4 DEF Empty
  <2>5. QED BY <2>1, <2>2, <2>3, <2>4, SentIs
<1>2. OwedInv /\ SaidInFull => CompleteHasEveryWord
  <2>1. OwedInv => ToSet(Words(audio)) = Spoken
    BY HeardIs, WordsAreThoseSaid DEF Spoken
  <2>2. QED BY <2>1 DEF SaidInFull, CompleteHasEveryWord
<1>3. QED BY <1>1, <1>2, NothingSaidAtFirst, AlwaysOwed, AlwaysSays, AlwaysCut, AlwaysAnswered,
             PTL DEF RollingSpec
=============================================================================
