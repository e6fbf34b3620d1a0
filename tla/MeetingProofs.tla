---------------------------- MODULE MeetingProofs ----------------------------
(***************************************************************************)
(* Safety theorems about meetings, for every value of the constants: who   *)
(* can stop a session, and what the transcript of one holds.               *)
(***************************************************************************)
EXTENDS MeetingProperties, SequenceTheorems, FiniteSetTheorems, TLAPS

-----------------------------------------------------------------------------
(* One session: the chunks that are buffered, waiting, written and dropped  *)
(* are intervals of the frames heard, in the order they were spoken.        *)

Loudness == {"speech", "band", "silence"}
Chunker == [buffer : Seq(Nat), has_speech : BOOLEAN, trailing_silence : Nat, start : Nat]
SomeChunk == [source : Sources, frames : Seq(Nat), start : Nat, has_speech : BOOLEAN]
SomeLine == [source : Sources, start : Nat, end : Nat, frames : Seq(Nat),
             text : {"", "their words", "own words", "yeah"}]

SessionShape ==
  /\ stop \in BOOLEAN /\ mic \in {"none", "opening", "on", "gone"}
  /\ phase \in {"starting", "failed", "opening", "capturing", "joining_mic", "joining_worker",
                "summarizing", "saved"}
  /\ worker \in {"none", "idle", "gone", "dead"} /\ summary \in {"none", "whole", "tail"}
  /\ heard \in [Sources -> Seq(Loudness)] /\ chunker \in [Sources -> Chunker]
  /\ queue \in Seq(SomeChunk) /\ lines \in Seq(SomeLine) /\ recent \in Seq(SomeLine)
  /\ lost \subseteq SomeLine /\ opened \in [Sources -> Nat]

(* A buffer holds the frames from its start on, without a gap; and it holds *)
(* something just when there was speech in it.                              *)
Consecutive(frames, start) == \A i \in 1..Len(frames) : frames[i] = start + i
Pushed(c, elapsed) ==
  /\ c.start + Len(c.buffer) = elapsed /\ Consecutive(c.buffer, c.start)
  /\ c.has_speech <=> c.buffer # << >>
Open(c, elapsed) ==
  Pushed(c, elapsed) /\ Len(c.buffer) < MaxFrames /\ c.trailing_silence < HoldFrames

Chunkers ==
  \A s \in Sources : Open(chunker[s], Len(heard[s])) /\ Len(heard[s]) <= MaxHeard[s]

(* What has left the buffer is of frames before it.                         *)
Piece(p, of) ==
  p.frames # << >> /\ Consecutive(p.frames, p.start) /\ End(p) <= of[p.source].start
Waiting ==
  /\ \A i \in 1..Len(queue) : Piece(queue[i], chunker) /\ queue[i].has_speech
  /\ \A i, j \in 1..Len(queue) :
       i < j /\ queue[i].source = queue[j].source => End(queue[i]) <= queue[j].start
Written ==
  /\ \A i \in 1..Len(lines) : /\ Piece(lines[i], chunker) /\ lines[i].end = End(lines[i])
                              /\ lines[i].text \in Texts[lines[i].source]
  /\ \A i \in 1..Len(lines), j \in 1..Len(queue) :
       lines[i].source = queue[j].source => lines[i].end <= queue[j].start
Dropped == \A l \in lost : Piece(l, chunker)
Remembered == \A i \in 1..Len(recent) : \E j \in 1..Len(lines) : recent[i] = lines[j]

(* A source's thread that is not in its loop has flushed its tail, and the  *)
(* worker's channel outlives the threads that send on it.                   *)
ThreadsInStep ==
  /\ phase = "starting" => worker = "none"
  /\ phase \in {"starting", "failed"} => mic = "none"
  /\ mic \in {"opening", "on"} => phase \in {"opening", "capturing", "joining_mic"}
  /\ phase \in {"joining_worker", "summarizing", "saved"} => mic = "gone"
  /\ mic # "on" => chunker["Me"].buffer = << >>
  /\ phase # "capturing" => chunker["Them"].buffer = << >>

(* What an echo and its original share, whenever the streams were opened.   *)
SameOffset(a, b) == \E f \in 1..MaxHeard["Me"] : Holds(a.frames, f) /\ Holds(b.frames, f)
EchoOffsets ==
  \A l \in lost : l.text # "" =>
    /\ l.source = "Me" /\ l.text # "yeah"
    /\ \E i \in DOMAIN lines : /\ lines[i].source = "Them" /\ lines[i].text = l.text
                             /\ SameOffset(lines[i], l)

SpeechLocated ==
  worker # "dead" =>
    \A s \in Sources : \A f \in 1..Len(heard[s]) : heard[s][f] = "speech" =>
      IF Holds(chunker[s].buffer, f) THEN Places(s, f) = {} ELSE \E p : Places(s, f) = {p}

SessionInv ==
  /\ SessionShape /\ Chunkers /\ Waiting /\ Written /\ Dropped /\ Remembered /\ ThreadsInStep
  /\ InOrder /\ EchoOffsets /\ SpeechLocated

-----------------------------------------------------------------------------
(* StreamingChunker.                                                        *)

LEMMA SourceNames == Sources = {"Them", "Me"} /\ "Them" # "Me"
BY DEF Sources

LEMMA Bounds ==
  /\ MaxFrames \in Nat \ {0} /\ HoldFrames \in Nat \ {0} /\ RetainFrames \in Nat
  /\ \A s \in Sources : Levels[s] \subseteq Loudness /\ MaxHeard[s] \in Nat
BY MeetingSessionAssumption DEF Loudness

(* Consecutive frames are an interval.                                      *)
LEMMA HoldsInterval ==
  ASSUME NEW frames \in Seq(Nat), NEW start \in Nat, Consecutive(frames, start), NEW f \in Nat
  PROVE  Holds(frames, f) <=> start < f /\ f <= start + Len(frames)
<1>1. DOMAIN frames = 1..Len(frames) /\ Len(frames) \in Nat
  BY LenProperties
<1>2. ASSUME Holds(frames, f) PROVE start < f /\ f <= start + Len(frames)
  <2>1. PICK i \in 1..Len(frames) : frames[i] = f
    BY <1>1, <1>2 DEF Holds
  <2>2. f = start + i
    BY <2>1 DEF Consecutive
  <2>3. QED BY <1>1, <2>1, <2>2
<1>3. ASSUME start < f, f <= start + Len(frames) PROVE Holds(frames, f)
  <2>1. f - start \in 1..Len(frames) /\ start + (f - start) = f
    BY <1>1, <1>3
  <2>2. frames[f - start] = f
    BY <2>1 DEF Consecutive
  <2>3. QED BY <1>1, <2>1, <2>2 DEF Holds
<1>4. QED BY <1>2, <1>3

(* A frame is only ever added at the end of what is buffered, leading       *)
(* silence only moves the start, and no frame of speech is left out.        *)
LEMMA PushKeeps ==
  ASSUME NEW c \in Chunker, NEW n \in Nat, Open(c, n), NEW level \in Loudness
  PROVE  LET p == PushFrame(c, level, n + 1)
         IN  /\ p \in Chunker /\ Pushed(p, n + 1) /\ c.start <= p.start
             /\ ~ShouldFlushChunk(p) => Open(p, n + 1)
             /\ ShouldFlushChunk(p) => p.buffer # << >>
             /\ \A f \in 1..n : Holds(p.buffer, f) <=> Holds(c.buffer, f)
             /\ level = "speech" => Holds(p.buffer, n + 1)
<1> DEFINE p == PushFrame(c, level, n + 1)
           len == Len(c.buffer)
           kept == ~(c.buffer = << >> /\ ~c.has_speech /\ level # "speech")
<1>1. /\ c.buffer \in Seq(Nat) /\ c.has_speech \in BOOLEAN /\ c.trailing_silence \in Nat
      /\ c.start \in Nat /\ len \in Nat
      /\ c.start + len = n /\ Consecutive(c.buffer, c.start) /\ (c.has_speech <=> c.buffer # << >>)
      /\ len < MaxFrames /\ c.trailing_silence < HoldFrames
  BY LenProperties DEF Chunker, Open, Pushed
<1>2. CASE ~kept
  <2>1. p = [c EXCEPT !.start = n + 1] /\ c.buffer = << >> /\ len = 0
    BY <1>2 DEF PushFrame
  <2>2. p \in Chunker /\ p.start = n + 1 /\ p.buffer = << >> /\ p.has_speech = c.has_speech
        /\ p.trailing_silence = c.trailing_silence
    BY <2>1 DEF Chunker
  <2> HIDE DEF p
  <2>3. Pushed(p, n + 1) /\ c.start <= p.start
    BY <1>1, <2>1, <2>2, EmptySeq DEF Pushed, Consecutive
  <2>4. Open(p, n + 1) /\ ~ShouldFlushChunk(p)
    BY <1>1, <2>1, <2>2, <2>3, Bounds DEF Open, ShouldFlushChunk
  <2>5. level # "speech"
    BY <1>2
  <2>6. QED BY <2>1, <2>2, <2>3, <2>4, <2>5 DEF p
<1>3. CASE kept
  <2> DEFINE silence == CASE level = "speech" -> 0
                          [] level = "silence" -> c.trailing_silence + 1
                          [] level = "band" -> c.trailing_silence
  <2>1. p = [c EXCEPT !.buffer = Append(c.buffer, n + 1),
                      !.has_speech = c.has_speech \/ level = "speech",
                      !.trailing_silence = silence]
    BY <1>3 DEF PushFrame
  <2>2. silence \in Nat /\ silence <= HoldFrames
    BY <1>1, Bounds DEF Loudness
  <2> HIDE DEF silence
  <2>3. /\ Append(c.buffer, n + 1) \in Seq(Nat) /\ Append(c.buffer, n + 1) # << >>
        /\ Len(Append(c.buffer, n + 1)) = len + 1
        /\ \A i \in 1..len : Append(c.buffer, n + 1)[i] = c.buffer[i]
        /\ Append(c.buffer, n + 1)[len + 1] = n + 1
    <3>1. n + 1 \in Nat /\ c.buffer \in Seq(Nat)
      BY <1>1
    <3>2. QED BY <3>1, AppendProperties
  <2>4. /\ p \in Chunker /\ p.buffer = Append(c.buffer, n + 1) /\ p.start = c.start
        /\ p.has_speech = (c.has_speech \/ level = "speech") /\ p.trailing_silence = silence
    BY <2>1, <2>2, <2>3 DEF Chunker
  <2> HIDE DEF p
  <2>5. p.has_speech
    BY <1>1, <1>3, <2>4
  <2>6. Consecutive(p.buffer, p.start)
    <3> SUFFICES ASSUME NEW i \in 1..len + 1 PROVE p.buffer[i] = c.start + i
      BY <2>3, <2>4 DEF Consecutive
    <3>1. CASE i = len + 1
      <4>1. c.start + (len + 1) = n + 1
        <5>1. c.start \in Nat /\ len \in Nat /\ c.start + len = n
          BY <1>1
        <5>2. QED BY <5>1
      <4>2. QED BY <2>3, <2>4, <3>1, <4>1
    <3>2. CASE i # len + 1
      BY <1>1, <2>3, <2>4, <3>2 DEF Consecutive
    <3>3. QED BY <3>1, <3>2
  <2>7. p.start + Len(p.buffer) = n + 1 /\ Pushed(p, n + 1) /\ c.start <= p.start
    <3>1. Len(p.buffer) = len + 1 /\ p.buffer # << >> /\ p.start = c.start
      BY <2>3, <2>4
    <3>2. c.start \in Nat /\ len \in Nat /\ c.start + len = n
      BY <1>1
    <3>3. p.start + Len(p.buffer) = n + 1 /\ c.start <= p.start
      BY <3>1, <3>2
    <3>4. QED BY <2>5, <2>6, <3>1, <3>3 DEF Pushed
  <2>8. ~ShouldFlushChunk(p) => Open(p, n + 1)
    BY <1>1, <2>2, <2>3, <2>4, <2>5, <2>7, Bounds DEF ShouldFlushChunk, Open
  <2>9. \A f \in Nat : Holds(p.buffer, f) <=> c.start < f /\ f <= n + 1
    BY <2>3, <2>4, <2>6, <2>7, <1>1, HoldsInterval
  <2>10. \A f \in Nat : Holds(c.buffer, f) <=> c.start < f /\ f <= n
    BY <1>1, HoldsInterval
  <2>11. \A f \in 1..n : Holds(p.buffer, f) <=> Holds(c.buffer, f)
    BY <2>9, <2>10
  <2>12. Holds(p.buffer, n + 1)
    BY <1>1, <2>9
  <2>13. QED BY <2>3, <2>4, <2>7, <2>8, <2>11, <2>12 DEF p
<1>4. QED BY <1>2, <1>3

-----------------------------------------------------------------------------
(* Where a frame is.                                                        *)

LEMMA PlacesMembers ==
  ASSUME SessionShape, NEW s, NEW f, NEW p
  PROVE  p \in Places(s, f) <=>
           \/ \E i \in 1..Len(queue) :
                /\ queue[i].source = s /\ Holds(queue[i].frames, f) /\ p = <<"queue", i>>
           \/ \E i \in 1..Len(lines) :
                /\ lines[i].source = s /\ Holds(lines[i].frames, f) /\ p = <<"lines", i>>
           \/ \E l \in lost : l.source = s /\ Holds(l.frames, f) /\ p = <<"lost", l>>
<1>1. DOMAIN queue = 1..Len(queue) /\ DOMAIN lines = 1..Len(lines)
  BY LenProperties DEF SessionShape
<1>2. QED BY <1>1 DEF Places

(* A frame that is in a chunk is one before the buffer.                     *)
LEMMA PlacedFramesArePast ==
  ASSUME SessionShape, Waiting, Written, Dropped, NEW s \in Sources, NEW f \in Nat,
         Places(s, f) # {}
  PROVE  f <= chunker[s].start
<1>1. ASSUME NEW p, p.source = s, p.frames \in Seq(Nat), p.start \in Nat, Piece(p, chunker),
             Holds(p.frames, f)
      PROVE  f <= chunker[s].start
  <2>1. f <= p.start + Len(p.frames)
    BY <1>1, HoldsInterval DEF Piece
  <2>2. p.start + Len(p.frames) <= chunker[s].start
    BY <1>1 DEF Piece, End
  <2>3. /\ p.start + Len(p.frames) \in Nat /\ chunker[s].start \in Nat
    BY <1>1, LenProperties DEF SessionShape, Chunker
  <2>4. QED BY <2>1, <2>2, <2>3
<1>2. ASSUME NEW i \in 1..Len(queue), queue[i].source = s, Holds(queue[i].frames, f)
      PROVE  f <= chunker[s].start
  <2>1. queue[i] \in SomeChunk /\ Piece(queue[i], chunker)
    BY ElementOfSeq DEF SessionShape, Waiting
  <2>2. QED BY <1>1, <1>2, <2>1 DEF SomeChunk
<1>3. ASSUME NEW i \in 1..Len(lines), lines[i].source = s, Holds(lines[i].frames, f)
      PROVE  f <= chunker[s].start
  <2>1. lines[i] \in SomeLine /\ Piece(lines[i], chunker)
    BY ElementOfSeq DEF SessionShape, Written
  <2>2. QED BY <1>1, <1>3, <2>1 DEF SomeLine
<1>4. ASSUME NEW l \in lost, l.source = s, Holds(l.frames, f)
      PROVE  f <= chunker[s].start
  <2>1. l \in SomeLine /\ Piece(l, chunker)
    BY DEF SessionShape, Dropped
  <2>2. QED BY <1>1, <1>4, <2>1 DEF SomeLine
<1>5. QED BY <1>2, <1>3, <1>4, PlacesMembers

(* A chunk at the end of the queue is one place more for its frames.        *)
LEMMA QueuedPlace ==
  ASSUME SessionShape, NEW c \in SomeChunk, queue' = Append(queue, c),
         UNCHANGED <<lines, lost>>, NEW s, NEW f
  PROVE  Places(s, f)' = Places(s, f) \cup
           {p \in {<<"queue", Len(queue) + 1>>} : c.source = s /\ Holds(c.frames, f)}
<1>1. /\ Len(queue) \in Nat /\ Len(queue') = Len(queue) + 1 /\ queue' \in Seq(SomeChunk)
      /\ \A i \in 1..Len(queue) : queue'[i] = queue[i]
      /\ queue'[Len(queue) + 1] = c
  BY AppendProperties, LenProperties DEF SessionShape
<1>2. ASSUME NEW p
      PROVE  p \in Places(s, f)' <=>
               \/ \E i \in 1..Len(queue') :
                    /\ queue'[i].source = s /\ Holds(queue'[i].frames, f) /\ p = <<"queue", i>>
               \/ \E i \in 1..Len(lines') :
                    /\ lines'[i].source = s /\ Holds(lines'[i].frames, f) /\ p = <<"lines", i>>
               \/ \E l \in lost' : l.source = s /\ Holds(l.frames, f) /\ p = <<"lost", l>>
  <2>1. DOMAIN queue' = 1..Len(queue') /\ DOMAIN lines' = 1..Len(lines')
    BY <1>1, LenProperties DEF SessionShape
  <2>2. QED BY <2>1 DEF Places, Holds
<1>3. ASSUME NEW p
      PROVE  (\E i \in 1..Len(queue') :
                /\ queue'[i].source = s /\ Holds(queue'[i].frames, f) /\ p = <<"queue", i>>)
             <=> \/ \E i \in 1..Len(queue) :
                      /\ queue[i].source = s /\ Holds(queue[i].frames, f) /\ p = <<"queue", i>>
                 \/ c.source = s /\ Holds(c.frames, f) /\ p = <<"queue", Len(queue) + 1>>
  <2>1. 1..Len(queue') = (1..Len(queue)) \cup {Len(queue) + 1}
    BY <1>1
  <2>2. QED BY <1>1, <2>1
<1>4. QED BY <1>2, <1>3, PlacesMembers

-----------------------------------------------------------------------------
(* A step of a source's loop: the chunker becomes p or, when it is flushed, *)
(* a fresh one, and p's buffer a chunk.                                     *)
SourceStep(source, p, n, flush) ==
  /\ chunker' = [chunker EXCEPT ![source] = IF flush THEN Taken(p, n) ELSE p]
  /\ queue' = IF flush /\ worker # "dead" THEN Append(queue, Chunk(source, p)) ELSE queue
  /\ UNCHANGED <<worker, recent, lines, lost>>
  /\ heard' \in [Sources -> Seq(Loudness)]
  /\ \A s \in Sources : s # source => heard'[s] = heard[s]
  /\ \A f \in 1..Len(heard[source]) : heard'[source][f] = heard[source][f]
  /\ Len(heard[source]) <= n /\ n = Len(heard'[source]) /\ n <= MaxHeard[source]

Advances(source, p, n, flush) ==
  /\ Pushed(p, n) /\ chunker[source].start <= p.start
  /\ flush => p.buffer # << >>
  /\ ~flush => Open(p, n)
  /\ \A f \in 1..Len(heard[source]) : Holds(p.buffer, f) <=> Holds(chunker[source].buffer, f)
  /\ \A f \in 1..n : heard'[source][f] = "speech" /\ f > Len(heard[source]) => Holds(p.buffer, f)

LEMMA SourceMoves ==
  ASSUME SessionInv, NEW source \in Sources, NEW p \in Chunker, NEW n \in Nat,
         NEW flush \in BOOLEAN, SourceStep(source, p, n, flush), Advances(source, p, n, flush)
  PROVE  /\ chunker' \in [Sources -> Chunker]
         /\ \A s \in Sources : s # source => chunker'[s] = chunker[s]
         /\ chunker'[source] = IF flush THEN Taken(p, n) ELSE p
         /\ \A s \in Sources : chunker[s].start <= chunker'[s].start
         /\ flush => End(Chunk(source, p)) = chunker'[source].start
         /\ Chunkers'
<1>1. /\ chunker \in [Sources -> Chunker] /\ p.start \in Nat /\ p.buffer \in Seq(Nat)
      /\ \A s \in Sources : chunker[s].start \in Nat
  BY DEF SessionInv, SessionShape, Chunker
<1>2. /\ Taken(p, n) \in Chunker /\ Taken(p, n).start = n /\ Taken(p, n).buffer = << >>
      /\ ~Taken(p, n).has_speech /\ Taken(p, n).trailing_silence = 0
  <2>1. << >> \in Seq(Nat)
    BY EmptySeq
  <2>2. /\ NewChunker \in Chunker /\ NewChunker.buffer = << >>
        /\ NewChunker.has_speech = FALSE /\ NewChunker.trailing_silence = 0
    BY <2>1 DEF NewChunker, Chunker
  <2>3. Taken(p, n) = [NewChunker EXCEPT !.start = n]
    BY DEF Taken
  <2>4. QED BY <2>2, <2>3 DEF Chunker
<1>3. chunker' = [chunker EXCEPT ![source] = IF flush THEN Taken(p, n) ELSE p]
  BY DEF SourceStep
<1>4. /\ chunker' \in [Sources -> Chunker]
      /\ \A s \in Sources : s # source => chunker'[s] = chunker[s]
      /\ chunker'[source] = IF flush THEN Taken(p, n) ELSE p
  BY <1>1, <1>2, <1>3
<1>5. p.start + Len(p.buffer) = n /\ p.start <= n /\ Len(p.buffer) \in Nat
  BY <1>1, LenProperties DEF Advances, Pushed
<1>6. chunker[source].start <= p.start
  BY DEF Advances
<1>7. \A s \in Sources : chunker[s].start <= chunker'[s].start
  <2> SUFFICES ASSUME NEW s \in Sources PROVE chunker[s].start <= chunker'[s].start
    OBVIOUS
  <2>1. CASE s = source /\ flush
    <3>1. chunker'[s].start = n
      BY <1>2, <1>4, <2>1
    <3>2. QED BY <1>1, <1>5, <1>6, <2>1, <3>1
  <2>2. CASE s = source /\ ~flush
    BY <1>1, <1>4, <1>6, <2>2
  <2>3. CASE s # source
    BY <1>1, <1>4, <2>3
  <2>4. QED BY <2>1, <2>2, <2>3
<1>8. flush => End(Chunk(source, p)) = chunker'[source].start
  BY <1>2, <1>4, <1>5 DEF End, Chunk
<1>9. Chunkers'
  <2> SUFFICES ASSUME NEW s \in Sources
               PROVE  Open(chunker'[s], Len(heard'[s])) /\ Len(heard'[s]) <= MaxHeard[s]
    BY DEF Chunkers, Open, Pushed, Consecutive
  <2>1. CASE s = source /\ flush
    <3>1. Open(Taken(p, n), n)
      BY <1>2, EmptySeq, Bounds DEF Open, Pushed, Consecutive
    <3>2. QED BY <1>4, <2>1, <3>1 DEF SourceStep
  <2>2. CASE s = source /\ ~flush
    BY <1>4, <2>2 DEF SourceStep, Advances
  <2>3. CASE s # source
    BY <1>4, <2>3 DEF SourceStep, SessionInv, Chunkers
  <2>4. QED BY <2>1, <2>2, <2>3
<1>10. QED BY <1>4, <1>7, <1>8, <1>9

(* A chunk that is flushed comes after all that has been flushed before.    *)
LEMMA SourceQueues ==
  ASSUME SessionInv, NEW source \in Sources, NEW p \in Chunker, NEW n \in Nat,
         NEW flush \in BOOLEAN, SourceStep(source, p, n, flush), Advances(source, p, n, flush)
  PROVE  queue' \in Seq(SomeChunk) /\ Waiting' /\ Written' /\ Dropped'
<1> DEFINE c == Chunk(source, p)
<1>1. /\ chunker' \in [Sources -> Chunker]
      /\ \A s \in Sources : chunker[s].start <= chunker'[s].start
      /\ flush => End(c) = chunker'[source].start
  BY SourceMoves
<1>2. /\ chunker \in [Sources -> Chunker]
      /\ \A s \in Sources : chunker[s].start \in Nat /\ chunker'[s].start \in Nat
      /\ queue \in Seq(SomeChunk) /\ lines \in Seq(SomeLine) /\ lost \subseteq SomeLine
      /\ Len(queue) \in Nat
  BY <1>1, LenProperties DEF SessionInv, SessionShape, Chunker
<1>3. c \in SomeChunk /\ c.source = source /\ c.frames = p.buffer /\ c.start = p.start
      /\ c.has_speech = p.has_speech
  BY DEF Chunk, Chunker, SomeChunk
<1>4. ASSUME NEW x, x.source \in Sources, x.start \in Nat, x.frames \in Seq(Nat), Piece(x, chunker)
      PROVE  Piece(x, chunker')
  <2>1. Len(x.frames) \in Nat
    BY <1>4, LenProperties
  <2>2. x.start + Len(x.frames) <= chunker'[x.source].start
    BY <1>1, <1>2, <1>4, <2>1 DEF Piece, End
  <2>3. QED BY <1>4, <2>2 DEF Piece, End, Consecutive
<1>5. \A i \in 1..Len(queue) :
        /\ queue[i] \in SomeChunk /\ Piece(queue[i], chunker') /\ queue[i].has_speech
        /\ End(queue[i]) <= chunker[queue[i].source].start
  <2>1. \A i \in 1..Len(queue) : queue[i] \in SomeChunk /\ Piece(queue[i], chunker) /\ queue[i].has_speech
    BY <1>2, ElementOfSeq DEF SessionInv, Waiting
  <2>2. QED BY <1>4, <2>1 DEF SomeChunk, Piece
<1>6. \A i \in 1..Len(lines) :
        /\ lines[i] \in SomeLine /\ Piece(lines[i], chunker') /\ lines[i].end = End(lines[i])
        /\ lines[i].text \in Texts[lines[i].source]
        /\ lines[i].end <= chunker[lines[i].source].start
  <2>1. \A i \in 1..Len(lines) :
           /\ lines[i] \in SomeLine /\ Piece(lines[i], chunker) /\ lines[i].end = End(lines[i])
           /\ lines[i].text \in Texts[lines[i].source]
    BY <1>2, ElementOfSeq DEF SessionInv, Written
  <2>2. QED BY <1>4, <2>1 DEF SomeLine, Piece
<1>7. Dropped'
  <2>1. \A l \in lost : l \in SomeLine /\ Piece(l, chunker)
    BY <1>2 DEF SessionInv, Dropped
  <2>2. \A l \in lost : Piece(l, chunker')
    BY <1>4, <2>1 DEF SomeLine
  <2>3. QED BY <2>2 DEF SourceStep, Dropped
<1>8. CASE flush /\ worker # "dead"
  <2>1. /\ queue' = Append(queue, c) /\ queue' \in Seq(SomeChunk) /\ Len(queue') = Len(queue) + 1
        /\ \A i \in 1..Len(queue) : queue'[i] = queue[i]
        /\ queue'[Len(queue) + 1] = c
        /\ 1..Len(queue') = (1..Len(queue)) \cup {Len(queue) + 1}
        /\ lines' = lines
    BY <1>2, <1>3, <1>8, AppendProperties DEF SourceStep
  <2>2. c.has_speech /\ Piece(c, chunker') /\ chunker[source].start <= c.start
    BY <1>1, <1>3, <1>8, <1>2 DEF Advances, Pushed, Piece, Consecutive
  <2> HIDE DEF c
  <2>3. Waiting'
    <3>1. \A i \in 1..Len(queue') : Piece(queue'[i], chunker') /\ queue'[i].has_speech
      BY <1>5, <2>1, <2>2
    <3>2. ASSUME NEW i \in 1..Len(queue'), NEW j \in 1..Len(queue'), i < j,
                 queue'[i].source = queue'[j].source
          PROVE  End(queue'[i]) <= queue'[j].start
      <4>1. i \in 1..Len(queue) /\ queue'[i] = queue[i]
        BY <1>2, <2>1, <3>2
      <4>2. CASE j \in 1..Len(queue)
        BY <2>1, <3>2, <4>1, <4>2 DEF SessionInv, Waiting
      <4>3. CASE j = Len(queue) + 1
        <5>1. queue[i].source = source /\ queue'[j] = c
          BY <1>3, <2>1, <3>2, <4>1, <4>3
        <5>2. End(queue[i]) <= chunker[source].start /\ End(queue[i]) \in Int /\ c.start \in Int
          BY <1>3, <1>5, <4>1, <5>1, LenProperties DEF End, SomeChunk
        <5>3. QED BY <1>2, <2>2, <4>1, <5>1, <5>2
      <4>4. QED BY <2>1, <4>2, <4>3
    <3>3. QED BY <3>1, <3>2 DEF Waiting, Piece, End, Consecutive
  <2>4. Written'
    <3>1. ASSUME NEW i \in 1..Len(lines), NEW j \in 1..Len(queue'),
                 lines[i].source = queue'[j].source
          PROVE  lines[i].end <= queue'[j].start
      <4>1. CASE j \in 1..Len(queue)
        BY <2>1, <3>1, <4>1 DEF SessionInv, Written
      <4>2. CASE j = Len(queue) + 1
        <5>1. lines[i].source = source /\ queue'[j] = c
          BY <1>3, <2>1, <3>1, <4>2
        <5>2. /\ lines[i] \in SomeLine /\ lines[i].end <= chunker[lines[i].source].start
              /\ c \in SomeChunk
          BY <1>3, <1>6
        <5>3. lines[i].end \in Nat /\ c.start \in Nat
          BY <5>2 DEF SomeLine, SomeChunk
        <5>4. QED BY <1>2, <2>2, <5>1, <5>2, <5>3
      <4>3. QED BY <2>1, <4>1, <4>2
    <3>2. QED BY <1>6, <2>1, <3>1 DEF Written, Piece, End, Consecutive
  <2>5. QED BY <1>7, <2>1, <2>3, <2>4
<1>9. CASE ~(flush /\ worker # "dead")
  <2>1. queue' = queue /\ lines' = lines
    BY <1>9 DEF SourceStep
  <2>2. Waiting'
    BY <1>5, <2>1 DEF SessionInv, Waiting, Piece, End, Consecutive
  <2>3. Written'
    BY <1>6, <2>1 DEF SessionInv, Written, Piece, End, Consecutive
  <2>4. QED BY <1>2, <1>7, <2>1, <2>2, <2>3
<1>10. QED BY <1>8, <1>9

(* A frame stays where it is, or goes from the buffer into one chunk.       *)
LEMMA SourceLocates ==
  ASSUME SessionInv, NEW source \in Sources, NEW p \in Chunker, NEW n \in Nat,
         NEW flush \in BOOLEAN, SourceStep(source, p, n, flush), Advances(source, p, n, flush)
  PROVE  SpeechLocated'
<1> DEFINE c == Chunk(source, p)
           new == <<"queue", Len(queue) + 1>>
<1>1. /\ \A s \in Sources : s # source => chunker'[s] = chunker[s]
      /\ chunker'[source] = IF flush THEN Taken(p, n) ELSE p
  BY SourceMoves
<1>2. c \in SomeChunk /\ c.source = source /\ c.frames = p.buffer
  BY DEF Chunk, Chunker, SomeChunk
<1>3. /\ SessionShape /\ Waiting /\ Written /\ Dropped /\ SpeechLocated
      /\ Len(heard[source]) \in Nat /\ chunker[source] \in Chunker /\ chunker[source].start \in Nat
      /\ chunker[source].start <= Len(heard[source])
  <2>1. /\ chunker[source] \in Chunker /\ heard[source] \in Seq(Loudness)
        /\ chunker[source].start + Len(chunker[source].buffer) = Len(heard[source])
    BY DEF SessionInv, SessionShape, Chunkers, Open, Pushed
  <2>2. /\ Len(heard[source]) \in Nat /\ Len(chunker[source].buffer) \in Nat
        /\ chunker[source].start \in Nat
    BY <2>1, LenProperties DEF Chunker
  <2>3. QED BY <2>1, <2>2 DEF SessionInv
<1>4. UNCHANGED <<worker, lines, lost>>
  BY DEF SourceStep
<1>5. ASSUME worker # "dead", NEW f \in 1..n, heard'[source][f] = "speech"
      PROVE  IF Holds(p.buffer, f) THEN Places(source, f) = {} ELSE \E q : Places(source, f) = {q}
  <2>1. CASE f <= Len(heard[source])
    <3>1. f \in 1..Len(heard[source]) /\ heard[source][f] = "speech"
      BY <1>3, <1>5, <2>1 DEF SourceStep
    <3>2. Holds(p.buffer, f) <=> Holds(chunker[source].buffer, f)
      BY <3>1 DEF Advances
    <3>3. QED BY <1>3, <1>5, <3>1, <3>2 DEF SpeechLocated
  <2>2. CASE f > Len(heard[source])
    <3>1. Holds(p.buffer, f)
      BY <1>5, <2>2 DEF Advances
    <3>2. f \in Nat /\ ~(f <= chunker[source].start)
      BY <1>3, <2>2
    <3>3. Places(source, f) = {}
      BY <1>3, <3>2, PlacedFramesArePast
    <3>4. QED BY <3>1, <3>3
  <2>3. f <= Len(heard[source]) \/ f > Len(heard[source])
    BY <1>3
  <2>4. QED BY <2>1, <2>2, <2>3
<1>6. ASSUME NEW s \in Sources, NEW f \in Nat,
             s # source \/ ~flush \/ ~Holds(p.buffer, f) \/ worker = "dead"
      PROVE  Places(s, f)' = Places(s, f)
  <2>1. CASE queue' = queue
    BY <1>4, <2>1 DEF Places, Holds
  <2>2. CASE queue' # queue
    <3>1. queue' = Append(queue, c) /\ flush /\ worker # "dead"
      BY <2>2 DEF SourceStep
    <3>2. ~(c.source = s /\ Holds(c.frames, f))
      BY <1>2, <1>6, <3>1
    <3>3. Places(s, f)' = Places(s, f) \cup {q \in {new} : c.source = s /\ Holds(c.frames, f)}
      BY <1>2, <1>3, <1>4, <3>1, QueuedPlace
    <3>4. QED BY <3>2, <3>3
  <2>3. QED BY <2>1, <2>2
<1> SUFFICES ASSUME worker' # "dead", NEW s \in Sources, NEW f \in 1..Len(heard'[s]),
                    heard'[s][f] = "speech"
             PROVE  IF Holds(chunker'[s].buffer, f) THEN Places(s, f)' = {}
                    ELSE \E q : Places(s, f)' = {q}
  BY DEF SpeechLocated, Holds
<1>7. worker # "dead"
  BY <1>4
<1>8. CASE s # source
  <2>1. heard'[s] = heard[s] /\ chunker'[s] = chunker[s]
    BY <1>1, <1>8 DEF SourceStep
  <2>2. f \in Nat
    BY <2>1, LenProperties DEF SessionInv, SessionShape
  <2>3. Places(s, f)' = Places(s, f)
    BY <1>6, <1>8, <2>2
  <2>4. QED BY <1>3, <1>7, <2>1, <2>3 DEF SpeechLocated
<1>9. CASE s = source
  <2>1. f \in 1..n /\ f \in Nat
    BY <1>9 DEF SourceStep
  <2>2. IF Holds(p.buffer, f) THEN Places(source, f) = {} ELSE \E q : Places(source, f) = {q}
    BY <1>5, <1>7, <1>9, <2>1
  <2>3. CASE ~flush
    <3>1. chunker'[s] = p /\ Places(s, f)' = Places(source, f)
      BY <1>1, <1>6, <1>9, <2>1, <2>3
    <3>2. QED BY <2>2, <3>1
  <2>4. CASE flush
    <3>1. chunker'[s].buffer = << >>
      BY <1>1, <1>9, <2>4 DEF Taken, NewChunker
    <3>2. ~Holds(chunker'[s].buffer, f)
      BY <3>1 DEF Holds
    <3>3. CASE Holds(p.buffer, f)
      <4>1. queue' = Append(queue, c)
        BY <1>7, <2>4 DEF SourceStep
      <4>2. Places(s, f)' = Places(s, f) \cup {q \in {new} : c.source = s /\ Holds(c.frames, f)}
        BY <1>2, <1>3, <1>4, <4>1, QueuedPlace
      <4>3. Places(s, f) = {} /\ c.source = s /\ Holds(c.frames, f)
        BY <1>2, <1>9, <2>2, <3>3
      <4>4. Places(s, f)' = {new}
        BY <4>2, <4>3
      <4>5. QED BY <3>2, <4>4
    <3>4. CASE ~Holds(p.buffer, f)
      <4>1. Places(s, f)' = Places(source, f)
        BY <1>6, <1>9, <2>1, <3>4
      <4>2. QED BY <2>2, <3>2, <3>4, <4>1
    <3>5. QED BY <3>3, <3>4
  <2>5. QED BY <2>3, <2>4
<1>10. QED BY <1>8, <1>9

(* What a source does to the lines and the history: nothing.                *)
LEMMA SourceStepKeeps ==
  ASSUME SessionInv, NEW source \in Sources, NEW p \in Chunker, NEW n \in Nat,
         NEW flush \in BOOLEAN, SourceStep(source, p, n, flush), Advances(source, p, n, flush),
         SessionShape', ThreadsInStep'
  PROVE  SessionInv'
<1>1. UNCHANGED <<recent, lines, lost>>
  BY DEF SourceStep
<1>2. Remembered' /\ InOrder'
  BY <1>1 DEF SessionInv, Remembered, InOrder
<1>3. EchoOffsets'
  <2> SUFFICES ASSUME NEW l \in lost, l.text # ""
               PROVE  /\ l.source = "Me" /\ l.text # "yeah"
                      /\ \E i \in DOMAIN lines : /\ lines[i].source = "Them" /\ lines[i].text = l.text
                                               /\ SameOffset(lines[i], l)
    BY <1>1 DEF EchoOffsets
  <2>1. QED BY DEF SessionInv, EchoOffsets
<1>4. Chunkers' /\ Waiting' /\ Written' /\ Dropped' /\ SpeechLocated'
  BY SourceMoves, SourceQueues, SourceLocates
<1>5. QED BY <1>2, <1>3, <1>4 DEF SessionInv

LEMMA HearStep ==
  ASSUME SessionInv, NEW source \in Sources, Hear(source),
         UNCHANGED <<stop, phase, opened, worker, recent, lines, lost, summary>>,
         IF source = "Me" THEN mic = "on" ELSE phase = "capturing"
  PROVE  SessionInv'
<1> DEFINE n == Len(heard[source]) + 1
<1>1. PICK level \in Levels[source] :
        LET p == PushFrame(chunker[source], level, n)
            flush == p.buffer # << >> /\ ShouldFlushChunk(p)
        IN  /\ Len(heard[source]) < MaxHeard[source]
            /\ heard' = [heard EXCEPT ![source] = Append(heard[source], level)]
            /\ chunker' = [chunker EXCEPT ![source] = IF flush THEN Taken(p, n) ELSE p]
            /\ queue' = IF flush /\ worker # "dead" THEN Append(queue, Chunk(source, p)) ELSE queue
            /\ mic' = IF source = "Me" /\ flush /\ worker = "dead" THEN "gone" ELSE mic
  BY DEF Hear
<1> DEFINE p == PushFrame(chunker[source], level, n)
           flush == p.buffer # << >> /\ ShouldFlushChunk(p)
<1>2. /\ level \in Loudness /\ heard \in [Sources -> Seq(Loudness)]
      /\ heard[source] \in Seq(Loudness) /\ Len(heard[source]) \in Nat /\ n \in Nat
      /\ MaxHeard[source] \in Nat
      /\ chunker[source] \in Chunker /\ Open(chunker[source], Len(heard[source]))
  BY <1>1, Bounds, LenProperties DEF SessionInv, SessionShape, Chunkers
<1>3. /\ p \in Chunker /\ Pushed(p, n) /\ chunker[source].start <= p.start
      /\ ~ShouldFlushChunk(p) => Open(p, n)
      /\ ShouldFlushChunk(p) => p.buffer # << >>
      /\ \A f \in 1..Len(heard[source]) : Holds(p.buffer, f) <=> Holds(chunker[source].buffer, f)
      /\ level = "speech" => Holds(p.buffer, n)
  BY <1>2, PushKeeps
<1>4. /\ Append(heard[source], level) \in Seq(Loudness)
      /\ Len(Append(heard[source], level)) = n
      /\ \A f \in 1..Len(heard[source]) : Append(heard[source], level)[f] = heard[source][f]
      /\ Append(heard[source], level)[n] = level
  BY <1>2, AppendProperties
<1> HIDE DEF p
<1>5. /\ heard' \in [Sources -> Seq(Loudness)] /\ heard'[source] = Append(heard[source], level)
      /\ \A s \in Sources : s # source => heard'[s] = heard[s]
  BY <1>1, <1>2, <1>4
<1>6. flush \in BOOLEAN /\ SourceStep(source, p, n, flush)
  <2>1. n <= MaxHeard[source] /\ Len(heard[source]) <= n
    BY <1>1, <1>2
  <2>2. /\ chunker' = [chunker EXCEPT ![source] = IF flush THEN Taken(p, n) ELSE p]
        /\ queue' = IF flush /\ worker # "dead" THEN Append(queue, Chunk(source, p)) ELSE queue
    BY <1>1 DEF p
  <2> HIDE DEF n, flush
  <2>3. QED BY <1>4, <1>5, <2>1, <2>2 DEF SourceStep, flush
<1>7. Advances(source, p, n, flush)
  <2>1. \A f \in 1..n : heard'[source][f] = "speech" /\ f > Len(heard[source]) => Holds(p.buffer, f)
    <3> SUFFICES ASSUME NEW f \in 1..n, heard'[source][f] = "speech", f > Len(heard[source])
                 PROVE  Holds(p.buffer, f)
      OBVIOUS
    <3>1. f = n
      BY <1>2
    <3>2. QED BY <1>3, <1>4, <1>5, <3>1
  <2> HIDE DEF n
  <2>2. QED BY <1>3, <2>1 DEF Advances
<1>8. /\ chunker' \in [Sources -> Chunker]
      /\ \A s \in Sources : s # source => chunker'[s] = chunker[s]
      /\ chunker'[source] = IF flush THEN Taken(p, n) ELSE p
      /\ queue' \in Seq(SomeChunk)
  BY <1>2, <1>3, <1>6, <1>7, SourceMoves, SourceQueues
<1>9. mic' = IF source = "Me" /\ flush /\ worker = "dead" THEN "gone" ELSE mic
  BY <1>1 DEF p
<1>10. SessionShape'
  BY <1>5, <1>8, <1>9 DEF SessionInv, SessionShape
<1>11. flush => chunker'[source].buffer = << >>
  BY <1>8 DEF Taken, NewChunker
<1> HIDE DEF flush
<1>12. ThreadsInStep'
  BY <1>8, <1>9, <1>11, SourceNames DEF SessionInv, ThreadsInStep
<1>13. QED BY <1>2, <1>3, <1>6, <1>7, <1>10, <1>12, SourceStepKeeps

(* Flushing the tail leaves the chunker empty.                              *)
LEMMA FlushStep ==
  ASSUME SessionInv, NEW source \in Sources, FlushTail(source),
         UNCHANGED <<heard, opened, worker, recent, lines, lost, summary>>,
         \/ source = "Me" /\ mic = "on" /\ mic' = "gone" /\ UNCHANGED <<stop, phase>>
         \/ /\ source = "Them" /\ phase = "capturing" /\ phase' = "joining_mic"
            /\ stop' = TRUE /\ mic' = mic
  PROVE  SessionInv'
<1> DEFINE n == Len(heard[source])
           p == chunker[source]
           flush == p.buffer # << >>
<1>1. /\ p \in Chunker /\ p.start \in Nat /\ heard \in [Sources -> Seq(Loudness)]
      /\ n \in Nat /\ Open(p, n) /\ n <= MaxHeard[source] /\ chunker \in [Sources -> Chunker]
  BY LenProperties DEF SessionInv, SessionShape, Chunkers, Chunker
<1>2. /\ chunker' = [chunker EXCEPT ![source] = IF flush THEN Taken(p, n) ELSE p]
      /\ queue' = IF flush /\ worker # "dead" THEN Append(queue, Chunk(source, p)) ELSE queue
  BY <1>1 DEF FlushTail
<1>3. flush \in BOOLEAN /\ SourceStep(source, p, n, flush)
  BY <1>1, <1>2 DEF SourceStep
<1>4. Advances(source, p, n, flush)
  BY <1>1 DEF Advances, Open
<1>5. /\ chunker' \in [Sources -> Chunker]
      /\ \A s \in Sources : s # source => chunker'[s] = chunker[s]
      /\ chunker'[source] = IF flush THEN Taken(p, n) ELSE p
      /\ queue' \in Seq(SomeChunk)
  BY <1>1, <1>3, <1>4, SourceMoves, SourceQueues
<1>6. SessionShape'
  BY <1>5 DEF SessionInv, SessionShape
<1>7. chunker'[source].buffer = << >>
  BY <1>5 DEF Taken, NewChunker
<1>8. ThreadsInStep'
  BY <1>5, <1>7, SourceNames DEF SessionInv, ThreadsInStep
<1>9. QED BY <1>1, <1>3, <1>4, <1>6, <1>8, SourceStepKeeps

-----------------------------------------------------------------------------
(* The transcription worker takes the chunk at the head of the queue, and   *)
(* it becomes a line or is dropped.                                         *)
OfHead(line) ==
  /\ line \in SomeLine /\ line.source = Head(queue).source /\ line.start = Head(queue).start
  /\ line.end = End(Head(queue)) /\ line.frames = Head(queue).frames
HeadMoves(line, written) ==
  /\ queue # << >> /\ queue' = Tail(queue)
  /\ IF written THEN lines' = Append(lines, line) /\ lost' = lost
                ELSE lost' = lost \cup {line} /\ lines' = lines
  /\ UNCHANGED <<stop, phase, mic, heard, opened, chunker, worker, summary>>

LEMMA QueueTail ==
  ASSUME SessionShape, queue # << >>
  PROVE  /\ Head(queue) = queue[1] /\ Head(queue) \in SomeChunk /\ 1 \in 1..Len(queue)
         /\ Tail(queue) \in Seq(SomeChunk) /\ Len(queue) \in Nat /\ Len(Tail(queue)) = Len(queue) - 1
         /\ \A i \in 1..Len(Tail(queue)) :
              Tail(queue)[i] = queue[i + 1] /\ i + 1 \in 1..Len(queue) /\ i + 1 > 1
<1>1. queue \in Seq(SomeChunk)
  BY DEF SessionShape
<1>2. /\ Len(queue) \in Nat \ {0} /\ Head(queue) \in SomeChunk /\ Tail(queue) \in Seq(SomeChunk)
      /\ Len(Tail(queue)) = Len(queue) - 1
      /\ \A i \in 1..Len(Tail(queue)) : Tail(queue)[i] = queue[i + 1]
  BY <1>1, EmptySeq, HeadTailProperties
<1>3. Head(queue) = queue[1]
  OBVIOUS
<1>4. QED BY <1>2, <1>3

LEMMA LinesAppend ==
  ASSUME SessionShape, NEW line \in SomeLine, lines' = Append(lines, line)
  PROVE  /\ lines' \in Seq(SomeLine) /\ Len(lines) \in Nat
         /\ 1..Len(lines') = (1..Len(lines)) \cup {Len(lines) + 1}
         /\ DOMAIN lines = 1..Len(lines) /\ DOMAIN lines' = 1..Len(lines')
         /\ \A i \in 1..Len(lines) : lines'[i] = lines[i] /\ i # Len(lines) + 1
         /\ lines'[Len(lines) + 1] = line
<1>1. lines \in Seq(SomeLine) /\ Len(lines) \in Nat
  BY LenProperties DEF SessionShape
<1>2. /\ lines' \in Seq(SomeLine) /\ Len(lines') = Len(lines) + 1
      /\ \A i \in 1..Len(lines) : lines'[i] = lines[i]
      /\ lines'[Len(lines) + 1] = line
  BY <1>1, AppendProperties
<1>3. QED BY <1>1, <1>2, LenProperties

(* The head of the queue comes after the lines of its source and before     *)
(* what else waits.                                                         *)
LEMMA HeadInOrder ==
  ASSUME SessionInv, NEW line, OfHead(line), NEW written \in BOOLEAN, HeadMoves(line, written),
         written => line.text \in Texts[line.source]
  PROVE  Waiting' /\ Written' /\ Dropped' /\ InOrder'
<1>1. /\ Head(queue) = queue[1] /\ 1 \in 1..Len(queue) /\ queue' = Tail(queue)
      /\ \A i \in 1..Len(queue') : queue'[i] = queue[i + 1] /\ i + 1 \in 1..Len(queue) /\ i + 1 > 1
  BY QueueTail DEF HeadMoves, SessionInv
<1>2. Piece(queue[1], chunker)
  BY <1>1 DEF SessionInv, Waiting
<1>3. Piece(line, chunker) /\ line.end = End(line)
  BY <1>1, <1>2 DEF OfHead, Piece, End
<1>4. chunker' = chunker
  BY DEF HeadMoves
<1>5. Waiting'
  <2>1. \A i \in 1..Len(queue') : Piece(queue'[i], chunker) /\ queue'[i].has_speech
    BY <1>1 DEF SessionInv, Waiting
  <2>2. ASSUME NEW i \in 1..Len(queue'), NEW j \in 1..Len(queue'), i < j,
               queue'[i].source = queue'[j].source
        PROVE  End(queue'[i]) <= queue'[j].start
    <3>1. i + 1 < j + 1
      BY <2>2
    <3>2. QED BY <1>1, <2>2, <3>1 DEF SessionInv, Waiting
  <2>3. QED BY <1>4, <2>1, <2>2 DEF Waiting, Piece, End, Consecutive
<1>6. \A i \in 1..Len(queue') : line.source = queue'[i].source => line.end <= queue'[i].start
  <2> SUFFICES ASSUME NEW i \in 1..Len(queue'), line.source = queue'[i].source
               PROVE  line.end <= queue'[i].start
    OBVIOUS
  <2>1. 1 < i + 1 /\ i + 1 \in 1..Len(queue) /\ queue'[i] = queue[i + 1]
    BY <1>1
  <2>2. End(queue[1]) <= queue[i + 1].start
    BY <1>1, <2>1 DEF SessionInv, Waiting, OfHead
  <2>3. QED BY <1>1, <2>1, <2>2 DEF OfHead
<1>7. \A i \in 1..Len(lines) : lines[i].source = line.source => lines[i].end <= line.start
  BY <1>1 DEF SessionInv, Written, OfHead
<1>8. \A i \in 1..Len(lines), j \in 1..Len(queue') :
        lines[i].source = queue'[j].source => lines[i].end <= queue'[j].start
  BY <1>1 DEF SessionInv, Written
<1>9. \A i \in 1..Len(lines) : /\ Piece(lines[i], chunker) /\ lines[i].end = End(lines[i])
                               /\ lines[i].text \in Texts[lines[i].source]
  BY DEF SessionInv, Written
<1>10. CASE written
  <2>1. /\ 1..Len(lines') = (1..Len(lines)) \cup {Len(lines) + 1} /\ DOMAIN lines' = 1..Len(lines')
        /\ DOMAIN lines = 1..Len(lines) /\ Len(lines) \in Nat
        /\ \A i \in 1..Len(lines) : lines'[i] = lines[i]
        /\ lines'[Len(lines) + 1] = line /\ lost' = lost
    BY <1>10, LinesAppend DEF HeadMoves, OfHead, SessionInv
  <2>2. \A i \in 1..Len(lines') : /\ Piece(lines'[i], chunker) /\ lines'[i].end = End(lines'[i])
                                  /\ lines'[i].text \in Texts[lines'[i].source]
    BY <1>3, <1>9, <1>10, <2>1
  <2>3. \A i \in 1..Len(lines'), j \in 1..Len(queue') :
          lines'[i].source = queue'[j].source => lines'[i].end <= queue'[j].start
    BY <1>6, <1>8, <2>1
  <2>4. Written'
    BY <1>4, <2>2, <2>3 DEF Written, Piece, End, Consecutive
  <2>5. InOrder'
    <3> SUFFICES ASSUME NEW i \in DOMAIN lines', NEW j \in DOMAIN lines', i < j,
                        lines'[i].source = lines'[j].source
                 PROVE  lines'[i].end <= lines'[j].start
      BY DEF InOrder
    <3>1. i \in 1..Len(lines) /\ lines'[i] = lines[i]
      BY <2>1
    <3>2. CASE j = Len(lines) + 1
      BY <1>7, <2>1, <3>1, <3>2
    <3>3. CASE j # Len(lines) + 1
      BY <2>1, <3>1, <3>3 DEF SessionInv, InOrder
    <3>4. QED BY <3>2, <3>3
  <2>6. Dropped'
    BY <1>4, <2>1 DEF SessionInv, Dropped, Piece, End, Consecutive
  <2>7. QED BY <1>5, <2>4, <2>5, <2>6
<1>11. CASE ~written
  <2>1. lines' = lines /\ lost' = lost \cup {line}
    BY <1>11 DEF HeadMoves
  <2>2. Written'
    BY <1>4, <1>8, <1>9, <2>1 DEF Written, Piece, End, Consecutive
  <2>3. InOrder'
    BY <2>1 DEF SessionInv, InOrder
  <2>4. Dropped'
    BY <1>3, <1>4, <2>1 DEF SessionInv, Dropped, Piece, End, Consecutive
  <2>5. QED BY <1>5, <2>2, <2>3, <2>4
<1>12. QED BY <1>10, <1>11

(* The frames of the head go to one new place, and the others stay.         *)
LEMMA HeadPlaces ==
  ASSUME SessionInv, NEW line, OfHead(line), NEW written \in BOOLEAN, HeadMoves(line, written),
         NEW s, NEW f, NEW q
  PROVE  q \in Places(s, f)' <=>
           \/ \E i \in 1..Len(queue) :
                i > 1 /\ queue[i].source = s /\ Holds(queue[i].frames, f) /\ q = <<"queue", i - 1>>
           \/ \E i \in 1..Len(lines) :
                lines[i].source = s /\ Holds(lines[i].frames, f) /\ q = <<"lines", i>>
           \/ \E l \in lost : l.source = s /\ Holds(l.frames, f) /\ q = <<"lost", l>>
           \/ /\ Head(queue).source = s /\ Holds(Head(queue).frames, f)
              /\ q = IF written THEN <<"lines", Len(lines) + 1>> ELSE <<"lost", line>>
<1>1. /\ queue' = Tail(queue) /\ queue' \in Seq(SomeChunk)
      /\ Len(queue) \in Nat /\ Len(queue') = Len(queue) - 1
      /\ \A i \in 1..Len(queue') : queue'[i] = queue[i + 1]
  BY QueueTail DEF HeadMoves, SessionInv
<1>2. /\ lines \in Seq(SomeLine) /\ lines' \in Seq(SomeLine)
      /\ line.source = Head(queue).source /\ line.frames = Head(queue).frames
  BY LinesAppend DEF HeadMoves, SessionInv, SessionShape, OfHead
<1>3. q \in Places(s, f)' <=>
        \/ \E i \in 1..Len(queue') :
             queue'[i].source = s /\ Holds(queue'[i].frames, f) /\ q = <<"queue", i>>
        \/ \E i \in 1..Len(lines') :
             lines'[i].source = s /\ Holds(lines'[i].frames, f) /\ q = <<"lines", i>>
        \/ \E l \in lost' : l.source = s /\ Holds(l.frames, f) /\ q = <<"lost", l>>
  <2>1. DOMAIN queue' = 1..Len(queue') /\ DOMAIN lines' = 1..Len(lines')
    BY <1>1, <1>2, LenProperties
  <2>2. QED BY <2>1 DEF Places, Holds
<1>4. (\E i \in 1..Len(queue') :
         queue'[i].source = s /\ Holds(queue'[i].frames, f) /\ q = <<"queue", i>>)
      <=> \E i \in 1..Len(queue) :
            i > 1 /\ queue[i].source = s /\ Holds(queue[i].frames, f) /\ q = <<"queue", i - 1>>
  <2>1. ASSUME NEW i \in 1..Len(queue')
        PROVE  i + 1 \in 1..Len(queue) /\ i + 1 > 1 /\ (i + 1) - 1 = i /\ queue'[i] = queue[i + 1]
    BY <1>1
  <2>2. ASSUME NEW i \in 1..Len(queue), i > 1
        PROVE  i - 1 \in 1..Len(queue') /\ queue'[i - 1] = queue[i]
    <3>1. i - 1 \in 1..Len(queue') /\ (i - 1) + 1 = i
      BY <1>1, <2>2
    <3>2. queue'[i - 1] = queue[(i - 1) + 1]
      BY <1>1, <3>1
    <3>3. QED BY <3>1, <3>2
  <2>3. QED BY <2>1, <2>2
<1>5. CASE written
  <2>1. /\ 1..Len(lines') = (1..Len(lines)) \cup {Len(lines) + 1} /\ lost' = lost
        /\ \A i \in 1..Len(lines) : lines'[i] = lines[i]
        /\ lines'[Len(lines) + 1] = line
    BY <1>5, LinesAppend DEF HeadMoves, OfHead, SessionInv
  <2>2. QED BY <1>2, <1>3, <1>4, <1>5, <2>1
<1>6. CASE ~written
  <2>1. lines' = lines /\ lost' = lost \cup {line}
    BY <1>6 DEF HeadMoves
  <2>2. QED BY <1>2, <1>3, <1>4, <1>6, <2>1
<1>7. QED BY <1>5, <1>6

LEMMA HeadLocates ==
  ASSUME SessionInv, NEW line, OfHead(line), NEW written \in BOOLEAN, HeadMoves(line, written)
  PROVE  SpeechLocated'
<1> SUFFICES ASSUME worker # "dead", NEW s \in Sources, NEW f \in 1..Len(heard[s]),
                    heard[s][f] = "speech"
             PROVE  IF Holds(chunker[s].buffer, f) THEN Places(s, f)' = {}
                    ELSE \E q : Places(s, f)' = {q}
  BY DEF SpeechLocated, HeadMoves
<1> DEFINE moves == Head(queue).source = s /\ Holds(Head(queue).frames, f)
           to == IF written THEN <<"lines", Len(lines) + 1>> ELSE <<"lost", line>>
<1>1. IF Holds(chunker[s].buffer, f) THEN Places(s, f) = {} ELSE \E q : Places(s, f) = {q}
  BY DEF SessionInv, SpeechLocated
<1>2. \A q : q \in Places(s, f) <=>
         \/ \E i \in 1..Len(queue) :
              queue[i].source = s /\ Holds(queue[i].frames, f) /\ q = <<"queue", i>>
         \/ \E i \in 1..Len(lines) :
              lines[i].source = s /\ Holds(lines[i].frames, f) /\ q = <<"lines", i>>
         \/ \E l \in lost : l.source = s /\ Holds(l.frames, f) /\ q = <<"lost", l>>
  BY PlacesMembers DEF SessionInv
<1>3. \A q : q \in Places(s, f)' <=>
         \/ \E i \in 1..Len(queue) :
              i > 1 /\ queue[i].source = s /\ Holds(queue[i].frames, f) /\ q = <<"queue", i - 1>>
         \/ \E i \in 1..Len(lines) :
              lines[i].source = s /\ Holds(lines[i].frames, f) /\ q = <<"lines", i>>
         \/ \E l \in lost : l.source = s /\ Holds(l.frames, f) /\ q = <<"lost", l>>
         \/ moves /\ q = to
  BY HeadPlaces
<1>4. Head(queue) = queue[1] /\ 1 \in 1..Len(queue) /\ Len(queue) \in Nat
  BY QueueTail DEF HeadMoves, SessionInv
<1>5. moves => <<"queue", 1>> \in Places(s, f)
  BY <1>2, <1>4
<1> HIDE DEF to
<1>6. CASE moves
  <2>1. Places(s, f) = {<<"queue", 1>>} /\ ~Holds(chunker[s].buffer, f)
    BY <1>1, <1>5, <1>6
  <2>2. /\ \A i \in 1..Len(queue) : i > 1 => ~(queue[i].source = s /\ Holds(queue[i].frames, f))
        /\ \A i \in 1..Len(lines) : ~(lines[i].source = s /\ Holds(lines[i].frames, f))
        /\ \A l \in lost : ~(l.source = s /\ Holds(l.frames, f))
    <3>1. \A i \in 1..Len(queue) : i > 1 => <<"queue", i>> # <<"queue", 1>>
      OBVIOUS
    <3>2. /\ \A i : <<"lines", i>> # <<"queue", 1>>
          /\ \A l : <<"lost", l>> # <<"queue", 1>>
      OBVIOUS
    <3>3. \A q : q \in Places(s, f) => q = <<"queue", 1>>
      BY <2>1
    <3>4. QED BY <1>2, <3>1, <3>2, <3>3
  <2>3. \A q : q \in Places(s, f)' <=> q = to
    BY <1>3, <1>6, <2>2
  <2>4. Places(s, f)' = {to}
    BY <2>3
  <2>5. QED BY <2>1, <2>4
<1>7. CASE ~moves
  <2>1. CASE Holds(chunker[s].buffer, f)
    <3>1. \A q : q \notin Places(s, f)
      BY <1>1, <2>1
    <3>2. \A q : q \notin Places(s, f)'
      BY <1>2, <1>3, <1>7, <3>1
    <3>3. QED BY <2>1, <3>2
  <2>2. CASE ~Holds(chunker[s].buffer, f)
    <3>1. PICK q : Places(s, f) = {q}
      BY <1>1, <2>2
    <3>2. \A r : r \in Places(s, f) <=> r = q
      BY <3>1
    <3>3. CASE \E i \in 1..Len(queue) :
                 queue[i].source = s /\ Holds(queue[i].frames, f) /\ q = <<"queue", i>>
      <4>1. PICK i \in 1..Len(queue) :
                   queue[i].source = s /\ Holds(queue[i].frames, f) /\ q = <<"queue", i>>
        BY <3>3
      <4>2. i > 1
        <5>1. i # 1
          BY <1>4, <1>7, <4>1
        <5>2. QED BY <1>4, <5>1
      <4>3. /\ \A j \in 1..Len(queue) : queue[j].source = s /\ Holds(queue[j].frames, f) => j = i
            /\ \A j \in 1..Len(lines) : ~(lines[j].source = s /\ Holds(lines[j].frames, f))
            /\ \A l \in lost : ~(l.source = s /\ Holds(l.frames, f))
        <5>1. /\ \A j : <<"lines", j>> # <<"queue", i>> /\ <<"lost", j>> # <<"queue", i>>
              /\ \A j : <<"queue", j>> = <<"queue", i>> => j = i
          OBVIOUS
        <5>2. QED BY <1>2, <3>2, <4>1, <5>1
      <4>4. \A r : r \in Places(s, f)' <=> r = <<"queue", i - 1>>
        BY <1>3, <1>7, <4>1, <4>2, <4>3
      <4>5. Places(s, f)' = {<<"queue", i - 1>>}
        BY <4>4
      <4>6. QED BY <2>2, <4>5
    <3>4. CASE ~\E i \in 1..Len(queue) :
                  queue[i].source = s /\ Holds(queue[i].frames, f) /\ q = <<"queue", i>>
      <4>1. \A i \in 1..Len(queue) : ~(queue[i].source = s /\ Holds(queue[i].frames, f))
        <5> SUFFICES ASSUME NEW i \in 1..Len(queue), queue[i].source = s, Holds(queue[i].frames, f)
                     PROVE  FALSE
          OBVIOUS
        <5>1. <<"queue", i>> \in Places(s, f)
          BY <1>2
        <5>2. QED BY <3>2, <3>4, <5>1
      <4>2. \A r : r \in Places(s, f)' <=> r \in Places(s, f)
        BY <1>2, <1>3, <1>7, <4>1
      <4>3. Places(s, f)' = {q}
        BY <3>2, <4>2
      <4>4. QED BY <2>2, <4>3
    <3>5. QED BY <3>3, <3>4
  <2>3. QED BY <2>1, <2>2
<1>8. QED BY <1>6, <1>7

(* Pruning the echo history keeps a part of it.                             *)
LEMMA PrunedHistory ==
  ASSUME SessionShape, NEW line
  PROVE  /\ Pruned(line) \in Seq(SomeLine)
         /\ \A i \in 1..Len(Pruned(line)) : \E j \in 1..Len(recent) : Pruned(line)[i] = recent[j]
<1> DEFINE old == {n \in 0..Len(recent) : \A i \in 1..n : recent[i].end < line.start - RetainFrames}
           k == Cardinality(old)
<1>1. recent \in Seq(SomeLine) /\ Len(recent) \in Nat
  BY LenProperties DEF SessionShape
<1>2. k \in Nat \ {0}
  <2>1. IsFiniteSet(0..Len(recent)) /\ old \in SUBSET (0..Len(recent))
    BY <1>1, FS_Interval
  <2>2. IsFiniteSet(old)
    BY <2>1, FS_Subset
  <2>3. 0 \in old
    BY <1>1
  <2> HIDE DEF old
  <2>4. k \in Nat /\ k # 0
    BY <2>2, <2>3, FS_CardinalityType, FS_EmptySet
  <2>5. QED BY <2>4
<1>3. Pruned(line) = SubSeq(recent, k, Len(recent))
  BY DEF Pruned
<1> HIDE DEF k
<1>4. \A i \in k..Len(recent) : i \in 1..Len(recent) /\ recent[i] \in SomeLine
  <2>1. \A i \in k..Len(recent) : i \in 1..Len(recent)
    BY <1>1, <1>2
  <2>2. QED BY <1>1, <2>1, ElementOfSeq
<1>5. /\ Pruned(line) \in Seq(SomeLine)
      /\ Len(Pruned(line)) = IF k <= Len(recent) THEN Len(recent) - k + 1 ELSE 0
      /\ \A i \in 1..Len(recent) - k + 1 : Pruned(line)[i] = recent[k + i - 1]
  BY <1>1, <1>2, <1>3, <1>4, SubSeqProperties
<1>6. ASSUME NEW i \in 1..Len(Pruned(line))
      PROVE  \E j \in 1..Len(recent) : Pruned(line)[i] = recent[j]
  <2>1. i \in 1..Len(recent) - k + 1 /\ k + i - 1 \in 1..Len(recent)
    BY <1>1, <1>2, <1>5
  <2>2. QED BY <1>5, <2>1
<1>7. QED BY <1>5, <1>6

(* Two intervals of frames that overlap share a frame.                      *)
LEMMA OverlapShares ==
  ASSUME SessionInv, NEW a \in SomeLine, NEW b \in SomeLine, a.source = "Me",
         Piece(a, chunker), Piece(b, chunker), a.end = End(a), b.end = End(b), TimeOverlaps(a, b)
  PROVE  SameOffset(b, a)
<1> DEFINE f == IF a.start < b.start THEN b.start + 1 ELSE a.start + 1
<1>1. /\ a.frames \in Seq(Nat) /\ b.frames \in Seq(Nat) /\ a.start \in Nat /\ b.start \in Nat
      /\ Len(a.frames) \in Nat \ {0} /\ Len(b.frames) \in Nat \ {0}
  BY EmptySeq, LenProperties DEF SomeLine, Piece
<1>2. /\ a.start < b.start + Len(b.frames) /\ b.start < a.start + Len(a.frames)
  BY DEF TimeOverlaps, End
<1>3. /\ f \in Nat /\ a.start < f /\ f <= a.start + Len(a.frames)
      /\ b.start < f /\ f <= b.start + Len(b.frames)
  <2>1. ASSUME NEW x \in Nat, NEW y \in Nat, NEW m \in Nat \ {0}, NEW n \in Nat \ {0},
               x < y + n, y < x + m
        PROVE  LET g == IF x < y THEN y + 1 ELSE x + 1
               IN  g \in Nat /\ x < g /\ g <= x + m /\ y < g /\ g <= y + n
    BY <2>1
  <2>2. QED BY <1>1, <1>2, <2>1
<1>4. a.start + Len(a.frames) <= MaxHeard["Me"]
  <2>1. a.start + Len(a.frames) <= chunker["Me"].start
    BY DEF Piece, End
  <2>2. /\ chunker["Me"] \in Chunker /\ heard["Me"] \in Seq(Loudness)
        /\ chunker["Me"].start + Len(chunker["Me"].buffer) = Len(heard["Me"])
        /\ Len(heard["Me"]) <= MaxHeard["Me"] /\ MaxHeard["Me"] \in Nat
    BY SourceNames, Bounds DEF SessionInv, SessionShape, Chunkers, Open, Pushed
  <2>3. /\ chunker["Me"].start \in Nat /\ Len(chunker["Me"].buffer) \in Nat
        /\ Len(heard["Me"]) \in Nat
    BY <2>2, LenProperties DEF Chunker
  <2>4. chunker["Me"].start <= Len(heard["Me"])
    BY <2>2, <2>3
  <2>5. ASSUME NEW w \in Nat, NEW x \in Nat, NEW y \in Nat, NEW z \in Nat, w <= x, x <= y, y <= z
        PROVE  w <= z
    BY <2>5
  <2>6. a.start + Len(a.frames) \in Nat
    BY <1>1
  <2>7. QED BY <2>1, <2>2, <2>3, <2>4, <2>5, <2>6
<1> HIDE DEF f
<1>5. Holds(a.frames, f) /\ Holds(b.frames, f)
  BY <1>1, <1>3, HoldsInterval DEF Piece
<1>6. f \in 1..MaxHeard["Me"]
  <2>1. MaxHeard["Me"] \in Nat
    BY SourceNames, Bounds
  <2>2. QED BY <1>1, <1>3, <1>4, <2>1
<1>7. QED BY <1>5, <1>6 DEF SameOffset

LEMMA TextsKnown ==
  \A s \in Sources : Texts[s] \subseteq {"", "their words", "own words", "yeah"}
<1>1. Texts["Them"] \subseteq {"", "their words", "own words", "yeah"}
  BY DEF Texts
<1>2. Texts["Me"] \subseteq {"", "their words", "own words", "yeah"}
  BY DEF Texts
<1>3. QED BY <1>1, <1>2, SourceNames

(* A line of the user's is dropped as an echo only for what was written.    *)
LEMMA EchoKept ==
  ASSUME SessionInv, NEW line, OfHead(line), NEW written \in BOOLEAN, HeadMoves(line, written),
         \/ written
         \/ line.text = ""
         \/ line.source = "Me" /\ Echo(line, Pruned(line))
  PROVE  EchoOffsets'
<1>1. line \in SomeLine /\ Piece(line, chunker) /\ line.end = End(line)
  <2>1. Head(queue) = queue[1] /\ 1 \in 1..Len(queue)
    BY QueueTail DEF HeadMoves, SessionInv
  <2>2. Piece(Head(queue), chunker)
    BY <2>1 DEF SessionInv, Waiting
  <2>3. QED BY <2>2 DEF OfHead, Piece, End
<1>2. DOMAIN lines = 1..Len(lines)
  BY LenProperties DEF SessionInv, SessionShape
<1>3. \A i \in DOMAIN lines : i \in DOMAIN lines' /\ lines'[i] = lines[i]
  <2>1. CASE written
    <3>1. /\ 1..Len(lines') = (1..Len(lines)) \cup {Len(lines) + 1}
          /\ DOMAIN lines' = 1..Len(lines')
          /\ \A i \in 1..Len(lines) : lines'[i] = lines[i]
      BY <1>1, <2>1, LinesAppend DEF HeadMoves, SessionInv
    <3>2. QED BY <1>2, <3>1
  <2>2. CASE ~written
    BY <2>2 DEF HeadMoves
  <2>3. QED BY <2>1, <2>2
<1> SUFFICES ASSUME NEW l \in lost', l.text # ""
             PROVE  /\ l.source = "Me" /\ l.text # "yeah"
                    /\ \E i \in DOMAIN lines' : /\ lines'[i].source = "Them"
                                              /\ lines'[i].text = l.text /\ SameOffset(lines'[i], l)
  BY DEF EchoOffsets
<1>4. CASE l \in lost
  BY <1>3, <1>4 DEF SessionInv, EchoOffsets
<1>5. CASE l \notin lost
  <2>1. l = line /\ ~written
    BY <1>5 DEF HeadMoves
  <2>2. line.source = "Me" /\ Echo(line, Pruned(line))
    BY <2>1
  <2>3. /\ Pruned(line) \in Seq(SomeLine)
        /\ \A i \in 1..Len(Pruned(line)) : \E j \in 1..Len(recent) : Pruned(line)[i] = recent[j]
    BY PrunedHistory DEF SessionInv
  <2>4. PICK i \in 1..Len(Pruned(line)) :
          /\ Pruned(line)[i].source = "Them" /\ TimeOverlaps(line, Pruned(line)[i])
          /\ IsEcho(line.text, Pruned(line)[i].text)
    BY <2>2, <2>3, LenProperties DEF Echo
  <2>5. PICK j \in 1..Len(lines) : Pruned(line)[i] = lines[j]
    BY <2>3, <2>4 DEF SessionInv, Remembered
  <2>6. lines[j] \in SomeLine /\ Piece(lines[j], chunker) /\ lines[j].end = End(lines[j])
    BY ElementOfSeq DEF SessionInv, SessionShape, Written
  <2>7. SameOffset(lines[j], line)
    BY <1>1, <2>2, <2>4, <2>5, <2>6, OverlapShares
  <2>8. j \in DOMAIN lines' /\ lines'[j] = lines[j]
    BY <1>2, <1>3
  <2>9. line.text # "yeah" /\ lines[j].text = line.text /\ lines[j].source = "Them"
    BY <2>4, <2>5 DEF IsEcho
  <2>10. QED BY <2>1, <2>2, <2>7, <2>8, <2>9
<1>6. QED BY <1>4, <1>5

LEMMA WorkerStep ==
  ASSUME SessionInv, WorkerTranscribes
  PROVE  SessionInv'
<1> DEFINE h == Head(queue)
<1>1. /\ worker = "idle" /\ queue # << >> /\ queue' = Tail(queue)
      /\ UNCHANGED <<stop, phase, mic, heard, opened, chunker, worker, summary>>
  BY DEF WorkerTranscribes
<1>2. /\ h \in SomeChunk /\ Tail(queue) \in Seq(SomeChunk)
  BY <1>1, QueueTail DEF SessionInv
<1>3. End(h) \in Nat
  BY <1>2, LenProperties DEF End, SomeChunk
<1>4. ASSUME NEW text \in {"", "their words", "own words", "yeah"}
      PROVE  OfHead(Line(h, text)) /\ Line(h, text).text = text
  BY <1>2, <1>3 DEF OfHead, Line, SomeLine, SomeChunk
<1>5. PICK line \in SomeLine, written \in BOOLEAN :
        /\ OfHead(line) /\ HeadMoves(line, written)
        /\ written => line.text \in Texts[line.source]
        /\ written \/ line.text = "" \/ (line.source = "Me" /\ Echo(line, Pruned(line)))
        /\ recent' = recent \/ recent' = Pruned(line)
             \/ (written /\ recent' = Append(Pruned(line), line))
  <2>1. CASE Skips(h)
    <3>1. OfHead(Line(h, "")) /\ Line(h, "").text = "" /\ Line(h, "") \in SomeLine
      BY <1>4 DEF OfHead
    <3>2. HeadMoves(Line(h, ""), FALSE) /\ recent' = recent
      BY <1>1, <2>1 DEF Skips, HeadMoves
    <3>3. QED BY <3>1, <3>2
  <2>2. CASE \E text \in Texts[h.source] : Writes(Line(h, text))
    <3>1. PICK text \in Texts[h.source] : Writes(Line(h, text))
      BY <2>2
    <3>2. text \in {"", "their words", "own words", "yeah"}
      BY <1>2, TextsKnown DEF SomeChunk
    <3> DEFINE line == Line(h, text)
    <3>3. OfHead(line) /\ line \in SomeLine /\ line.text \in Texts[line.source]
      BY <1>4, <3>1, <3>2 DEF OfHead
    <3> HIDE DEF line
    <3>4. CASE line.source = "Me" /\ Echo(line, Pruned(line))
      <4>1. HeadMoves(line, FALSE) /\ recent' = Pruned(line)
        BY <1>1, <3>1, <3>4 DEF Writes, HeadMoves, line
      <4>2. QED BY <3>3, <3>4, <4>1
    <3>5. CASE ~(line.source = "Me" /\ Echo(line, Pruned(line)))
      <4>1. HeadMoves(line, TRUE) /\ recent' = Append(Pruned(line), line)
        BY <1>1, <3>1, <3>5 DEF Writes, HeadMoves, line
      <4>2. QED BY <3>3, <4>1
    <3>6. QED BY <3>4, <3>5
  <2>3. QED BY <2>1, <2>2 DEF WorkerTranscribes
<1>6. Waiting' /\ Written' /\ Dropped' /\ InOrder'
  BY <1>5, HeadInOrder
<1>7. SpeechLocated' /\ EchoOffsets'
  BY <1>5, HeadLocates, EchoKept
<1>8. line \in SomeLine /\ lines \in Seq(SomeLine) /\ recent \in Seq(SomeLine)
      /\ lost \subseteq SomeLine
  BY <1>5 DEF OfHead, SessionInv, SessionShape
<1>9. /\ lines' \in Seq(SomeLine) /\ lost' \subseteq SomeLine
      /\ \A j \in 1..Len(lines) : j \in 1..Len(lines') /\ lines'[j] = lines[j]
      /\ written => \E j \in 1..Len(lines') : lines'[j] = line
  <2>1. CASE written
    <3>1. /\ lines' \in Seq(SomeLine) /\ 1..Len(lines') = (1..Len(lines)) \cup {Len(lines) + 1}
          /\ \A i \in 1..Len(lines) : lines'[i] = lines[i]
          /\ lines'[Len(lines) + 1] = line /\ lost' = lost
      BY <1>5, <1>8, <2>1, LinesAppend DEF HeadMoves, SessionInv
    <3>2. QED BY <1>8, <3>1
  <2>2. CASE ~written
    <3>1. lines' = lines /\ lost' = lost \cup {line}
      BY <1>5, <2>2 DEF HeadMoves
    <3>2. QED BY <1>8, <2>2, <3>1
  <2>3. QED BY <2>1, <2>2
<1>10. /\ Pruned(line) \in Seq(SomeLine) /\ Len(Pruned(line)) \in Nat
       /\ \A i \in 1..Len(Pruned(line)) : \E j \in 1..Len(recent) : Pruned(line)[i] = recent[j]
  BY PrunedHistory, LenProperties DEF SessionInv
<1>11. /\ \A i \in 1..Len(recent) : \E j \in 1..Len(lines') : recent[i] = lines'[j]
       /\ \A i \in 1..Len(Pruned(line)) : \E j \in 1..Len(lines') : Pruned(line)[i] = lines'[j]
  <2>1. ASSUME NEW i \in 1..Len(recent) PROVE \E j \in 1..Len(lines') : recent[i] = lines'[j]
    <3>1. PICK j \in 1..Len(lines) : recent[i] = lines[j]
      BY DEF SessionInv, Remembered
    <3>2. j \in 1..Len(lines') /\ lines'[j] = lines[j]
      BY <1>9
    <3>3. QED BY <3>1, <3>2
  <2>2. QED BY <1>10, <2>1
<1>12. recent' \in Seq(SomeLine) /\ Remembered'
  <2>1. CASE recent' = recent
    BY <1>8, <1>11, <2>1 DEF Remembered
  <2>2. CASE recent' = Pruned(line)
    BY <1>10, <1>11, <2>2 DEF Remembered
  <2>3. CASE written /\ recent' = Append(Pruned(line), line)
    <3>1. /\ recent' \in Seq(SomeLine) /\ Len(recent') = Len(Pruned(line)) + 1
          /\ \A i \in 1..Len(Pruned(line)) : recent'[i] = Pruned(line)[i]
          /\ recent'[Len(Pruned(line)) + 1] = line
      BY <1>8, <1>10, <2>3, AppendProperties
    <3>2. 1..Len(recent') = (1..Len(Pruned(line))) \cup {Len(Pruned(line)) + 1}
      BY <1>10, <3>1
    <3>3. ASSUME NEW i \in 1..Len(recent') PROVE \E j \in 1..Len(lines') : recent'[i] = lines'[j]
      <4>1. CASE i \in 1..Len(Pruned(line))
        BY <1>11, <3>1, <4>1
      <4>2. CASE i = Len(Pruned(line)) + 1
        <5>1. recent'[i] = line
          BY <3>1, <4>2
        <5>2. \E j \in 1..Len(lines') : lines'[j] = line
          BY <1>9, <2>3
        <5>3. QED BY <5>1, <5>2
      <4>3. QED BY <3>2, <4>1, <4>2
    <3>4. QED BY <3>1, <3>3 DEF Remembered
  <2>4. QED BY <1>5, <2>1, <2>2, <2>3
<1>13. SessionShape'
  BY <1>1, <1>2, <1>9, <1>12 DEF SessionInv, SessionShape
<1>14. Chunkers' /\ ThreadsInStep'
  BY <1>1 DEF SessionInv, Chunkers, ThreadsInStep, Open, Pushed, Consecutive
<1>15. QED BY <1>6, <1>7, <1>12, <1>13, <1>14 DEF SessionInv

-----------------------------------------------------------------------------
(* The other steps leave what was heard where it is.                        *)
LEMMA NothingMoves ==
  ASSUME SessionInv, UNCHANGED <<heard, chunker, queue, recent, lines, lost>>,
         worker = "dead" => worker' = "dead"
  PROVE  /\ Chunkers' /\ Waiting' /\ Written' /\ Dropped' /\ Remembered'
         /\ InOrder' /\ EchoOffsets' /\ SpeechLocated'
<1>1. Chunkers' /\ Waiting' /\ Written' /\ Dropped' /\ Remembered' /\ InOrder'
  BY DEF SessionInv, Chunkers, Waiting, Written, Dropped, Remembered, InOrder, Open, Pushed,
         Consecutive, Piece, End
<1>2. EchoOffsets'
  BY DEF SessionInv, EchoOffsets
<1>3. \A s, f : Places(s, f)' = Places(s, f)
  BY DEF Places, Holds
<1>4. SpeechLocated'
  BY <1>3 DEF SessionInv, SpeechLocated
<1>5. QED BY <1>1, <1>2, <1>4

(* A stream is opened at an instant that has come.                          *)
LEMMA OpensInTime ==
  ASSUME SessionShape, NEW source \in Sources, NEW other \in Sources, NEW other_open,
         Opens(source, other, other_open)
  PROVE  opened' \in [Sources -> Nat]
<1>1. Len(heard[other]) \in Nat /\ MaxDelay \in Nat
  BY MeetingSessionAssumption, LenProperties DEF SessionShape
<1>2. PICK instant \in IF other_open THEN Len(heard[other])..Len(heard[other]) + MaxDelay ELSE {0} :
        opened' = [opened EXCEPT ![source] = instant]
  BY DEF Opens
<1>3. instant \in Nat
  BY <1>1, <1>2
<1>4. QED BY <1>2, <1>3 DEF SessionShape

LEMMA SessionThreadStep ==
  ASSUME SessionInv, SessionRuns \/ StopRequested \/ SystemStops(TRUE)
  PROVE  SessionInv'
<1> USE DEF SessionInv
<1>1. CASE SystemStops(FALSE) \/ SystemStops(TRUE)
  <2>1. /\ FlushTail("Them") /\ phase = "capturing" /\ phase' = "joining_mic" /\ stop' = TRUE
        /\ UNCHANGED <<mic, heard, opened, worker, recent, lines, lost, summary>>
    BY <1>1 DEF SystemStops
  <2>2. QED BY <2>1, FlushStep, SourceNames
<1>2. CASE StartFails \/ CaptureStarts \/ JoinMic \/ JoinWorker \/ StopRequested
  <2>1. UNCHANGED <<mic, heard, chunker, queue, worker, recent, lines, lost, summary>>
    BY <1>2 DEF StartFails, CaptureStarts, JoinMic, JoinWorker, StopRequested
  <2>2. /\ stop' \in BOOLEAN /\ phase' \in {"starting", "failed", "opening", "capturing",
              "joining_mic", "joining_worker", "summarizing", "saved"}
        /\ ThreadsInStep'
    BY <1>2, <2>1 DEF StartFails, CaptureStarts, JoinMic, JoinWorker, StopRequested, SessionShape,
                      ThreadsInStep
  <2>3. opened' \in [Sources -> Nat]
    BY <1>2, OpensInTime, SourceNames DEF StartFails, CaptureStarts, JoinMic, JoinWorker,
                                          StopRequested, SessionShape
  <2>4. SessionShape'
    BY <2>1, <2>2, <2>3 DEF SessionShape
  <2>5. QED BY <2>1, <2>2, <2>4, NothingMoves
<1>3. CASE StartThreads
  <2>1. UNCHANGED <<stop, heard, opened, chunker, queue, recent, lines, lost, summary>>
        /\ phase = "starting" /\ phase' = "opening" /\ worker' = "idle" /\ mic' = "opening"
    BY <1>3 DEF StartThreads
  <2>2. worker # "dead" /\ ThreadsInStep'
    BY <2>1 DEF ThreadsInStep
  <2>3. SessionShape'
    BY <2>1 DEF SessionShape
  <2>4. QED BY <2>1, <2>2, <2>3, NothingMoves
<1>4. CASE NoMicThread
  <2>1. UNCHANGED <<stop, mic, heard, opened, chunker, queue, recent, lines, lost, summary>>
        /\ phase = "starting" /\ phase' = "failed" /\ worker' = "idle"
    BY <1>4 DEF NoMicThread
  <2>2. worker # "dead" /\ ThreadsInStep'
    BY <2>1 DEF ThreadsInStep
  <2>3. SessionShape'
    BY <2>1 DEF SessionShape
  <2>4. QED BY <2>1, <2>2, <2>3, NothingMoves
<1>5. CASE Summarize
  <2>1. UNCHANGED <<stop, mic, heard, opened, chunker, queue, worker, recent, lines, lost>>
        /\ phase = "summarizing" /\ phase' = "saved"
    BY <1>5 DEF Summarize
  <2>2. summary' \in {"none", "whole", "tail"}
    BY <1>5 DEF Summarize, SessionShape
  <2>3. SessionShape' /\ ThreadsInStep'
    BY <2>1, <2>2 DEF SessionShape, ThreadsInStep
  <2>4. QED BY <2>1, <2>3, NothingMoves
<1>6. QED BY <1>1, <1>2, <1>3, <1>4, <1>5 DEF SessionRuns

LEMMA MicThreadStep ==
  ASSUME SessionInv, MicRuns \/ MicStops(TRUE)
  PROVE  SessionInv'
<1> USE DEF SessionInv
<1>1. CASE MicStops(FALSE) \/ MicStops(TRUE)
  <2>1. /\ FlushTail("Me") /\ mic = "on" /\ mic' = "gone"
        /\ UNCHANGED <<stop, phase, heard, opened, worker, recent, lines, lost, summary>>
    BY <1>1 DEF MicStops
  <2>2. QED BY <2>1, FlushStep, SourceNames
<1>2. CASE MicOpens
  <2>1. /\ UNCHANGED <<stop, phase, heard, chunker, queue, worker, recent, lines, lost, summary>>
        /\ mic = "opening" /\ mic' \in {"on", "gone"} /\ opened' \in [Sources -> Nat]
    BY <1>2, OpensInTime, SourceNames DEF MicOpens, SessionShape
  <2>2. SessionShape' /\ ThreadsInStep'
    BY <2>1 DEF SessionShape, ThreadsInStep
  <2>3. QED BY <2>1, <2>2, NothingMoves
<1>3. QED BY <1>1, <1>2 DEF MicRuns

LEMMA WorkerThreadStep ==
  ASSUME SessionInv, WorkerRuns
  PROVE  SessionInv'
<1> USE DEF SessionInv
<1>1. CASE WorkerLeaves
  <2>1. /\ UNCHANGED <<stop, phase, mic, heard, opened, chunker, queue, recent, lines, lost, summary>>
        /\ worker = "idle" /\ worker' = "gone" /\ SendersGone
    BY <1>1 DEF WorkerLeaves
  <2>2. SessionShape' /\ ThreadsInStep'
    BY <2>1 DEF SessionShape, ThreadsInStep, SendersGone
  <2>3. QED BY <2>1, <2>2, NothingMoves
<1>2. CASE WorkerPanics
  <2>1. /\ UNCHANGED <<stop, phase, mic, heard, opened, chunker, recent, lines, lost, summary>>
        /\ worker = "idle" /\ worker' = "dead" /\ queue' = << >>
    BY <1>2 DEF WorkerPanics
  <2>2. queue' \in Seq(SomeChunk) /\ Len(queue') = 0
    BY <2>1, EmptySeq
  <2>3. SessionShape' /\ ThreadsInStep'
    BY <2>1, <2>2 DEF SessionShape, ThreadsInStep
  <2>4. Chunkers' /\ Waiting' /\ Dropped' /\ Remembered' /\ InOrder'
    BY <2>1, <2>2 DEF Chunkers, Waiting, Dropped, Remembered, InOrder, Open, Pushed, Consecutive,
                      Piece, End
  <2>5. Written'
    BY <2>1, <2>2 DEF Written, Consecutive, Piece, End
  <2>6. EchoOffsets'
    BY <2>1 DEF EchoOffsets
  <2>7. SpeechLocated'
    BY <2>1 DEF SpeechLocated
  <2>8. QED BY <2>3, <2>4, <2>5, <2>6, <2>7
<1>3. QED BY <1>1, <1>2, WorkerStep DEF WorkerRuns

LEMMA SourcesStep ==
  ASSUME SessionInv, SystemHears \/ MicHears
  PROVE  SessionInv'
<1>1. CASE SystemHears
  <2>1. /\ Hear("Them") /\ phase = "capturing"
        /\ UNCHANGED <<stop, phase, opened, worker, recent, lines, lost, summary>>
    BY <1>1 DEF SystemHears
  <2>2. QED BY <2>1, HearStep, SourceNames
<1>2. CASE MicHears
  <2>1. /\ Hear("Me") /\ mic = "on"
        /\ UNCHANGED <<stop, phase, opened, worker, recent, lines, lost, summary>>
    BY <1>2 DEF MicHears
  <2>2. QED BY <2>1, HearStep, SourceNames
<1>3. QED BY <1>1, <1>2

LEMMA SessionStep ==
  ASSUME SessionInv, [SessionNext]_sessionVars
  PROVE  SessionInv'
<1>1. CASE SessionRuns \/ StopRequested \/ SystemStops(TRUE)
  BY <1>1, SessionThreadStep
<1>2. CASE MicRuns \/ MicStops(TRUE)
  BY <1>2, MicThreadStep
<1>3. CASE WorkerRuns
  BY <1>3, WorkerThreadStep
<1>4. CASE SystemHears \/ MicHears
  BY <1>4, SourcesStep
<1>5. CASE UNCHANGED sessionVars
  <2>1. UNCHANGED <<stop, phase, mic, heard, opened, chunker, queue, worker, recent, lines, lost, summary>>
    BY <1>5 DEF sessionVars
  <2>2. SessionShape' /\ ThreadsInStep'
    BY <2>1 DEF SessionInv, SessionShape, ThreadsInStep
  <2>3. QED BY <2>1, <2>2, NothingMoves DEF SessionInv
<1>6. QED BY <1>1, <1>2, <1>3, <1>4, <1>5 DEF SessionNext, Outside

LEMMA SessionStarts ==
  ASSUME SessionInit
  PROVE  SessionInv
<1>1. << >> \in Seq(Nat) /\ << >> \in Seq(Loudness) /\ << >> \in Seq(SomeChunk)
      /\ << >> \in Seq(SomeLine) /\ Len(<< >>) = 0
  BY EmptySeq
<1>2. NewChunker \in Chunker /\ Open(NewChunker, 0)
  BY <1>1, Bounds DEF NewChunker, Chunker, Open, Pushed, Consecutive
<1>3. SessionShape
  BY <1>1, <1>2 DEF SessionInit, SessionShape
<1>4. Chunkers
  BY <1>1, <1>2, Bounds DEF SessionInit, Chunkers
<1>5. Waiting /\ Written /\ Dropped /\ Remembered
  BY <1>1 DEF SessionInit, Waiting, Written, Dropped, Remembered
<1>6. ThreadsInStep
  BY SourceNames DEF SessionInit, ThreadsInStep, NewChunker
<1>7. InOrder /\ EchoOffsets
  BY DEF SessionInit, InOrder, EchoOffsets
<1>8. SpeechLocated
  BY <1>1 DEF SessionInit, SpeechLocated
<1>9. QED BY <1>3, <1>4, <1>5, <1>6, <1>7, <1>8 DEF SessionInv

-----------------------------------------------------------------------------
(* What the invariant is for.                                               *)

(* In common time, equal offsets are as far apart as the streams' openings. *)
LEMMA CommonTime ==
  /\ \A n \in Nat : \A m \in 1..n : m \in Int
  /\ \A a, b \in Nat, m \in Int : a + m = b + m + (a - b)
OBVIOUS

LEMMA OffsetsAreApart ==
  ASSUME SessionInv
  PROVE  EchoWasSaid
<1> SUFFICES ASSUME NEW l \in lost, l.text # ""
             PROVE  l.source = "Me" /\ l.text # "yeah" /\ Said(l, Lag)
  BY DEF EchoWasSaid, Echoes
<1>1. l.source = "Me" /\ l.text # "yeah"
  BY DEF SessionInv, EchoOffsets
<1>2. PICK i \in DOMAIN lines : /\ lines[i].source = "Them" /\ lines[i].text = l.text
                               /\ SameOffset(lines[i], l)
  BY DEF SessionInv, EchoOffsets
<1>3. PICK f \in 1..MaxHeard["Me"] : Holds(lines[i].frames, f) /\ Holds(l.frames, f)
  BY <1>2 DEF SameOffset
<1>4. f \in Int /\ opened["Me"] \in Nat /\ opened["Them"] \in Nat
  <2>1. opened["Me"] \in Nat /\ opened["Them"] \in Nat
    BY SourceNames DEF SessionInv, SessionShape
  <2>2. MaxHeard["Me"] \in Nat
    BY SourceNames, Bounds
  <2>3. QED BY <2>1, <2>2, CommonTime, Zenon
<1>5. At("Me", f) = At("Them", f) + Lag
  BY <1>4, CommonTime, Zenon DEF At, Lag
<1>6. Apart(l, lines[i], Lag)
  BY <1>3, <1>5 DEF Apart, Holds
<1>7. QED BY <1>1, <1>2, <1>6 DEF Said

LEMMA SessionTypes ==
  ASSUME SessionInv
  PROVE  SessionTypeOK
<1> USE DEF SessionInv
<1>1. ASSUME NEW s \in Sources
      PROVE  /\ opened[s] \in Nat
             /\ Len(chunker[s].buffer) < MaxFrames /\ chunker[s].start \in 0..Len(heard[s])
             /\ chunker[s].trailing_silence \in 0..HoldFrames-1
  <2>1. /\ chunker[s] \in Chunker /\ heard[s] \in Seq(Loudness) /\ Open(chunker[s], Len(heard[s]))
    BY DEF SessionShape, Chunkers
  <2>2. /\ chunker[s].start \in Nat /\ chunker[s].trailing_silence \in Nat
        /\ Len(chunker[s].buffer) \in Nat /\ Len(heard[s]) \in Nat /\ HoldFrames \in Nat
        /\ chunker[s].start + Len(chunker[s].buffer) = Len(heard[s])
        /\ Len(chunker[s].buffer) < MaxFrames /\ chunker[s].trailing_silence < HoldFrames
    BY <2>1, LenProperties, Bounds DEF Chunker, Open, Pushed
  <2>3. chunker[s].start \in 0..Len(heard[s])
    BY <2>2
  <2>4. chunker[s].trailing_silence \in 0..HoldFrames-1
    BY <2>2
  <2>5. opened[s] \in Nat
    BY DEF SessionShape
  <2>6. QED BY <2>2, <2>3, <2>4, <2>5
<1>2. DOMAIN queue = 1..Len(queue) /\ DOMAIN lines = 1..Len(lines) /\ DOMAIN recent = 1..Len(recent)
  BY LenProperties DEF SessionShape
<1>3. \A i \in DOMAIN queue : queue[i].source \in Sources /\ queue[i].has_speech
  <2>1. \A i \in DOMAIN queue : queue[i] \in SomeChunk
    BY <1>2, ElementOfSeq DEF SessionShape
  <2>2. QED BY <1>2, <2>1 DEF Waiting, SomeChunk
<1>4. \A i \in DOMAIN lines : lines[i].text \in Texts[lines[i].source]
  BY <1>2 DEF Written
<1>5. \A i \in DOMAIN recent : \E j \in DOMAIN lines : recent[i] = lines[j]
  BY <1>2 DEF Remembered
<1>6. QED BY <1>1, <1>3, <1>4, <1>5 DEF SessionShape, SessionTypeOK

LEMMA SpeechIsInOnePlace ==
  ASSUME SessionInv
  PROVE  EverySpeechFrame
<1> SUFFICES ASSUME worker # "dead", NEW s \in Sources, NEW f \in DOMAIN heard[s],
                    heard[s][f] = "speech"
             PROVE  IF Holds(chunker[s].buffer, f) THEN phase # "saved" /\ Places(s, f) = {}
                                                   ELSE Cardinality(Places(s, f)) = 1
  BY DEF EverySpeechFrame
<1>1. f \in 1..Len(heard[s])
  BY LenProperties DEF SessionInv, SessionShape
<1>2. CASE Holds(chunker[s].buffer, f)
  <2>1. Places(s, f) = {}
    BY <1>1, <1>2 DEF SessionInv, SpeechLocated
  <2>2. phase # "saved"
    <3>1. chunker[s].buffer # << >>
      BY <1>2 DEF Holds
    <3>2. QED BY <3>1, SourceNames DEF SessionInv, ThreadsInStep
  <2>3. QED BY <1>2, <2>1, <2>2
<1>3. CASE ~Holds(chunker[s].buffer, f)
  <2>1. PICK p : Places(s, f) = {p}
    BY <1>1, <1>3 DEF SessionInv, SpeechLocated
  <2>2. QED BY <1>3, <2>1, FS_Singleton
<1>4. QED BY <1>2, <1>3

-----------------------------------------------------------------------------
(* Control.                                                                 *)

Modes == {"off", "ask", "auto"}
ThreadRecord == [running : BOOLEAN, stop : BOOLEAN, joiner : BOOLEAN, automatic : BOOLEAN]

ControlShape ==
  /\ setting \in [mode : Modes, permitted : BOOLEAN, changes : Int]
  /\ screen \in [window : BOOLEAN, changes : Int]
  /\ debouncer \in [in_meeting : BOOLEAN, positive_streak : 0..StartPolls-1,
                    absent_streak : 0..EndPolls-1]
  /\ detector \in [stage : {"sleep", "poll", "started", "start", "ended", "stop"}, mode : Modes]
  /\ tray \in {"none", "start", "stop"}
  /\ sessions \in Seq(ThreadRecord) /\ slot \in 0..Len(sessions)

(* The sessions there are, and those that were decided on, are in bounds.   *)
WithinRoom ==
  Len(sessions) + Pending(tray = "start") + Pending(detector.stage \in {"started", "start"})
    <= MaxSessions

ControlInv == ControlShape /\ WithinRoom /\ NoOrphanSession

(* The starts that are decided on and not yet made.                         *)
TrayStarts == Pending(tray = "start")
DetectorMayStart == Pending(detector.stage \in {"started", "start"})

LEMMA PendingStarts ==
  /\ TrayStarts \in {0, 1} /\ (TrayStarts = 1 <=> tray = "start")
  /\ DetectorMayStart \in {0, 1}
  /\ DetectorMayStart = 1 <=> detector.stage \in {"started", "start"}
<1>1. ASSUME NEW c \in BOOLEAN PROVE Pending(c) \in {0, 1} /\ (Pending(c) = 1 <=> c)
  BY DEF Pending
<1>2. (tray = "start") \in BOOLEAN /\ (detector.stage \in {"started", "start"}) \in BOOLEAN
  OBVIOUS
<1>3. TrayStarts \in {0, 1} /\ (TrayStarts = 1 <=> tray = "start")
  BY <1>1, <1>2 DEF TrayStarts
<1>4. /\ DetectorMayStart \in {0, 1}
      /\ DetectorMayStart = 1 <=> detector.stage \in {"started", "start"}
  BY <1>1, <1>2 DEF DetectorMayStart
<1>5. QED BY <1>3, <1>4

LEMMA ControlTypes ==
  ControlInv => ControlTypeOK
<1> SUFFICES ASSUME ControlInv PROVE ControlTypeOK
  OBVIOUS
<1>1. Len(sessions) \in Nat /\ MaxSessions \in Nat
  BY LenProperties, MeetingControlAssumption DEF ControlInv, ControlShape
<1>2. Len(sessions) + TrayStarts + DetectorMayStart <= MaxSessions
  BY DEF ControlInv, WithinRoom, TrayStarts, DetectorMayStart
<1>3. Len(sessions) <= MaxSessions
  BY <1>1, <1>2, PendingStarts
<1>4. debouncer.in_meeting \in BOOLEAN /\ debouncer.positive_streak \in 0..StartPolls-1
      /\ debouncer.absent_streak \in 0..EndPolls-1
  BY DEF ControlInv, ControlShape
<1>5. /\ setting.mode \in {"off", "ask", "auto"} /\ setting.permitted \in BOOLEAN
      /\ detector.stage \in {"sleep", "poll", "started", "start", "ended", "stop"}
      /\ tray \in {"none", "start", "stop"} /\ slot \in 0..Len(sessions)
  BY DEF ControlInv, ControlShape, Modes
<1>6. QED BY <1>3, <1>4, <1>5 DEF ControlTypeOK

(* A step after which there are no more sessions and decided starts than    *)
(* before, or one more and there was room for it.                           *)
LEMMA RoomKept ==
  ASSUME ControlInv, Len(sessions') \in Nat,
         \/ Len(sessions') + TrayStarts' + DetectorMayStart'
              <= Len(sessions) + TrayStarts + DetectorMayStart
         \/ /\ Len(sessions') + TrayStarts' + DetectorMayStart'
                 <= Len(sessions) + TrayStarts + DetectorMayStart + 1
            /\ Room
  PROVE  WithinRoom'
<1>1. Len(sessions) \in Nat /\ MaxSessions \in Nat
  BY LenProperties, MeetingControlAssumption DEF ControlInv, ControlShape
<1>2. /\ Len(sessions) + TrayStarts + DetectorMayStart <= MaxSessions
      /\ Room => Len(sessions) + TrayStarts + DetectorMayStart < MaxSessions
  BY DEF ControlInv, WithinRoom, Room, TrayStarts, DetectorMayStart
<1>3. TrayStarts \in Int /\ DetectorMayStart \in Int
      /\ TrayStarts' \in Int /\ DetectorMayStart' \in Int
  <2>1. TrayStarts \in {0, 1} /\ DetectorMayStart \in {0, 1}
    BY PendingStarts
  <2>2. (TrayStarts \in {0, 1} /\ DetectorMayStart \in {0, 1})'
    BY PendingStarts, PTL
  <2>3. QED BY <2>1, <2>2
<1>4. Len(sessions') + TrayStarts' + DetectorMayStart' <= MaxSessions
  BY <1>1, <1>2, <1>3
<1>5. QED BY <1>4 DEF WithinRoom, TrayStarts, DetectorMayStart

(* A step that leaves the sessions alone and decides on at most one start,  *)
(* with room for it.                                                        *)
LEMMA SessionsAlone ==
  ASSUME ControlInv, ControlShape', UNCHANGED <<sessions, slot>>,
         \/ /\ tray' = "start" => tray = "start" \/ Room
            /\ detector'.stage \in {"started", "start"} =>
                 detector.stage \in {"started", "start"}
         \/ /\ tray' = tray
            /\ detector'.stage \in {"started", "start"} =>
                 detector.stage \in {"started", "start"} \/ Room
  PROVE  ControlInv'
<1>1. Len(sessions) \in Nat /\ Len(sessions') = Len(sessions)
  BY LenProperties DEF ControlInv, ControlShape
<1>2. /\ TrayStarts \in {0, 1} /\ (TrayStarts = 1 <=> tray = "start")
      /\ DetectorMayStart \in {0, 1}
      /\ DetectorMayStart = 1 <=> detector.stage \in {"started", "start"}
  BY PendingStarts
<1>3. (/\ TrayStarts \in {0, 1} /\ (TrayStarts = 1 <=> tray = "start")
       /\ DetectorMayStart \in {0, 1}
       /\ DetectorMayStart = 1 <=> detector.stage \in {"started", "start"})'
  BY PendingStarts, PTL
<1>4. WithinRoom'
  <2>1. \/ /\ TrayStarts' <= TrayStarts \/ (Room /\ TrayStarts' <= TrayStarts + 1)
           /\ DetectorMayStart' <= DetectorMayStart
        \/ /\ TrayStarts' = TrayStarts
           /\ \/ DetectorMayStart' <= DetectorMayStart
              \/ Room /\ DetectorMayStart' <= DetectorMayStart + 1
    <3>1. TrayStarts' = 1 => TrayStarts = 1 \/ Room \/ tray' = tray
      BY <1>2, <1>3
    <3>2. tray' = tray => TrayStarts' = TrayStarts
      BY DEF TrayStarts
    <3>3. QED BY <1>2, <1>3, <3>1, <3>2
  <2>2. /\ TrayStarts \in Int /\ DetectorMayStart \in Int
        /\ TrayStarts' \in Int /\ DetectorMayStart' \in Int
    BY <1>2, <1>3
  <2>3. ASSUME NEW n \in Nat, NEW t \in Int, NEW d \in Int, NEW u \in Int, NEW e \in Int, NEW room,
               \/ (u <= t \/ (room /\ u <= t + 1)) /\ e <= d
               \/ u = t /\ (e <= d \/ (room /\ e <= d + 1))
        PROVE  n + u + e <= n + t + d \/ (n + u + e <= n + t + d + 1 /\ room)
    BY <2>3
  <2>4. \/ Len(sessions') + TrayStarts' + DetectorMayStart'
             <= Len(sessions) + TrayStarts + DetectorMayStart
        \/ /\ Len(sessions') + TrayStarts' + DetectorMayStart'
                <= Len(sessions) + TrayStarts + DetectorMayStart + 1
           /\ Room
    BY <1>1, <2>1, <2>2, <2>3
  <2>5. QED BY <1>1, <2>4, RoomKept
<1>5. NoOrphanSession'
  BY DEF ControlInv, NoOrphanSession
<1>6. QED BY <1>4, <1>5 DEF ControlInv

(* start: a handle is only replaced when its session has returned.          *)
LEMMA StartKeeps ==
  ASSUME ControlInv, NEW automatic \in BOOLEAN, Start(automatic)
  PROVE  /\ sessions' \in Seq(ThreadRecord) /\ slot' \in 0..Len(sessions')
         /\ Len(sessions') <= Len(sessions) + 1 /\ Len(sessions') \in Nat
         /\ NoOrphanSession'
<1>1. sessions \in Seq(ThreadRecord) /\ slot \in 0..Len(sessions) /\ Len(sessions) \in Nat
  BY LenProperties DEF ControlInv, ControlShape
<1>2. CASE IsActive
  BY <1>1, <1>2 DEF Start, ControlInv, NoOrphanSession
<1>3. CASE ~IsActive
  <2>1. Thread(automatic) \in ThreadRecord
    BY DEF Thread, ThreadRecord
  <2>2. sessions' = Append(sessions, Thread(automatic)) /\ slot' = Len(sessions) + 1
    BY <1>3 DEF Start
  <2>3. /\ sessions' \in Seq(ThreadRecord) /\ Len(sessions') = Len(sessions) + 1
        /\ DOMAIN sessions' = 1..(Len(sessions) + 1) /\ DOMAIN sessions = 1..Len(sessions)
        /\ \A i \in 1..Len(sessions) : sessions'[i] = sessions[i]
    BY <1>1, <2>1, <2>2, AppendProperties, LenProperties
  <2>4. NoOrphanSession'
    <3> SUFFICES ASSUME NEW s \in DOMAIN sessions', sessions'[s].running
                 PROVE  slot' = s \/ sessions'[s].joiner
      BY DEF NoOrphanSession
    <3>1. CASE s = Len(sessions) + 1
      BY <2>2, <3>1
    <3>2. CASE s # Len(sessions) + 1
      <4>1. s \in DOMAIN sessions /\ sessions'[s] = sessions[s]
        BY <1>1, <2>3, <3>2
      <4>2. slot # s
        BY <1>1, <1>3, <2>3, <4>1 DEF IsActive
      <4>3. QED BY <4>1, <4>2 DEF ControlInv, NoOrphanSession
    <3>3. QED BY <3>1, <3>2
  <2>5. QED BY <1>1, <2>2, <2>3, <2>4
<1>4. QED BY <1>2, <1>3

(* A change of one session's flags.                                         *)
LEMMA SessionChanges ==
  ASSUME ControlInv, NEW s \in DOMAIN sessions, NEW t \in ThreadRecord,
         sessions' = [sessions EXCEPT ![s] = t]
  PROVE  /\ sessions' \in Seq(ThreadRecord) /\ Len(sessions') = Len(sessions)
         /\ DOMAIN sessions' = DOMAIN sessions /\ DOMAIN sessions = 1..Len(sessions)
         /\ Len(sessions) \in Nat
         /\ \A i \in DOMAIN sessions : sessions'[i] = IF i = s THEN t ELSE sessions[i]
<1>1. sessions \in Seq(ThreadRecord) /\ DOMAIN sessions = 1..Len(sessions) /\ Len(sessions) \in Nat
  BY LenProperties DEF ControlInv, ControlShape
<1>2. QED BY <1>1, ExceptSeq, LenProperties

(* stop: the session whose handle is taken has a thread that stops it.      *)
LEMMA StopKeeps ==
  ASSUME ControlInv, Stop
  PROVE  /\ sessions' \in Seq(ThreadRecord) /\ slot' \in 0..Len(sessions')
         /\ Len(sessions') = Len(sessions) /\ Len(sessions) \in Nat
         /\ NoOrphanSession'
<1>1. sessions \in Seq(ThreadRecord) /\ slot \in 0..Len(sessions) /\ Len(sessions) \in Nat
      /\ DOMAIN sessions = 1..Len(sessions)
  BY LenProperties DEF ControlInv, ControlShape
<1>2. CASE slot = 0
  BY <1>1, <1>2 DEF Stop, ControlInv, NoOrphanSession
<1>3. CASE slot # 0
  <2> DEFINE t == [sessions[slot] EXCEPT !.joiner = TRUE]
  <2>1. slot \in DOMAIN sessions
    BY <1>1, <1>3
  <2>2. sessions[slot] \in ThreadRecord
    BY <1>1, <2>1, ElementOfSeq
  <2>3. t \in ThreadRecord /\ t.joiner
    BY <2>2 DEF ThreadRecord
  <2>4. sessions' = [sessions EXCEPT ![slot] = t] /\ slot' = 0
    BY <1>3 DEF Stop
  <2> HIDE DEF t
  <2>5. /\ sessions' \in Seq(ThreadRecord) /\ Len(sessions') = Len(sessions)
        /\ DOMAIN sessions' = DOMAIN sessions
        /\ \A i \in DOMAIN sessions : sessions'[i] = IF i = slot THEN t ELSE sessions[i]
    BY <2>1, <2>3, <2>4, SessionChanges
  <2>6. NoOrphanSession'
    BY <2>3, <2>5 DEF ControlInv, NoOrphanSession
  <2>7. QED BY <1>1, <2>4, <2>5, <2>6
<1>4. QED BY <1>2, <1>3

LEMMA ThreadsStep ==
  ASSUME ControlInv, ThreadsRun
  PROVE  ControlInv'
<1>1. PICK s \in DOMAIN sessions : JoinerSignals(s) \/ SessionReturns(s)
  BY DEF ThreadsRun
<1>2. sessions \in Seq(ThreadRecord) /\ DOMAIN sessions = 1..Len(sessions)
  BY LenProperties DEF ControlInv, ControlShape
<1>3. sessions[s] \in ThreadRecord
  BY <1>1, <1>2, ElementOfSeq
<1>4. PICK t \in ThreadRecord : /\ sessions' = [sessions EXCEPT ![s] = t]
                                /\ t.running => sessions[s].running
                                /\ t.joiner = sessions[s].joiner
  <2>1. CASE JoinerSignals(s)
    <3>1. [sessions[s] EXCEPT !.stop = TRUE] \in ThreadRecord
      BY <1>3 DEF ThreadRecord
    <3>2. QED BY <1>3, <2>1, <3>1 DEF JoinerSignals, ThreadRecord
  <2>2. CASE SessionReturns(s)
    <3>1. [sessions[s] EXCEPT !.running = FALSE] \in ThreadRecord
      BY <1>3 DEF ThreadRecord
    <3>2. QED BY <1>3, <2>2, <3>1 DEF SessionReturns, ThreadRecord
  <2>3. QED BY <1>1, <2>1, <2>2
<1>5. /\ sessions' \in Seq(ThreadRecord) /\ Len(sessions') = Len(sessions)
      /\ DOMAIN sessions' = DOMAIN sessions /\ Len(sessions) \in Nat
      /\ \A i \in DOMAIN sessions : sessions'[i] = IF i = s THEN t ELSE sessions[i]
  BY <1>4, SessionChanges
<1>6. UNCHANGED <<setting, screen, debouncer, detector, tray, slot>>
  BY <1>1 DEF JoinerSignals, SessionReturns
<1>7. ControlShape' /\ WithinRoom'
  BY <1>5, <1>6 DEF ControlInv, ControlShape, WithinRoom
<1>8. NoOrphanSession'
  BY <1>4, <1>5, <1>6 DEF ControlInv, NoOrphanSession
<1>9. QED BY <1>7, <1>8 DEF ControlInv

LEMMA UserStep ==
  ASSUME ControlInv, UserActs
  PROVE  ControlInv'
<1> USE DEF ControlShape
<1>1. CASE ToggleDecides
  <2>1. ControlShape'
    BY <1>1 DEF ToggleDecides, ControlInv
  <2>2. tray' = "start" => Room
    BY <1>1 DEF ToggleDecides
  <2>3. UNCHANGED <<sessions, slot, detector>>
    BY <1>1 DEF ToggleDecides
  <2>4. QED BY <2>1, <2>2, <2>3, SessionsAlone
<1>2. CASE ToggleActs
  <2>1. /\ sessions' \in Seq(ThreadRecord) /\ slot' \in 0..Len(sessions') /\ Len(sessions') \in Nat
        /\ Len(sessions) \in Nat
        /\ Len(sessions') <= Len(sessions) + (IF tray = "start" THEN 1 ELSE 0)
        /\ NoOrphanSession'
    <3>1. CASE Stop /\ tray = "stop"
      BY <3>1, StopKeeps
    <3>2. CASE Start(FALSE) /\ tray = "start"
      BY <3>2, StartKeeps, LenProperties DEF ControlInv
    <3>3. QED BY <1>2, <3>1, <3>2 DEF ToggleActs, ControlInv
  <2>2. UNCHANGED <<setting, screen, debouncer, detector>> /\ tray' = "none"
    BY <1>2 DEF ToggleActs
  <2>3. ControlShape'
    BY <2>1, <2>2 DEF ControlInv
  <2>4. /\ TrayStarts \in {0, 1} /\ (TrayStarts = 1 <=> tray = "start")
        /\ DetectorMayStart \in {0, 1}
    BY PendingStarts
  <2>5. TrayStarts' = 0 /\ DetectorMayStart' = DetectorMayStart
    BY <2>2 DEF TrayStarts, DetectorMayStart, Pending
  <2>6. Len(sessions') + TrayStarts' + DetectorMayStart'
          <= Len(sessions) + TrayStarts + DetectorMayStart
    BY <2>1, <2>4, <2>5
  <2>7. QED BY <2>1, <2>3, <2>6, RoomKept DEF ControlInv
<1>3. CASE SetAutoMode
  <2>1. PICK mode \in Modes : setting' = [setting EXCEPT !.mode = mode, !.changes = @ - 1]
    BY <1>3 DEF SetAutoMode, Modes
  <2>5. setting \in [mode : Modes, permitted : BOOLEAN, changes : Int]
    BY DEF ControlInv
  <2>6. setting.changes - 1 \in Int
    BY <2>5
  <2>7. setting' \in [mode : Modes, permitted : BOOLEAN, changes : Int]
    BY <2>1, <2>5, <2>6
  <2>2. UNCHANGED <<screen, debouncer, detector, tray, sessions, slot>>
    BY <1>3 DEF SetAutoMode
  <2>3. ControlShape'
    BY <2>7, <2>2 DEF ControlInv
  <2>4. QED BY <2>2, <2>3, SessionsAlone
<1>4. CASE PermissionChanges \/ WindowChanges
  <2>1. UNCHANGED <<debouncer, detector, tray, sessions, slot>>
    BY <1>4 DEF PermissionChanges, WindowChanges
  <2>2. /\ setting' \in [mode : Modes, permitted : BOOLEAN, changes : Int]
        /\ screen' \in [window : BOOLEAN, changes : Int]
    <3>1. /\ setting \in [mode : Modes, permitted : BOOLEAN, changes : Int]
          /\ screen \in [window : BOOLEAN, changes : Int]
      BY DEF ControlInv
    <3>2. setting.changes - 1 \in Int /\ screen.changes - 1 \in Int
          /\ (~screen.window) \in BOOLEAN /\ (~setting.permitted) \in BOOLEAN
      BY <3>1
    <3>3. CASE PermissionChanges
      BY <3>1, <3>2, <3>3 DEF PermissionChanges
    <3>4. CASE WindowChanges
      BY <3>1, <3>2, <3>4 DEF WindowChanges
    <3>5. QED BY <1>4, <3>3, <3>4
  <2>3. ControlShape'
    BY <2>1, <2>2 DEF ControlInv
  <2>4. QED BY <2>1, <2>3, SessionsAlone
<1>5. QED BY <1>1, <1>2, <1>3, <1>4 DEF UserActs

(* The debouncer counts to its thresholds and no further.                   *)
LEMMA PollTypes ==
  ASSUME ControlInv, NEW app \in BOOLEAN,
         \/ PollMeeting(app)
         \/ \E mic_live \in BOOLEAN : (mic_live => Room) /\ PollIdle(app, mic_live)
  PROVE  /\ debouncer' \in [in_meeting : BOOLEAN, positive_streak : 0..StartPolls-1,
                            absent_streak : 0..EndPolls-1]
         /\ detector' \in [stage : {"sleep", "started", "ended"}, mode : Modes]
         /\ detector'.stage = "started" => Room
<1>1. /\ StartPolls \in Nat \ {0} /\ EndPolls \in Nat \ {0}
      /\ debouncer \in [in_meeting : BOOLEAN, positive_streak : 0..StartPolls-1,
                        absent_streak : 0..EndPolls-1]
      /\ detector \in [stage : {"sleep", "poll", "started", "start", "ended", "stop"}, mode : Modes]
  BY MeetingControlAssumption DEF ControlInv, ControlShape
<1>2. CASE PollMeeting(app)
  <2>1. Absence(app) \in Nat
    BY <1>1 DEF Absence
  <2>2. NewDebouncer \in [in_meeting : BOOLEAN, positive_streak : 0..StartPolls-1,
                         absent_streak : 0..EndPolls-1]
    BY <1>1 DEF NewDebouncer
  <2>3. CASE Absence(app) >= EndPolls
    BY <1>1, <1>2, <2>2, <2>3 DEF PollMeeting
  <2>4. CASE ~(Absence(app) >= EndPolls)
    <3>1. Absence(app) \in 0..EndPolls-1
      BY <1>1, <2>1, <2>4
    <3>2. /\ debouncer' = [debouncer EXCEPT !.absent_streak = Absence(app)]
          /\ detector' = [detector EXCEPT !.stage = "sleep"]
      BY <1>2, <2>4 DEF PollMeeting
    <3>3. QED BY <1>1, <3>1, <3>2
  <2>5. QED BY <2>3, <2>4
<1>3. CASE \E mic_live \in BOOLEAN : (mic_live => Room) /\ PollIdle(app, mic_live)
  <2>1. PICK mic_live \in BOOLEAN : (mic_live => Room) /\ PollIdle(app, mic_live)
    BY <1>3
  <2> DEFINE streak == IF app /\ mic_live THEN debouncer.positive_streak + 1 ELSE 0
             starts == streak >= StartPolls
  <2>2. /\ debouncer' = [in_meeting |-> starts, positive_streak |-> IF starts THEN 0 ELSE streak,
                         absent_streak |-> IF starts THEN 0 ELSE debouncer.absent_streak]
        /\ detector' = [detector EXCEPT !.stage = IF starts THEN "started" ELSE "sleep"]
    BY <2>1 DEF PollIdle
  <2>3. streak \in Nat /\ (starts => mic_live) /\ starts \in BOOLEAN
    BY <1>1
  <2> HIDE DEF streak
  <2>4. CASE starts
    <3>1. 0 \in 0..StartPolls-1 /\ 0 \in 0..EndPolls-1
      BY <1>1
    <3>2. QED BY <1>1, <2>1, <2>2, <2>3, <2>4, <3>1
  <2>5. CASE ~starts
    <3>1. streak \in 0..StartPolls-1
      BY <1>1, <2>3, <2>5
    <3>2. QED BY <1>1, <2>2, <2>5, <3>1
  <2>6. QED BY <2>4, <2>5
<1>4. QED BY <1>2, <1>3

LEMMA DetectorStep ==
  ASSUME ControlInv, DetectorRuns
  PROVE  ControlInv'
<1> USE DEF ControlShape
<1>1. CASE DetectorWakes
  <2>1. UNCHANGED <<setting, screen, tray, sessions, slot>>
    BY <1>1 DEF DetectorWakes
  <2>2. /\ debouncer' \in [in_meeting : BOOLEAN, positive_streak : 0..StartPolls-1,
                           absent_streak : 0..EndPolls-1]
        /\ detector' \in [stage : {"sleep", "poll", "started", "start", "ended", "stop"},
                          mode : Modes]
        /\ detector'.stage \in {"sleep", "poll"}
    <3>1. NewDebouncer \in [in_meeting : BOOLEAN, positive_streak : 0..StartPolls-1,
                           absent_streak : 0..EndPolls-1]
      BY MeetingControlAssumption DEF NewDebouncer
    <3>2. QED BY <1>1, <3>1 DEF DetectorWakes, ControlInv
  <2>3. ControlShape'
    BY <2>1, <2>2 DEF ControlInv
  <2>4. QED BY <2>1, <2>2, <2>3, SessionsAlone
<1>2. CASE DetectorPolls
  <2>1. UNCHANGED <<setting, screen, tray, sessions, slot>> /\ screen.window \in BOOLEAN
    BY <1>2 DEF DetectorPolls, ControlInv
  <2>2. \/ PollMeeting(screen.window)
        \/ \E mic_live \in BOOLEAN : (mic_live => Room) /\ PollIdle(screen.window, mic_live)
    BY <1>2 DEF DetectorPolls
  <2>3. /\ debouncer' \in [in_meeting : BOOLEAN, positive_streak : 0..StartPolls-1,
                           absent_streak : 0..EndPolls-1]
        /\ detector' \in [stage : {"sleep", "started", "ended"}, mode : Modes]
        /\ detector'.stage = "started" => Room
    BY <2>1, <2>2, PollTypes
  <2>4. ControlShape'
    BY <2>1, <2>3 DEF ControlInv
  <2>5. QED BY <2>1, <2>3, <2>4, SessionsAlone
<1>3. CASE DetectedStart \/ DetectedEnd
  <2>1. UNCHANGED <<setting, screen, debouncer, tray, sessions, slot>>
    BY <1>3 DEF DetectedStart, DetectedEnd
  <2>2. /\ detector' \in [stage : {"sleep", "poll", "started", "start", "ended", "stop"},
                          mode : Modes]
        /\ detector'.stage = "start" => detector.stage = "started"
        /\ detector'.stage # "started"
    BY <1>3 DEF DetectedStart, DetectedEnd, ControlInv
  <2>3. ControlShape'
    BY <2>1, <2>2 DEF ControlInv
  <2>4. QED BY <2>1, <2>2, <2>3, SessionsAlone
<1>4. CASE DetectorStarts \/ DetectorStops
  <2>1. /\ sessions' \in Seq(ThreadRecord) /\ slot' \in 0..Len(sessions') /\ Len(sessions') \in Nat
        /\ Len(sessions) \in Nat
        /\ Len(sessions') <= Len(sessions) + (IF detector.stage = "start" THEN 1 ELSE 0)
        /\ NoOrphanSession'
    <3>1. CASE DetectorStops
      BY <3>1, StopKeeps DEF DetectorStops
    <3>2. CASE DetectorStarts
      BY <3>2, StartKeeps, LenProperties DEF DetectorStarts, ControlInv
    <3>3. QED BY <1>4, <3>1, <3>2
  <2>2. UNCHANGED <<setting, screen, debouncer, tray>>
        /\ detector' = [detector EXCEPT !.stage = "sleep"]
    BY <1>4 DEF DetectorStarts, DetectorStops
  <2>3. ControlShape' /\ detector'.stage = "sleep"
    BY <2>1, <2>2 DEF ControlInv
  <2>4. /\ TrayStarts \in {0, 1} /\ DetectorMayStart \in {0, 1}
        /\ DetectorMayStart = 1 <=> detector.stage \in {"started", "start"}
    BY PendingStarts
  <2>5. DetectorMayStart' = 0 /\ TrayStarts' = TrayStarts
    BY <2>2, <2>3 DEF TrayStarts, DetectorMayStart, Pending
  <2>6. Len(sessions') + TrayStarts' + DetectorMayStart'
          <= Len(sessions) + TrayStarts + DetectorMayStart
    BY <2>1, <2>4, <2>5
  <2>7. QED BY <2>1, <2>3, <2>6, RoomKept DEF ControlInv
<1>5. QED BY <1>1, <1>2, <1>3, <1>4 DEF DetectorRuns

LEMMA ControlStarts ==
  ASSUME ControlInit
  PROVE  ControlInv
<1>1. /\ MaxChanges \in Int /\ MaxWindows \in Int /\ MaxSessions \in Nat \ {0}
      /\ NewDebouncer \in [in_meeting : BOOLEAN, positive_streak : 0..StartPolls-1,
                           absent_streak : 0..EndPolls-1]
  BY MeetingControlAssumption DEF NewDebouncer
<1>2. sessions = <<>> /\ sessions \in Seq(ThreadRecord) /\ Len(sessions) = 0 /\ slot = 0
  BY EmptySeq DEF ControlInit
<1>3. ControlShape
  BY <1>1, <1>2 DEF ControlInit, ControlShape, Modes
<1>4. tray = "none" /\ detector.stage = "sleep"
  BY DEF ControlInit
<1>5. WithinRoom
  BY <1>1, <1>2, <1>4 DEF WithinRoom, Pending
<1>6. NoOrphanSession
  BY <1>2 DEF NoOrphanSession
<1>7. QED BY <1>3, <1>5, <1>6 DEF ControlInv

-----------------------------------------------------------------------------
(* The theorems.  In a behaviour of one of the two parts the other stands.  *)

MeetingInv == ControlInv /\ SessionInv

MeetingSafety ==
  MeetingInit /\ [][OfControl \/ OfSession]_<<focus, controlVars, sessionVars>>

LEMMA ControlStands ==
  ASSUME ControlInv, UNCHANGED controlVars
  PROVE  ControlInv'
<1>1. UNCHANGED <<setting, screen, debouncer, detector, tray, sessions, slot>>
  BY DEF controlVars
<1>2. QED BY <1>1 DEF ControlInv, ControlShape, WithinRoom, NoOrphanSession

LEMMA MeetingInvariant == MeetingSafety => []MeetingInv
<1>1. MeetingInit => MeetingInv
  BY ControlStarts, SessionStarts DEF MeetingInit, MeetingInv
<1>2. MeetingInv /\ [OfControl \/ OfSession]_<<focus, controlVars, sessionVars>> => MeetingInv'
  <2> SUFFICES ASSUME MeetingInv, [OfControl \/ OfSession]_<<focus, controlVars, sessionVars>>
               PROVE  MeetingInv'
    OBVIOUS
  <2>1. \/ ControlNext /\ UNCHANGED sessionVars
        \/ UNCHANGED controlVars /\ [SessionNext]_sessionVars
    BY DEF OfControl, OfSession
  <2>2. ControlInv'
    BY <2>1, ControlStands, DetectorStep, ThreadsStep, UserStep DEF MeetingInv, ControlNext
  <2>3. SessionInv'
    BY <2>1, SessionStep DEF MeetingInv
  <2>4. QED BY <2>2, <2>3 DEF MeetingInv
<1>3. QED BY <1>1, <1>2, PTL DEF MeetingSafety

(* However the tray and the detector interleave, and whenever a session     *)
(* returns, one that runs is one whose handle is kept or that a thread is   *)
(* stopping: no number of sessions leaves one behind that nobody can stop.  *)
THEOREM EverySessionCanBeStopped == MeetingSpec => []NoOrphanSession
<1>1. MeetingInv => NoOrphanSession
  BY DEF MeetingInv, ControlInv
<1>2. QED BY <1>1, MeetingInvariant, PTL DEF MeetingSpec, MeetingSafety

(* The types of control and session: the debouncer stays below its          *)
(* thresholds, a buffer below its cap, every chunk has speech in it, and    *)
(* the echo history is of lines in the transcript.                          *)
THEOREM MeetingTypes == MeetingSpec => []MeetingTypeOK
<1>1. MeetingInv => MeetingTypeOK
  BY ControlTypes, SessionTypes DEF MeetingInv, MeetingTypeOK
<1>2. QED BY <1>1, MeetingInvariant, PTL DEF MeetingSpec, MeetingSafety

(* For any caps, holds and numbers of frames: no frame of speech is lost    *)
(* between the chunks, or said twice, and the transcript has each source's  *)
(* lines in the order they were spoken.                                     *)
THEOREM NoSpeechIsLost == MeetingSpec => []NothingUnheard
<1>1. MeetingInv => NothingUnheard
  BY SpeechIsInOnePlace DEF MeetingInv, SessionInv, NothingUnheard
<1>2. QED BY <1>1, MeetingInvariant, PTL DEF MeetingSpec, MeetingSafety

(* However long the history that is kept, and whenever the two streams were *)
(* opened, a line that was dropped as an echo has its original in the       *)
(* transcript, of words said exactly as far before it (or after) as the     *)
(* others' stream was opened before the microphone's (or after).            *)
THEOREM EchoesHaveOriginals == MeetingSpec => []EchoWasSaid
<1>1. MeetingInv => EchoWasSaid
  BY OffsetsAreApart DEF MeetingInv
<1>2. QED BY <1>1, MeetingInvariant, PTL DEF MeetingSpec, MeetingSafety
=============================================================================
