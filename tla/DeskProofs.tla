------------------------------ MODULE DeskProofs ------------------------------
(***************************************************************************)
(* Safety theorems about the clipboard, the clean-up manager and the       *)
(* recovery thread, for every number of transcripts, copies, requests,     *)
(* recoveries and failures, and every recording and transcript.            *)
(***************************************************************************)
EXTENDS DeskProperties, ChunkingProofs

-----------------------------------------------------------------------------
(* The clipboard's invariant.                                               *)

(* A snapshot and the transcript that replaced it; texts are numbered, and  *)
(* the one about to be written is on nobody's mind yet.                     *)
PasteShape ==
  /\ clip \in Contents /\ copied \in Contents /\ told \in Contents
  /\ pasting \in [stage : Stages, text : Contents, previous : Contents]
  /\ restorers \subseteq [text : Contents, previous : Contents, looked : BOOLEAN]
  /\ field \subseteq Contents /\ texts \in 0..MaxTexts
  /\ taken \in BOOLEAN /\ raced \in BOOLEAN
TextsAreNumbered ==
  /\ copied.by = "user" /\ copied.id \in Nat
  /\ ~At("idle") => pasting.text.by = "flow" /\ pasting.text.id <= texts
  /\ \A r \in restorers : r.text.by = "flow" /\ r.text.id <= texts
  /\ At("saved") => \A r \in restorers : r.text # pasting.text

(* The copy is on the clipboard, or the transcript that replaced it is      *)
(* there with the paste or the thread that holds the copy.                  *)
PasteHolds == At("set") \/ At("typed") \/ At("retyped")
Returns ==
  \/ clip = copied
  \/ PasteHolds /\ pasting.text = clip /\ pasting.previous = copied
  \/ \E r \in restorers : r.text = clip /\ r.previous = copied

(* Who is about to write, or would, writes the user's newest copy.          *)
Loyal ==
  /\ At("saved") => clip = copied /\ pasting.previous = copied
  /\ PasteHolds /\ pasting.text = clip => pasting.previous = copied
  /\ \A r \in restorers : r.looked \/ r.text = clip => r.previous = copied

Borrowed == taken \/ raced \/ copied.kind = "files" \/ (Returns /\ Loyal)

ClipInv == PasteShape /\ TextsAreNumbered /\ Borrowed

-----------------------------------------------------------------------------
(* The clean-up manager's invariant.                                        *)

Requested == UNION {{Clean(n, text) : text \in Texts[n]} : n \in 1..MaxRequests}
CommandsOf == Requested \cup {WarmupCall}
Generating == Stage("race") \/ Stage("grace") \/ Stage("join")

ManagerShape ==
  /\ commands \in Seq(CommandsOf) /\ requests \in 0..MaxRequests
  /\ manager = [stage |-> manager.stage, command |-> Command, result |-> manager.result]
  /\ manager.stage \in {"idle", "load", "warm", "race", "grace", "join", "dead"}
  /\ ~(Stage("idle") \/ Stage("dead")) => Command \in CommandsOf
  /\ Generating => provider /\ Command.kind = "Clean"
  /\ Stage("join") => manager.result.id = Command.id /\ manager.result.used_llm \in BOOLEAN
  /\ {provider, load_failed_once, warmed_up, cancel} \subseteq BOOLEAN
WorkerShape ==
  /\ worker = [stage |-> worker.stage, id |-> worker.id, segments |-> worker.segments,
               out |-> worker.out]
  /\ worker.stage \in {"off", "check", "generate"}
  /\ answer.kind \in {"none", "text", "empty", "hungup"}
ClientsShape ==
  /\ waiting \subseteq Requested
  /\ \A a \in answers \cup cleaned : a.id \in 1..MaxRequests /\ a.used_llm \in BOOLEAN

OrphanInv == ManagerShape /\ WorkerShape /\ ClientsShape /\ NoOrphanGeneration

(* A text has a segment (of split_into_segments).                           *)
TextsHaveSegments == \A r \in Requested : r.segments \in Nat \ {0}

WholeResult(a) ==
  /\ a.of = a.id /\ "cancelled" \notin ToSet(a.text) /\ Len(a.text) > 0
  /\ ~a.used_llm => ToSet(a.text) = {"raw"}

(* What has been generated is of the command in hand, and uncut.            *)
WorkIsWhole ==
  /\ worker.stage # "off" => worker.out \in Seq(Accepted) /\ worker.segments = Command.segments
  /\ Generating /\ answer.kind = "text" =>
       answer.of = Command.id /\ answer.text \in Seq(Accepted) /\ Len(answer.text) > 0
  /\ Stage("join") => WholeResult(manager.result)
  /\ \A a \in answers \cup cleaned : WholeResult(a)

(* A request is waited for, or concluded, once.                             *)
AnsweredOnce ==
  /\ \A r \in waiting : r.id <= requests /\ \A a \in cleaned : a.id # r.id
  /\ \A a \in cleaned : a.id <= requests
  /\ \A r, q \in waiting : r.id = q.id => r = q
  /\ \A a, b \in cleaned : a.id = b.id => a = b

CleanedInv == OrphanInv /\ WorkIsWhole /\ AnsweredOnce

-----------------------------------------------------------------------------
(* The recovery thread's invariant.                                         *)

ChunkWords(audio, i) == Words(Span(audio, PlanChunks(audio)[i]))
Heardable == {<<>>} \cup {ChunkWords(audio, i) : audio \in Recordings, i \in Nat}

Plannings == {PlanChunks(audio) : audio \in Recordings} \cup {<<>>}
Threads ==
  [stage : RecoveryStages, run : Nat, samples : Recordings \cup {<<>>}, plans : Plannings,
   at : Nat, attempt : Nat, heard : Seq(Heardable), failed : Nat]
ThreadShape ==
  /\ last_wav \in Recordings \cup {<<>>} /\ tmp \in Recordings \cup {<<>>}
  /\ RECOVERY_RUNNING \in BOOLEAN
  /\ thread \in Threads
  /\ asks \in 0..MaxAsks /\ saves \in 0..MaxSaves /\ live \in 0..MaxLive
  /\ faults \in 0..MaxFaults
  /\ thread.run <= asks
  /\ thread.stage # "off" => RECOVERY_RUNNING /\ thread.run > 0
  /\ thread.stage \in {"off", "read"} => thread.heard = <<>>
  /\ thread.stage \in {"send", "wait"} =>
       /\ thread.samples \in Recordings /\ thread.plans = PlanChunks(thread.samples)
       /\ thread.at > 0 /\ Len(thread.heard) = thread.at - 1
  /\ thread.stage = "wait" => thread.at <= Len(thread.plans)

(* The commands and answers of this run of the thread are of chunks it has  *)
(* asked for: of an attempt it gave up, or of the one it waits for.         *)
Clients == Nat \X Nat \X Nat
Samples == {<<Quiet>>} \cup {Span(audio, PlanChunks(audio)[i]) : audio \in Recordings, i \in Nat}
ModelCommands == {Warmup} \cup {Chunk(c, samples) : c \in Clients, samples \in Samples}
OfThisRun(c) == thread.stage # "off" /\ c[1] = thread.run
Asked(c) ==
  /\ thread.stage \in {"send", "wait"} /\ c[2] \in 1..thread.at
  /\ c[2] = thread.at => IF thread.stage = "send" THEN c[3] < thread.attempt
                                                 ELSE c[3] <= thread.attempt

(* What a chunk's transcript may be, `words` being those the engine has     *)
(* returned nothing for.                                                    *)
Said(text, audio, i, words) ==
  \/ text = ChunkWords(audio, i)
  \/ text = <<>> /\ ToSet(ChunkWords(audio, i)) \subseteq words

CommandOfItsChunk(cmd) ==
  cmd.kind = "TranscribeChunk" =>
    /\ cmd.client[1] <= asks
    /\ OfThisRun(cmd.client) =>
         Asked(cmd.client) /\ cmd.samples = Span(thread.samples, thread.plans[cmd.client[2]])
AnswerOfItsChunk(r) ==
  /\ r.client \in Clients /\ r.client[1] <= asks
  /\ OfThisRun(r.client) =>
       /\ Asked(r.client)
       /\ r.result \in {"text", "empty"} => Said(r.text, thread.samples, r.client[2], mute)
InFlight ==
  /\ queue \in Seq(ModelCommands) /\ serving \in ModelCommands \cup {Nothing}
  /\ \A i \in DOMAIN queue : CommandOfItsChunk(queue[i])
  /\ CommandOfItsChunk(serving)
  /\ \A r \in replies : AnswerOfItsChunk(r)

(* What has been heard of a chunk is its own words, or it has failed.       *)
HeardIsItsOwn ==
  \A i \in DOMAIN thread.heard :
    \/ Said(thread.heard[i], thread.samples, i, mute)
    \/ thread.heard[i] = <<>> /\ thread.failed > 0

RecoveryInv == ThreadShape /\ InFlight /\ HeardIsItsOwn

(* A recording's chunks, all of them heard.                                 *)
AllHeard(audio, heard, words) ==
  /\ Len(heard) = Len(PlanChunks(audio))
  /\ \A i \in DOMAIN heard : Said(heard[i], audio, i, words)
RecoveredIsAssembled ==
  (reported.kind = "recovered" /\ reported.failed = 0) =>
    /\ reported.samples \in Recordings
    /\ \E heard \in Seq(Heardable) :
         /\ AllHeard(reported.samples, heard, mute)
         /\ reported.text = Assemble(PlanChunks(reported.samples), heard)
WithinPlan == thread.stage \in {"send", "wait"} => thread.at <= Len(thread.plans) + 1

AssembledInv == RecoveryInv /\ WithinPlan /\ RecoveredIsAssembled

(* What the pure algorithms of module Chunking do for the recordings: a     *)
(* plan has an end, and assembling the transcripts of all its chunks gives  *)
(* the words of the recording, those aside that were never heard.           *)
RecordingsArePlanned == \A audio \in Recordings : Len(PlanChunks(audio)) \in Nat
AssemblingIsWhole ==
  \A audio \in Recordings, heard \in Seq(Heardable) : \A words :
    AllHeard(audio, heard, words) =>
      Without(Assemble(PlanChunks(audio), heard), words) = Without(Words(audio), words)

(* They do so for recordings in which each word can be told from the others.*)
RecordingsSayEachWordOnce ==
  \A audio \in Recordings : audio \in Seq(Nat) /\ Distinct(audio)

-----------------------------------------------------------------------------
(* The clipboard.                                                           *)

(* What the contents are made of.                                           *)
LEMMA ContentsOf ==
  /\ NoContent \in Contents /\ NoContent.by = "none"
  /\ \A k \in Kinds, n \in 0..MaxCopies :
       Content("user", k, n) \in Contents /\ Content("user", k, n).by = "user"
         /\ Content("user", k, n).id = n
  /\ \A n \in 1..MaxTexts :
       Transcript(n) \in Contents /\ Transcript(n).by = "flow" /\ Transcript(n).id = n
<1>1. NoContent \in Contents /\ NoContent.by = "none"
  BY DEF Contents, NoContent, Content
<1>2. ASSUME NEW k \in Kinds, NEW n \in 0..MaxCopies
      PROVE  /\ Content("user", k, n) \in Contents
             /\ Content("user", k, n).by = "user" /\ Content("user", k, n).id = n
  <2>1. Content("user", k, n) \in Contents
    BY DEF Contents
  <2>2. QED BY <2>1 DEF Content
<1>3. ASSUME NEW n \in 1..MaxTexts
      PROVE  /\ Transcript(n) \in Contents
             /\ Transcript(n).by = "flow" /\ Transcript(n).id = n
  <2>1. Transcript(n) \in Contents
    BY DEF Contents
  <2>2. QED BY <2>1 DEF Transcript, Content
<1>4. QED BY <1>1, <1>2, <1>3

LEMMA ClipStarts == ClipInit => ClipInv
<1> SUFFICES ASSUME ClipInit PROVE ClipInv
  OBVIOUS
<1>1. PICK k \in Kinds : clip = Content("user", k, 0)
  BY DEF ClipInit
<1>2. 0 \in 0..MaxCopies /\ 0 \in 0..MaxTexts
  BY ClipboardAssumption
<1>3. clip \in Contents /\ clip.by = "user" /\ clip.id = 0
  BY <1>1, <1>2, ContentsOf
<1>4. NotPasting \in [stage : Stages, text : Contents, previous : Contents]
      /\ NotPasting.stage = "idle"
  BY ContentsOf DEF NotPasting, Stages
<1>5. PasteShape
  BY <1>2, <1>3, <1>4, ContentsOf DEF PasteShape, ClipInit
<1>6. TextsAreNumbered /\ Borrowed
  BY <1>3, <1>4 DEF ClipInit, TextsAreNumbered, Borrowed, Returns, Loyal, PasteHolds, At
<1>7. QED BY <1>5, <1>6 DEF ClipInv

LEMMA ClipStands ==
  ASSUME ClipInv, UNCHANGED clipVars
  PROVE  ClipInv'
<1>1. UNCHANGED <<clip, pasting, restorers, field, texts, copied, taken, raced, told>>
  BY DEF clipVars
<1>2. PasteShape' /\ TextsAreNumbered'
  BY <1>1 DEF ClipInv, PasteShape, TextsAreNumbered, At
<1>3. Borrowed'
  BY <1>1 DEF ClipInv, Borrowed, Returns, Loyal, PasteHolds, At
<1>4. QED BY <1>2, <1>3 DEF ClipInv

(* Nobody holds what the user copies now: only who looked before it could   *)
(* write over it.                                                           *)
LEMMA UserCopiesStep ==
  ASSUME ClipInv, NEW kind \in Kinds, UserCopies(kind)
  PROVE  ClipInv'
<1> USE DEF ClipInv
<1>1. copied.id + 1 \in 0..MaxCopies
  BY ClipboardAssumption DEF UserCopies, TextsAreNumbered
<1>2. copied' \in Contents /\ copied'.by = "user" /\ copied'.id \in Nat /\ clip' = copied'
  BY <1>1, ContentsOf DEF UserCopies
<1>3. PasteShape'
  BY <1>2, ContentsOf DEF UserCopies, PasteShape, Looked, At
<1>4. TextsAreNumbered'
  BY <1>2 DEF UserCopies, TextsAreNumbered, At
<1>5. CASE Looked
  BY <1>3, <1>4, <1>5 DEF UserCopies, Borrowed
<1>6. CASE ~Looked
  <2>1. ~At("saved")' /\ \A r \in restorers' : ~r.looked /\ r.text # clip'
    BY <1>2, <1>6 DEF UserCopies, Looked, At, TextsAreNumbered
  <2>2. PasteHolds' => pasting'.text # clip'
    BY <1>2 DEF PasteHolds, At, UserCopies, TextsAreNumbered
  <2>3. Borrowed'
    BY <1>2, <2>1, <2>2 DEF Borrowed, Returns, Loyal, PasteHolds, At
  <2>4. QED BY <1>3, <1>4, <2>3
<1>7. QED BY <1>5, <1>6

(* A paste begins with the user's copy on the clipboard, or takes its place.*)
LEMMA SaveStep ==
  ASSUME ClipInv, Save
  PROVE  ClipInv'
<1> USE DEF ClipInv
<1>1. texts + 1 \in 1..MaxTexts /\ texts \in Nat /\ texts' = texts + 1
  BY ClipboardAssumption DEF Save, PasteShape
<1>2. Transcript(texts + 1) \in Contents /\ Transcript(texts + 1).by = "flow"
      /\ Transcript(texts + 1).id = texts + 1
  BY <1>1, ContentsOf
<1>3. Snapshot \in Contents
  BY ContentsOf DEF Snapshot, PasteShape
<1>4. /\ pasting' = [stage |-> "saved", text |-> Transcript(texts + 1), previous |-> Snapshot]
      /\ pasting' \in [stage : Stages, text : Contents, previous : Contents]
  BY <1>2, <1>3 DEF Save, Stages
<1>5. PasteShape'
  BY <1>1, <1>4 DEF Save, PasteShape
<1>6. \A r \in restorers : r.text.by = "flow" /\ r.text.id \in Nat /\ r.text.id <= texts
  <2>1. \A c \in Contents : c.id \in Nat
    BY ClipboardAssumption DEF Contents, NoContent, Content, Transcript
  <2>2. QED BY <2>1 DEF PasteShape, TextsAreNumbered
<1>7. TextsAreNumbered'
  BY <1>1, <1>2, <1>4, <1>6 DEF Save, TextsAreNumbered, At
<1>8. Borrowed'
  <2>1. CASE taken'
    BY <2>1 DEF Borrowed
  <2>2. CASE ~taken'
    <3>1. clip = copied /\ ~taken /\ UNCHANGED <<clip, restorers, copied, raced>>
      BY <2>2 DEF Save, PasteShape
    <3>2. copied.kind \in Kinds
      BY DEF PasteShape, Contents, NoContent, Content, Transcript, Kinds
    <3>3. copied.kind # "files" => Snapshot = copied
      BY <3>1, <3>2 DEF Snapshot, Kinds
    <3>4. QED BY <3>1, <3>3, <1>4 DEF Borrowed, Returns, Loyal, PasteHolds, At
  <2>3. QED BY <2>1, <2>2
<1>9. QED BY <1>5, <1>7, <1>8

(* The transcript replaces the copy, which the paste holds: no thread that  *)
(* restores something else is set on this text.                             *)
LEMMA SetStep ==
  ASSUME ClipInv, Set
  PROVE  ClipInv'
<1> USE DEF ClipInv
<1>1. /\ clip' = pasting.text /\ pasting' = [pasting EXCEPT !.stage = "set"]
      /\ told' = NoContent /\ pasting.stage = "saved"
      /\ UNCHANGED <<restorers, field, texts, copied, taken, raced>>
  BY DEF Set, GoTo, At
<1>2. /\ pasting' \in [stage : Stages, text : Contents, previous : Contents]
      /\ pasting'.stage = "set" /\ pasting'.text = pasting.text
      /\ pasting'.previous = pasting.previous
  BY <1>1 DEF PasteShape, Stages
<1>3. PasteShape'
  BY <1>1, <1>2, ContentsOf DEF PasteShape
<1>4. TextsAreNumbered'
  BY <1>1, <1>2 DEF TextsAreNumbered, At
<1>5. Borrowed'
  BY <1>1, <1>2 DEF Borrowed, Returns, Loyal, PasteHolds, At, TextsAreNumbered
<1>6. QED BY <1>3, <1>4, <1>5

LEMMA PasteFailsStep ==
  ASSUME ClipInv, PasteFails
  PROVE  ClipInv'
<1> USE DEF ClipInv
<1>1. NotPasting \in [stage : Stages, text : Contents, previous : Contents]
      /\ NotPasting.stage = "idle"
  BY ContentsOf DEF NotPasting, Stages
<1>2. PasteShape'
  BY <1>1 DEF PasteFails, PasteShape
<1>3. TextsAreNumbered'
  BY <1>1 DEF PasteFails, TextsAreNumbered, At
<1>4. Borrowed'
  BY <1>1 DEF PasteFails, Borrowed, Returns, Loyal, PasteHolds, At
<1>5. QED BY <1>2, <1>3, <1>4

(* A keystroke goes to the field only.                                      *)
LEMMA TypesStep ==
  ASSUME ClipInv, NEW from \in {"set", "typed"}, NEW to \in {"typed", "retyped"}, Types(from, to)
  PROVE  ClipInv'
<1> USE DEF ClipInv
<1>1. /\ pasting' = [pasting EXCEPT !.stage = to] /\ pasting.stage = from
      /\ field' \in {field, field \cup {clip}}
      /\ UNCHANGED <<clip, restorers, texts, copied, taken, raced, told>>
  BY DEF Types, GoTo, At
<1>2. /\ pasting' \in [stage : Stages, text : Contents, previous : Contents]
      /\ pasting'.stage = to /\ pasting'.text = pasting.text
      /\ pasting'.previous = pasting.previous
  BY <1>1 DEF PasteShape, Stages
<1>3. PasteShape'
  BY <1>1, <1>2 DEF PasteShape
<1>4. TextsAreNumbered'
  BY <1>1, <1>2 DEF TextsAreNumbered, At
<1>5. Borrowed'
  BY <1>1, <1>2 DEF Borrowed, Returns, Loyal, PasteHolds, At
<1>6. QED BY <1>3, <1>4, <1>5

(* The paste ends: its snapshot goes to a thread, or is given up.           *)
LEMMA ConcludeStep ==
  ASSUME ClipInv, NEW outcome, PasteHolds, Conclude(outcome), UNCHANGED field
  PROVE  ClipInv'
<1> USE DEF ClipInv
<1> DEFINE new == [text |-> pasting.text, previous |-> pasting.previous, looked |-> FALSE]
<1>1. NotPasting \in [stage : Stages, text : Contents, previous : Contents]
      /\ NotPasting.stage = "idle"
  BY ContentsOf DEF NotPasting, Stages
<1>2. new \in [text : Contents, previous : Contents, looked : BOOLEAN]
  BY DEF PasteShape
<1>3. /\ restorers' \in {restorers, restorers \cup {new}} /\ pasting' = NotPasting
      /\ taken' \in BOOLEAN /\ told' \in {told, pasting.text}
      /\ UNCHANGED <<clip, texts, copied, raced, field>>
  BY DEF Conclude, PasteShape
<1>4. PasteShape'
  BY <1>1, <1>2, <1>3 DEF PasteShape
<1>5. TextsAreNumbered'
  BY <1>1, <1>3 DEF TextsAreNumbered, At, PasteHolds
<1>6. Borrowed'
  <2>1. CASE taken'
    BY <2>1 DEF Borrowed
  <2>2. CASE ~taken'
    <3>1. ~taken /\ restorers' = restorers \cup {new}
      BY <2>2 DEF Conclude, PasteShape
    <3>2. CASE ~raced /\ copied.kind # "files"
      <4>1. Returns /\ Loyal
        BY <3>1, <3>2 DEF Borrowed
      <4>2. Returns'
        <5>1. CASE clip = copied
          BY <5>1, <1>3 DEF Returns
        <5>2. CASE pasting.text = clip /\ pasting.previous = copied
          <6>1. new \in restorers' /\ new.text = clip' /\ new.previous = copied'
            BY <5>2, <3>1, <1>3
          <6>2. QED BY <6>1 DEF Returns
        <5>3. CASE \E r \in restorers : r.text = clip /\ r.previous = copied
          BY <5>3, <3>1, <1>3 DEF Returns
        <5>4. QED BY <4>1, <5>1, <5>2, <5>3 DEF Returns
      <4>3. Loyal'
        BY <4>1, <3>1, <1>1, <1>3 DEF Loyal, PasteHolds, At
      <4>4. QED BY <4>2, <4>3 DEF Borrowed
    <3>3. QED BY <3>2, <1>3 DEF Borrowed
  <2>3. QED BY <2>1, <2>2
<1>7. QED BY <1>4, <1>5, <1>6

LEMMA PastesStep ==
  ASSUME ClipInv, Pastes
  PROVE  ClipInv'
<1>1. CASE \E o \in Skipped : Skip(o)
  BY <1>1, ConcludeStep DEF Skip, PasteHolds
<1>2. CASE Types("set", "typed") \/ Retype
  BY <1>2, TypesStep DEF Retype
<1>3. CASE AssumePasted \/ Verified("typed") \/ Verified("retyped") \/ NotVerified
  BY <1>3, ConcludeStep DEF AssumePasted, Verified, NotVerified, PasteHolds
<1>4. QED BY <1>1, <1>2, <1>3, SaveStep, SetStep, PasteFailsStep DEF Pastes

(* A restore thread gives back what it holds, or leaves; the one that holds *)
(* the user's copy leaves only when that is back or hidden by another text. *)
LEMMA RestoresStep ==
  ASSUME ClipInv, Restores
  PROVE  ClipInv'
<1> USE DEF ClipInv
<1>1. PICK r \in restorers : RestorerLooks(r) \/ RestorerLeaves(r) \/ RestorerWrites(r)
  BY DEF Restores
<1>2. r \in [text : Contents, previous : Contents, looked : BOOLEAN]
  BY DEF PasteShape
<1>3. CASE RestorerLooks(r)
  <2> DEFINE seen == [r EXCEPT !.looked = TRUE]
  <2>1. /\ seen \in [text : Contents, previous : Contents, looked : BOOLEAN]
        /\ seen.text = r.text /\ seen.previous = r.previous /\ r.text = clip
        /\ restorers' = (restorers \ {r}) \cup {seen}
        /\ UNCHANGED <<clip, pasting, field, texts, copied, taken, raced, told>>
    BY <1>2, <1>3 DEF RestorerLooks, ShouldRestore
  <2> HIDE DEF seen
  <2>2. PasteShape' /\ TextsAreNumbered'
    BY <2>1 DEF PasteShape, TextsAreNumbered, At
  <2>3. Returns => Returns'
    BY <2>1 DEF Returns, PasteHolds, At
  <2>4. Loyal => Loyal'
    BY <2>1 DEF Loyal, PasteHolds, At
  <2>5. QED BY <2>1, <2>2, <2>3, <2>4 DEF Borrowed
<1>4. CASE RestorerLeaves(r)
  <2>1. /\ restorers' = restorers \ {r} /\ (clip # r.text \/ r.previous = NoContent)
        /\ UNCHANGED <<clip, pasting, field, texts, copied, taken, raced, told>>
    BY <1>4 DEF RestorerLeaves, ShouldRestore
  <2>2. PasteShape' /\ TextsAreNumbered'
    BY <2>1 DEF PasteShape, TextsAreNumbered, At
  <2>3. copied # NoContent
    BY ContentsOf DEF TextsAreNumbered
  <2>4. Returns => Returns'
    BY <2>1, <2>3 DEF Returns, PasteHolds, At
  <2>5. Loyal => Loyal'
    BY <2>1 DEF Loyal, PasteHolds, At
  <2>6. QED BY <2>1, <2>2, <2>4, <2>5 DEF Borrowed
<1>5. CASE RestorerWrites(r)
  <2>1. /\ restorers' = restorers \ {r} /\ clip' = r.previous /\ r.looked
        /\ UNCHANGED <<pasting, field, texts, copied, taken, raced, told>>
    BY <1>5 DEF RestorerWrites
  <2>2. PasteShape' /\ TextsAreNumbered'
    BY <1>2, <2>1 DEF PasteShape, TextsAreNumbered, At
  <2>3. Loyal => clip' = copied
    BY <2>1 DEF Loyal
  <2>4. \A q \in restorers : q.text # copied
    BY DEF TextsAreNumbered
  <2>5. PasteHolds => pasting.text # copied
    BY DEF TextsAreNumbered, PasteHolds, At
  <2>6. Loyal => Returns' /\ Loyal'
    BY <2>1, <2>3, <2>4, <2>5 DEF Returns, Loyal, PasteHolds, At
  <2>7. QED BY <2>1, <2>2, <2>6 DEF Borrowed
<1>6. QED BY <1>1, <1>3, <1>4, <1>5

LEMMA PutTranscriptStep ==
  ASSUME ClipInv, PutTranscript
  PROVE  ClipInv'
<1> USE DEF ClipInv
<1>1. texts + 1 \in 1..MaxTexts /\ texts \in Nat
  BY ClipboardAssumption DEF PutTranscript, PasteShape
<1>2. \A c \in Contents : c.id \in Nat
  BY ClipboardAssumption DEF Contents, NoContent, Content, Transcript
<1>3. PasteShape'
  BY <1>1, ContentsOf DEF PutTranscript, PasteShape
<1>4. TextsAreNumbered'
  BY <1>1, <1>2 DEF PutTranscript, TextsAreNumbered, PasteShape, At
<1>5. QED BY <1>3, <1>4 DEF Borrowed, PutTranscript

LEMMA ClipStep ==
  ASSUME ClipInv, [ClipNext]_clipVars
  PROVE  ClipInv'
BY UserCopiesStep, PastesStep, RestoresStep, PutTranscriptStep, ClipStands
   DEF ClipNext, DeliverToClipboard, RecoveredToClipboard

-----------------------------------------------------------------------------
(* The clean-up manager: no generation is left behind.                      *)

LEMMA IdleManagerIs ==
  /\ IdleManager = [stage |-> "idle", command |-> NoCommand, result |-> NoResult]
  /\ IdleManager.stage = "idle"
BY DEF IdleManager

LEMMA RequestedAre ==
  ASSUME NEW r \in Requested
  PROVE  r.kind = "Clean" /\ r.id \in 1..MaxRequests
BY DEF Requested, Clean

LEMMA WarmupIsNone == WarmupCall.kind = "Warmup"
BY DEF WarmupCall

LEMMA OrphanStarts == CleanupInit => OrphanInv
<1> SUFFICES ASSUME CleanupInit PROVE OrphanInv
  OBVIOUS
<1>1. /\ manager = [stage |-> "idle", command |-> NoCommand, result |-> NoResult]
      /\ manager.stage = "idle"
  BY IdleManagerIs DEF CleanupInit
<1>2. worker = [stage |-> "off", id |-> 0, segments |-> 0, out |-> <<>>]
  BY DEF CleanupInit, NoWorker
<1>3. ManagerShape
  <2>1. commands \in Seq(CommandsOf) /\ requests \in 0..MaxRequests
    BY CleanupAssumption, EmptySeq DEF CleanupInit
  <2>2. {provider, load_failed_once, warmed_up, cancel} \subseteq BOOLEAN
    BY DEF CleanupInit
  <2>3. QED BY <1>1, <2>1, <2>2 DEF ManagerShape, Stage, Command, Generating
<1>4. WorkerShape
  BY <1>2 DEF CleanupInit, WorkerShape, NoAnswer
<1>5. ClientsShape /\ NoOrphanGeneration
  BY <1>2 DEF CleanupInit, ClientsShape, NoOrphanGeneration
<1>6. QED BY <1>3, <1>4, <1>5 DEF OrphanInv

LEMMA OrphanStands ==
  ASSUME OrphanInv, UNCHANGED cleanupVars
  PROVE  OrphanInv'
<1>1. /\ UNCHANGED <<commands, manager, provider, load_failed_once, warmed_up, answers>>
      /\ UNCHANGED <<worker, cancel, answer>>
      /\ UNCHANGED <<waiting, cleaned, requests, warmups>>
  BY DEF cleanupVars, managerThread, generation, clients
<1>2. QED
  BY <1>1 DEF OrphanInv, ManagerShape, WorkerShape, ClientsShape, NoOrphanGeneration, Stage,
              Command, Generating

(* The coordinator's threads ask, and take what they are given.             *)
LEMMA RequestOrphan ==
  ASSUME OrphanInv, Requests
  PROVE  OrphanInv'
<1> USE DEF OrphanInv
<1>1. PICK text \in Texts[requests + 1] : RequestCleanup(text)
  BY DEF Requests
<1> DEFINE r == Clean(requests + 1, text)
<1>2. requests + 1 \in 1..MaxRequests /\ requests' = requests + 1
  BY <1>1, CleanupAssumption DEF Requests, RequestCleanup, ManagerShape
<1>3. r \in Requested
  BY <1>2 DEF Requested
<1>4. /\ \/ commands' = Append(commands, r) /\ waiting' = waiting \cup {r} /\ UNCHANGED cleaned
         \/ cleaned' = cleaned \cup {RawResult(r)} /\ UNCHANGED <<commands, waiting>>
      /\ UNCHANGED <<manager, provider, load_failed_once, warmed_up, answers, worker, cancel,
                     answer, mishaps>>
  BY <1>1, <1>2 DEF RequestCleanup, generation
<1>5. RawResult(r).id \in 1..MaxRequests /\ RawResult(r).used_llm \in BOOLEAN
  BY <1>3, RequestedAre DEF RawResult, Result
<1> HIDE DEF r
<1>6. commands' \in Seq(CommandsOf)
  <2>1. commands \in Seq(CommandsOf) /\ r \in CommandsOf
    BY <1>3 DEF ManagerShape, CommandsOf
  <2>2. QED BY <1>4, <2>1, AppendProperties
<1>7. ManagerShape'
  BY <1>2, <1>4, <1>6 DEF ManagerShape, Stage, Command, Generating
<1>8. WorkerShape' /\ ClientsShape' /\ NoOrphanGeneration'
  BY <1>3, <1>4, <1>5
     DEF WorkerShape, ClientsShape, NoOrphanGeneration, Command
<1>9. QED BY <1>7, <1>8

LEMMA WarmupOrphan ==
  ASSUME OrphanInv, RequestWarmup
  PROVE  OrphanInv'
<1> USE DEF OrphanInv
<1>1. /\ commands' = Append(commands, WarmupCall)
      /\ UNCHANGED <<manager, provider, load_failed_once, warmed_up, answers, worker, cancel,
                     answer, waiting, cleaned, requests, mishaps>>
  BY DEF RequestWarmup, generation
<1>2. commands' \in Seq(CommandsOf)
  BY <1>1, AppendProperties DEF ManagerShape, CommandsOf
<1>3. ManagerShape'
  BY <1>1, <1>2 DEF ManagerShape, Stage, Command, Generating
<1>4. WorkerShape' /\ ClientsShape' /\ NoOrphanGeneration'
  BY <1>1 DEF WorkerShape, ClientsShape, NoOrphanGeneration, Command
<1>5. QED BY <1>3, <1>4

LEMMA WaitsOrphan ==
  ASSUME OrphanInv, Waits
  PROVE  OrphanInv'
<1> USE DEF OrphanInv
<1>1. PICK r \in waiting : WaiterHears(r) \/ WaiterGivesUp(r)
  BY DEF Waits
<1>2. PICK a : /\ a.id \in 1..MaxRequests /\ a.used_llm \in BOOLEAN
               /\ Concluded(r, a) /\ answers' \subseteq answers
  <2>1. CASE WaiterHears(r)
    BY <2>1 DEF WaiterHears, ClientsShape
  <2>2. CASE WaiterGivesUp(r)
    <3>1. RawResult(r).id \in 1..MaxRequests /\ RawResult(r).used_llm \in BOOLEAN
      BY RequestedAre DEF RawResult, Result, ClientsShape
    <3>2. QED BY <2>2, <3>1 DEF WaiterGivesUp
  <2>3. QED BY <1>1, <2>1, <2>2
<1>3. /\ waiting' = waiting \ {r} /\ cleaned' = cleaned \cup {a}
      /\ UNCHANGED <<commands, manager, provider, load_failed_once, warmed_up, worker, cancel,
                     answer, requests, warmups, mishaps>>
  BY <1>2 DEF Concluded, generation
<1>4. ManagerShape'
  BY <1>3 DEF ManagerShape, Stage, Command, Generating
<1>5. WorkerShape' /\ ClientsShape' /\ NoOrphanGeneration'
  BY <1>2, <1>3 DEF WorkerShape, ClientsShape, NoOrphanGeneration, Command
<1>6. QED BY <1>4, <1>5

(* The manager takes a command, and loads, without a worker.                *)
LEMMA LoadingOrphan ==
  ASSUME OrphanInv,
         \/ TakeCleanupCommand \/ LoadCleanup \/ LoadCleanupFails
         \/ StartWarmup \/ WarmedUp \/ ManagerPanics \/ IdleCleanupUnload
  PROVE  OrphanInv'
<1> USE DEF OrphanInv
<1>1. /\ worker.stage = "off" /\ ~Generating
      /\ UNCHANGED <<worker, cancel, answer, answers, waiting, cleaned, requests>>
  BY DEF TakeCleanupCommand, LoadCleanup, LoadCleanupFails, StartWarmup, WarmedUp,
         ManagerPanics, IdleCleanupUnload, MayLoad, Ready, Stage, NoOrphanGeneration, generation,
         clients, Generating
<1>2. WorkerShape' /\ ClientsShape' /\ NoOrphanGeneration'
  BY <1>1 DEF WorkerShape, ClientsShape, NoOrphanGeneration
<1>3. CASE TakeCleanupCommand
  <2>1. Head(commands) \in CommandsOf /\ commands' \in Seq(CommandsOf)
    BY <1>3, HeadTailProperties DEF TakeCleanupCommand, ManagerShape
  <2>2. manager' = [stage |-> "load", command |-> Head(commands), result |-> NoResult]
    BY <1>3, IdleManagerIs DEF TakeCleanupCommand
  <2>3. UNCHANGED <<provider, load_failed_once, warmed_up>>
    BY <1>3 DEF TakeCleanupCommand
  <2>4. ManagerShape'
    BY <1>1, <2>1, <2>2, <2>3 DEF ManagerShape, Stage, Command, Generating
  <2>5. QED BY <1>2, <2>4
<1>4. CASE LoadCleanup \/ LoadCleanupFails \/ IdleCleanupUnload
  <2>1. /\ UNCHANGED <<commands, manager>>
        /\ {provider', load_failed_once', warmed_up', cancel'} \subseteq BOOLEAN
    BY <1>1, <1>4 DEF LoadCleanup, LoadCleanupFails, IdleCleanupUnload, ManagerShape
  <2>2. ManagerShape'
    BY <1>1, <2>1 DEF ManagerShape, Stage, Command, Generating
  <2>3. QED BY <1>2, <2>2
<1>5. CASE StartWarmup
  <2>1. manager' = [manager EXCEPT !.stage = "warm"] /\ Stage("load")
        /\ UNCHANGED <<commands, provider, load_failed_once, warmed_up>>
    BY <1>5 DEF StartWarmup, ToStage, Ready
  <2>2. ManagerShape'
    BY <1>1, <2>1 DEF ManagerShape, Stage, Command, Generating
  <2>3. QED BY <1>2, <2>2
<1>6. CASE WarmedUp
  <2>1. manager' = IdleManager /\ UNCHANGED <<commands, provider, load_failed_once>>
        /\ {provider', load_failed_once', warmed_up', cancel'} \subseteq BOOLEAN
    BY <1>1, <1>6 DEF WarmedUp, ManagerShape
  <2>2. ManagerShape'
    BY <1>1, <2>1, IdleManagerIs DEF ManagerShape, Stage, Command, Generating
  <2>3. QED BY <1>2, <2>2
<1>7. CASE ManagerPanics
  <2>1. manager' = [IdleManager EXCEPT !.stage = "dead"] /\ commands' = <<>>
        /\ {provider', load_failed_once', warmed_up', cancel'} \subseteq BOOLEAN
    BY <1>1, <1>7 DEF ManagerPanics, ManagerShape
  <2>2. manager' = [stage |-> "dead", command |-> NoCommand, result |-> NoResult]
    BY <2>1, IdleManagerIs
  <2>3. ManagerShape'
    BY <1>1, <2>1, <2>2, EmptySeq DEF ManagerShape, Stage, Command, Generating
  <2>4. QED BY <1>2, <2>3
<1>8. QED BY <1>3, <1>4, <1>5, <1>6, <1>7

(* A clean-up begins, is waited for and is joined.                          *)
LEMMA CleaningOrphan ==
  ASSUME OrphanInv, SkipGeneration \/ StartWorker \/ WorkerAnswered \/ Deadline \/ GraceEnds \/ SendResult
  PROVE  OrphanInv'
<1> USE DEF OrphanInv
<1>1. UNCHANGED <<commands, provider, load_failed_once, warmed_up, waiting, cleaned, requests>>
  BY DEF SkipGeneration, StartWorker, WorkerAnswered, Deadline, GraceEnds, SendResult, Joining,
         clients
<1>2. \A r \in CommandsOf : r.kind = "Clean" => r.id \in 1..MaxRequests
  BY RequestedAre, WarmupIsNone DEF CommandsOf
<1>3. \A r : RawResult(r).id = r.id /\ RawResult(r).used_llm = FALSE
  BY DEF RawResult, Result
<1>4. CASE SkipGeneration
  <2>1. /\ manager' = IdleManager /\ UNCHANGED <<worker, cancel, answer>> /\ Stage("load")
        /\ \/ UNCHANGED answers
           \/ Command.kind = "Clean" /\ answers' = answers \cup {RawResult(Command)}
    BY <1>4 DEF SkipGeneration, Ready, generation
  <2>2. worker.stage = "off" /\ Command \in CommandsOf
    BY <2>1 DEF NoOrphanGeneration, ManagerShape, Stage
  <2>3. ManagerShape'
    BY <1>1, <2>1, IdleManagerIs DEF ManagerShape, Stage, Command, Generating
  <2>4. WorkerShape' /\ ClientsShape' /\ NoOrphanGeneration'
    BY <1>1, <1>2, <1>3, <2>1, <2>2 DEF WorkerShape, ClientsShape, NoOrphanGeneration
  <2>5. QED BY <2>3, <2>4
<1>5. CASE StartWorker
  <2>1. /\ manager' = [manager EXCEPT !.stage = "race"] /\ Stage("load") /\ provider
        /\ Command.kind = "Clean" /\ cancel' = FALSE /\ answer' = NoAnswer
        /\ worker' = [stage |-> "check", id |-> Command.id, segments |-> Command.segments,
                      out |-> <<>>]
        /\ UNCHANGED answers
    BY <1>5 DEF StartWorker, ToStage, Ready, NoWorker
  <2>2. ManagerShape'
    BY <1>1, <2>1 DEF ManagerShape, Stage, Command, Generating
  <2>3. WorkerShape' /\ ClientsShape'
    BY <1>1, <2>1 DEF WorkerShape, ClientsShape, NoAnswer
  <2>4. NoOrphanGeneration'
    BY <1>1, <2>1 DEF NoOrphanGeneration, Command, ManagerShape
  <2>5. QED BY <2>2, <2>3, <2>4
<1>6. CASE WorkerAnswered \/ GraceEnds
  <2>1. PICK result : Joining(result) /\ result.id = Command.id /\ result.used_llm \in BOOLEAN
    <3>1. RawResult(Command).id = Command.id /\ RawResult(Command).used_llm \in BOOLEAN
      BY <1>3
    <3>2. ASSUME NEW of, NEW text
          PROVE  LET r == Result(Command.id, of, text, TRUE)
                 IN  r.id = Command.id /\ r.used_llm \in BOOLEAN
      BY DEF Result
    <3>3. CASE WorkerAnswered
      BY <3>1, <3>2, <3>3 DEF WorkerAnswered
    <3>4. CASE GraceEnds
      BY <3>1, <3>4 DEF GraceEnds
    <3>5. QED BY <1>6, <3>3, <3>4
  <2>2. Stage("race") \/ Stage("grace")
    BY <1>6 DEF WorkerAnswered, GraceEnds
  <2>3. /\ manager' = [manager EXCEPT !.stage = "join", !.result = result]
        /\ UNCHANGED <<answers, worker, cancel, answer>>
    BY <2>1 DEF Joining
  <2>4. /\ manager' = [stage |-> "join", command |-> Command, result |-> result]
    BY <2>3 DEF ManagerShape, Command
  <2>5. ManagerShape'
    BY <1>1, <2>1, <2>2, <2>3, <2>4 DEF ManagerShape, Stage, Command, Generating
  <2>6. WorkerShape' /\ ClientsShape' /\ NoOrphanGeneration'
    BY <1>1, <2>3, <2>4 DEF WorkerShape, ClientsShape, NoOrphanGeneration, Command
  <2>7. QED BY <2>5, <2>6
<1>7. CASE Deadline
  <2>1. /\ manager' = [manager EXCEPT !.stage = "grace"] /\ Stage("race") /\ cancel' = TRUE
        /\ UNCHANGED <<answers, worker, answer>>
    BY <1>7 DEF Deadline, ToStage
  <2>2. ManagerShape'
    BY <1>1, <2>1 DEF ManagerShape, Stage, Command, Generating
  <2>3. WorkerShape' /\ ClientsShape' /\ NoOrphanGeneration'
    BY <1>1, <2>1 DEF WorkerShape, ClientsShape, NoOrphanGeneration, Command, ManagerShape
  <2>4. QED BY <2>2, <2>3
<1>8. CASE SendResult
  <2>1. /\ manager' = IdleManager /\ Stage("join") /\ worker.stage = "off"
        /\ answers' = answers \cup {manager.result} /\ UNCHANGED <<worker, cancel, answer>>
    BY <1>8 DEF SendResult, Joined, generation
  <2>2. manager.result.id \in 1..MaxRequests /\ manager.result.used_llm \in BOOLEAN
    BY <1>2, <2>1 DEF ManagerShape, Stage, Generating
  <2>3. ManagerShape'
    BY <1>1, <2>1, IdleManagerIs DEF ManagerShape, Stage, Command, Generating
  <2>4. WorkerShape' /\ ClientsShape' /\ NoOrphanGeneration'
    BY <1>1, <2>1, <2>2 DEF WorkerShape, ClientsShape, NoOrphanGeneration
  <2>5. QED BY <2>3, <2>4
<1>9. QED BY <1>4, <1>5, <1>6, <1>7, <1>8

(* The worker works for the command in hand until it ends.                  *)
LEMMA WorkerOrphan ==
  ASSUME OrphanInv, WorkerRuns \/ WorkerPanics
  PROVE  OrphanInv'
<1> USE DEF OrphanInv
<1>1. UNCHANGED <<commands, manager, provider, load_failed_once, warmed_up, answers, cancel,
                  waiting, cleaned, requests>>
  BY DEF WorkerRuns, BeginSegment, SegmentCleaned, WorkerSends, WorkerPanics, workerFrame,
         managerThread, clients
<1>2. ManagerShape' /\ ClientsShape'
  BY <1>1 DEF ManagerShape, ClientsShape, Stage, Command, Generating
<1>3. CASE BeginSegment \/ \E as \in Accepted : SegmentCleaned(as)
  <2>1. /\ worker.stage # "off" /\ worker'.id = worker.id /\ UNCHANGED answer
        /\ worker'.stage \in {"check", "generate"}
        /\ worker' = [stage |-> worker'.stage, id |-> worker'.id,
                      segments |-> worker'.segments, out |-> worker'.out]
    BY <1>3 DEF BeginSegment, SegmentCleaned, WorkerShape
  <2>2. WorkerShape' /\ NoOrphanGeneration'
    BY <1>1, <2>1 DEF WorkerShape, NoOrphanGeneration, Command
  <2>3. QED BY <1>2, <2>2
<1>4. CASE WorkerSends \/ WorkerPanics
  <2>1. worker' = [stage |-> "off", id |-> 0, segments |-> 0, out |-> <<>>]
    BY <1>4 DEF WorkerSends, WorkerPanics, NoWorker
  <2>2. answer'.kind \in {"empty", "text", "hungup"}
    <3>1. NoAnswer = [kind |-> "none", of |-> 0, text |-> <<>>]
      BY DEF NoAnswer
    <3>2. \/ answer' = [NoAnswer EXCEPT !.kind = "empty", !.of = worker.id]
          \/ answer' = [kind |-> "text", of |-> worker.id, text |-> worker.out]
          \/ answer' = [NoAnswer EXCEPT !.kind = "hungup", !.of = worker.id]
      BY <1>4 DEF WorkerSends, WorkerPanics
    <3>3. \E text : \E k \in {"empty", "text", "hungup"} :
             answer' = [kind |-> k, of |-> worker.id, text |-> text]
      BY <3>1, <3>2
    <3>4. QED BY <3>3
  <2>3. WorkerShape' /\ NoOrphanGeneration'
    BY <1>1, <2>1, <2>2 DEF WorkerShape, NoOrphanGeneration
  <2>4. QED BY <1>2, <2>3
<1>5. QED BY <1>3, <1>4 DEF WorkerRuns

LEMMA OrphanStep ==
  ASSUME OrphanInv, [CleanupNext]_cleanupVars
  PROVE  OrphanInv'
BY RequestOrphan, WarmupOrphan, WaitsOrphan, LoadingOrphan, CleaningOrphan, WorkerOrphan,
   OrphanStands DEF CleanupNext, ManagerRuns

-----------------------------------------------------------------------------
(* The segments of a text.                                                  *)

(* The function inside Boundary.                                            *)
Sums(upto, s, k) == upto[0] = 0 /\ \A i \in 1..k : upto[i] = upto[i - 1] + s[i]

LEMMA SumsAgree ==
  ASSUME NEW k \in Nat, NEW s, NEW t, \A i \in 1..k : s[i] = t[i],
         NEW f, NEW g, Sums(f, s, k), Sums(g, t, k)
  PROVE  \A i \in 0..k : f[i] = g[i]
<1> DEFINE Same == {i \in Nat : f[i] = g[i]}
<1>1. 0 \in Same
  BY DEF Sums
<1>2. \A i \in 1..k : i - 1 \in Same => i \in Same
  <2>1. \A i \in 1..k : i \in Nat
    OBVIOUS
  <2>2. QED BY <2>1 DEF Sums
<1> HIDE DEF Same
<1>3. 0..k \subseteq Same
  BY <1>1, <1>2, Induction
<1>4. QED BY <1>3 DEF Same

LEMMA BoundaryIs ==
  ASSUME NEW s \in Seq(Nat), NEW k \in 0..Len(s)
  PROVE  \E upto \in [0..k -> Nat] : Sums(upto, s, k) /\ Boundary(s, k) = upto[k]
<1> DEFINE step == [i \in 1..k |-> [t \in Nat |-> t + s[i]]]
           Is(f) == f = [i \in 0..k |-> IF i = 0 THEN 0 ELSE f[i - 1] + s[i]]
<1>1. k \in Nat /\ \A i \in 1..k : s[i] \in Nat
  BY ElementOfSeq, LenProperties
<1>2. step \in [1..k -> [Nat -> Nat]]
  BY <1>1
<1>3. PICK f \in [0..k -> Nat] : Accumulates(f, k, 0, step)
  BY <1>1, <1>2, AccumulatorExists
<1>4. \A i \in 1..k : f[i] = f[i - 1] + s[i]
  <2>1. \A i \in 1..k : i - 1 \in 0..k /\ \A t \in Nat : step[i][t] = t + s[i]
    BY <1>1
  <2> HIDE DEF step
  <2>2. QED BY <1>3, <2>1 DEF Accumulates
<1>5. Is(f)
  <2>1. f[0] = 0 /\ f = [i \in 0..k |-> f[i]]
    BY <1>3 DEF Accumulates
  <2>2. \A i \in 0..k : i # 0 => i \in 1..k
    BY <1>1
  <2>3. \A i \in 0..k : f[i] = IF i = 0 THEN 0 ELSE f[i - 1] + s[i]
    BY <1>4, <2>1, <2>2
  <2>4. QED BY <2>1, <2>3
<1> DEFINE h == CHOOSE h : Is(h)
<1>6. Is(h) /\ Boundary(s, k) = h[k]
  BY <1>5, Zenon DEF Boundary
<1> HIDE DEF h
<1>7. Sums(h, s, k)
  <2>1. h = [i \in 0..k |-> IF i = 0 THEN 0 ELSE h[i - 1] + s[i]]
    BY <1>6
  <2>2. 0 \in 0..k /\ \A i \in 1..k : i \in 0..k /\ i # 0
    BY <1>1
  <2>3. QED BY <2>1, <2>2 DEF Sums
<1>8. Sums(f, s, k)
  BY <1>3, <1>4 DEF Sums, Accumulates
<1>9. h[k] = f[k]
  <2>1. k \in 0..k
    BY <1>1
  <2>2. \A i \in 0..k : h[i] = f[i]
    BY <1>1, <1>7, <1>8, SumsAgree
  <2>3. QED BY <2>1, <2>2
<1>10. QED BY <1>6, <1>8, <1>9

LEMMA BoundaryAgrees ==
  ASSUME NEW s \in Seq(Nat), NEW t \in Seq(Nat), NEW k \in 0..Len(s), k \in 0..Len(t),
         \A i \in 1..k : s[i] = t[i]
  PROVE  Boundary(s, k) = Boundary(t, k)
<1>1. PICK f : Sums(f, s, k) /\ Boundary(s, k) = f[k]
  BY BoundaryIs
<1>2. PICK g : Sums(g, t, k) /\ Boundary(t, k) = g[k]
  BY BoundaryIs
<1>3. k \in Nat /\ k \in 0..k
  BY LenProperties
<1>4. \A i \in 0..k : f[i] = g[i]
  BY <1>1, <1>2, <1>3, SumsAgree
<1>5. QED BY <1>1, <1>2, <1>3, <1>4

LEMMA BoundaryGrows ==
  ASSUME NEW s \in Seq(Nat)
  PROVE  /\ Boundary(s, 0) = 0
         /\ \A k \in 0..Len(s) : Boundary(s, k) \in Nat
         /\ \A k \in 1..Len(s) : Boundary(s, k) = Boundary(s, k - 1) + s[k]
<1>1. Len(s) \in Nat /\ 0 \in 0..Len(s)
  BY LenProperties
<1>2. \A k \in 0..Len(s) : Boundary(s, k) \in Nat
  <2> SUFFICES ASSUME NEW k \in 0..Len(s) PROVE Boundary(s, k) \in Nat
    OBVIOUS
  <2>1. k \in 0..k
    BY <1>1
  <2>2. QED BY <2>1, BoundaryIs
<1>3. Boundary(s, 0) = 0
  BY <1>1, BoundaryIs DEF Sums
<1>4. ASSUME NEW k \in 1..Len(s) PROVE Boundary(s, k) = Boundary(s, k - 1) + s[k]
  <2>1. k \in 0..Len(s) /\ k - 1 \in 0..Len(s) /\ k \in Nat /\ k - 1 \in Nat
    BY <1>1
  <2>2. PICK f : Sums(f, s, k) /\ Boundary(s, k) = f[k]
    BY <2>1, BoundaryIs
  <2>3. PICK g : Sums(g, s, k - 1) /\ Boundary(s, k - 1) = g[k - 1]
    BY <2>1, BoundaryIs
  <2>4. Sums(f, s, k - 1)
    BY <2>1, <2>2 DEF Sums
  <2>5. \A i \in 0..k - 1 : f[i] = g[i]
    BY <2>1, <2>3, <2>4, SumsAgree
  <2>6. f[k] = f[k - 1] + s[k] /\ k - 1 \in 0..k - 1
    BY <2>1, <2>2 DEF Sums
  <2>7. QED BY <2>2, <2>3, <2>5, <2>6
<1>5. QED BY <1>2, <1>3, <1>4

(* Where a segment may end: at the end of the text or of a sentence, or     *)
(* after SegmentMax words without one.                                      *)
Stops(text, b) ==
  \/ b = Len(text) \/ text[b]
  \/ SegmentMax <= b /\ b < Len(text) /\ \A j \in b - SegmentMax + 1 .. b : ~text[j]

(* What is filled by the first `i` words: the words are all there, in order *)
(* and those not yet in a segment are too few for one; every segment is of  *)
(* a permitted size and ends, like the pieces held back, where it may.      *)
FilledInv(text, i, s) ==
  /\ s = [segments |-> s.segments, cur |-> s.cur, piece |-> s.piece]
  /\ s.segments \in Seq(1..SegmentMax) /\ s.cur \in Nat /\ s.piece \in Nat
  /\ Boundary(s.segments, Len(s.segments)) + s.cur + s.piece = i
  /\ s.cur < SegmentMin /\ s.piece < SegmentMax
  /\ s.piece > 0 => i < Len(text)
  /\ \A j \in i - s.piece + 1 .. i : ~text[j]
  /\ \A k \in 1..Len(s.segments) : Stops(text, Boundary(s.segments, k))
  /\ s.cur > 0 => Stops(text, i - s.piece)

(* A segment closed.                                                        *)
LEMMA SegmentCloses ==
  ASSUME NEW text, NEW s \in Seq(1..SegmentMax), NEW n \in 1..SegmentMax,
         \A k \in 1..Len(s) : Stops(text, Boundary(s, k)),
         Stops(text, Boundary(s, Len(s)) + n)
  PROVE  /\ Append(s, n) \in Seq(1..SegmentMax)
         /\ Boundary(Append(s, n), Len(Append(s, n))) = Boundary(s, Len(s)) + n
         /\ \A k \in 1..Len(Append(s, n)) : Stops(text, Boundary(Append(s, n), k))
<1> DEFINE t == Append(s, n)
<1>1. SegmentMax \in Nat /\ Len(s) \in Nat
  BY SegmentsAssumption, LenProperties
<1>2. /\ t \in Seq(1..SegmentMax) /\ Len(t) = Len(s) + 1
      /\ \A i \in 1..Len(s) : t[i] = s[i] 
      /\ t[Len(s) + 1] = n
  BY AppendProperties
<1>3. s \in Seq(Nat) /\ t \in Seq(Nat)
  <2>1. 1..SegmentMax \subseteq Nat
    OBVIOUS
  <2>2. QED BY <1>2, <2>1, SeqMonotonic
<1> HIDE DEF t
<1>4. ASSUME NEW k \in 0..Len(s) PROVE Boundary(t, k) = Boundary(s, k)
  <2>1. k \in 0..Len(t) /\ \A i \in 1..k : i \in 1..Len(s)
    BY <1>1, <1>2
  <2>2. \A i \in 1..k : t[i] = s[i]
    BY <1>2, <2>1
  <2>3. QED BY <1>3, <2>1, <2>2, BoundaryAgrees
<1>5. Boundary(t, Len(t)) = Boundary(s, Len(s)) + n
  <2>1. Len(t) \in 1..Len(t) /\ Len(t) - 1 = Len(s) /\ Len(s) \in 0..Len(s)
    BY <1>1, <1>2
  <2>2. Boundary(t, Len(t)) = Boundary(t, Len(t) - 1) + t[Len(t)]
    BY <1>3, <2>1, BoundaryGrows
  <2>3. QED BY <1>2, <1>4, <2>1, <2>2
<1>6. \A k \in 1..Len(t) : Stops(text, Boundary(t, k))
  <2>1. \A k \in 1..Len(t) : k = Len(t) \/ (k \in 1..Len(s) /\ k \in 0..Len(s))
    BY <1>1, <1>2
  <2>2. QED BY <1>4, <1>5, <2>1
<1>7. QED BY <1>2, <1>5, <1>6 DEF t

LEMMA PieceIsAdded ==
  ASSUME NEW text, NEW i \in Nat, NEW s, NEW n \in 1..SegmentMax,
         s.segments \in Seq(1..SegmentMax), s.cur \in Nat, s.cur < SegmentMin,
         Boundary(s.segments, Len(s.segments)) + s.cur + n = i,
         \A k \in 1..Len(s.segments) : Stops(text, Boundary(s.segments, k)),
         s.cur > 0 => Stops(text, i - n), Stops(text, i)
  PROVE  FilledInv(text, i, AddPiece(s, n))
<1> DEFINE fits == s.cur + n <= SegmentMax
           closed == IF fits \/ s.cur = 0 THEN s.segments ELSE Append(s.segments, s.cur)
           cur == IF fits THEN s.cur + n ELSE n
           sum == Boundary(closed, Len(closed))
<1>1. SegmentMax \in Nat /\ SegmentMin \in Nat /\ SegmentMin > 0 /\ SegmentMin <= SegmentMax
  BY SegmentsAssumption
<1>2. s.segments \in Seq(Nat) /\ Boundary(s.segments, Len(s.segments)) \in Nat
  <2>1. 1..SegmentMax \subseteq Nat
    OBVIOUS
  <2>2. s.segments \in Seq(Nat)
    BY <2>1, SeqMonotonic
  <2>3. Len(s.segments) \in Nat
    BY <2>2, LenProperties
  <2>4. Len(s.segments) \in 0..Len(s.segments)
    BY <2>3
  <2>5. QED BY <2>2, <2>4, BoundaryGrows
<1>3. /\ closed \in Seq(1..SegmentMax) /\ cur \in 1..SegmentMax /\ sum + cur = i
      /\ \A k \in 1..Len(closed) : Stops(text, Boundary(closed, k))
  <2>1. CASE fits
    BY <1>1, <1>2, <2>1
  <2>2. CASE ~fits /\ s.cur = 0
    BY <1>1, <2>2
  <2>3. CASE ~fits /\ s.cur # 0
    <3>1. closed = Append(s.segments, s.cur) /\ cur = n
      BY <2>3
    <3>2. s.cur \in 1..SegmentMax
      BY <1>1, <2>3
    <3> HIDE DEF closed, cur, fits
    <3>3. Boundary(s.segments, Len(s.segments)) + s.cur = i - n
      <4>1. n \in Nat /\ s.cur \in Nat
        BY <1>1
      <4>2. Boundary(s.segments, Len(s.segments)) + s.cur + n = i
        OBVIOUS
      <4>3. \A b, c \in Nat : b + c + n = i => b + c = i - n
        BY <4>1
      <4>4. QED BY <1>2, <4>1, <4>2, <4>3
    <3>4. Stops(text, Boundary(s.segments, Len(s.segments)) + s.cur)
      BY <3>2, <3>3
    <3>5. /\ closed \in Seq(1..SegmentMax) /\ sum = Boundary(s.segments, Len(s.segments)) + s.cur
          /\ \A k \in 1..Len(closed) : Stops(text, Boundary(closed, k))
      BY <3>1, <3>2, <3>4, SegmentCloses
    <3>6. QED BY <3>1, <3>3, <3>5
  <2>4. QED BY <2>1, <2>2, <2>3
<1>4. AddPiece(s, n) = IF cur >= SegmentMin
                       THEN [segments |-> Append(closed, cur), cur |-> 0, piece |-> 0]
                       ELSE [segments |-> closed, cur |-> cur, piece |-> 0]
  BY DEF AddPiece
<1> HIDE DEF closed, cur
<1>5. i - 0 = i /\ (i - 0 + 1 .. i) = {}
  OBVIOUS
<1>6. sum \in Nat
  <2>1. 1..SegmentMax \subseteq Nat
    OBVIOUS
  <2>2. closed \in Seq(Nat)
    BY <1>3, <2>1, SeqMonotonic
  <2>3. Len(closed) \in Nat
    BY <2>2, LenProperties
  <2>4. Len(closed) \in 0..Len(closed)
    BY <2>3
  <2>5. QED BY <2>2, <2>4, BoundaryGrows
<1> HIDE DEF sum
<1>7. CASE cur >= SegmentMin
  <2> DEFINE t == Append(closed, cur)
             r == [segments |-> t, cur |-> 0, piece |-> 0]
  <2>1. /\ t \in Seq(1..SegmentMax) /\ Boundary(t, Len(t)) = i
        /\ \A k \in 1..Len(t) : Stops(text, Boundary(t, k))
    BY <1>3, SegmentCloses DEF sum
  <2> HIDE DEF t
  <2>2. r.segments = t /\ r.cur = 0 /\ r.piece = 0
        /\ r = [segments |-> r.segments, cur |-> r.cur, piece |-> r.piece]
    OBVIOUS
  <2>3. AddPiece(s, n) = r
    BY <1>4, <1>7 DEF t
  <2> HIDE DEF r
  <2>4. FilledInv(text, i, r)
    BY <1>1, <1>5, <2>1, <2>2 DEF FilledInv
  <2>5. QED BY <2>3, <2>4
<1>8. CASE cur < SegmentMin
  <2> DEFINE r == [segments |-> closed, cur |-> cur, piece |-> 0]
  <2>1. r.segments = closed /\ r.cur = cur /\ r.piece = 0
        /\ r = [segments |-> r.segments, cur |-> r.cur, piece |-> r.piece]
    OBVIOUS
  <2>2. AddPiece(s, n) = r
    BY <1>1, <1>3, <1>4, <1>8
  <2> HIDE DEF r
  <2>3. Boundary(r.segments, Len(r.segments)) + r.cur + r.piece = i
    BY <1>3, <1>6, <2>1 DEF sum
  <2>4. FilledInv(text, i, r)
    BY <1>1, <1>3, <1>5, <1>8, <2>1, <2>3 DEF FilledInv
  <2>5. QED BY <2>2, <2>4
<1>9. QED BY <1>1, <1>3, <1>7, <1>8

LEMMA WordIsTaken ==
  ASSUME NEW text \in Seq(BOOLEAN), NEW i \in 1..Len(text), NEW s, FilledInv(text, i - 1, s)
  PROVE  FilledInv(text, i, TakeWord(text, i, s))
<1> DEFINE n == s.piece + 1
<1>1. /\ SegmentMax \in Nat /\ Len(text) \in Nat /\ i \in Nat /\ i - 1 \in Nat
      /\ s.piece \in Nat /\ s.piece < SegmentMax /\ n \in 1..SegmentMax
  BY SegmentsAssumption, LenProperties DEF FilledInv
<1>2. Boundary(s.segments, Len(s.segments)) \in Nat
  <2>1. 1..SegmentMax \subseteq Nat
    OBVIOUS
  <2>2. s.segments \in Seq(Nat)
    BY <2>1, SeqMonotonic DEF FilledInv
  <2>3. Len(s.segments) \in Nat
    BY <2>2, LenProperties
  <2>4. Len(s.segments) \in 0..Len(s.segments)
    BY <2>3
  <2>5. QED BY <2>2, <2>4, BoundaryGrows
<1>3. i - n = i - 1 - s.piece
  BY <1>1
<1>4. ASSUME ~text[i] PROVE \A j \in i - n + 1 .. i : ~text[j]
  <2>1. \A j \in i - n + 1 .. i : j = i \/ j \in (i - 1) - s.piece + 1 .. i - 1
    BY <1>1
  <2>2. QED BY <1>4, <2>1 DEF FilledInv
<1>5. CASE EndsPiece(text, i, n)
  <2>1. Stops(text, i)
    <3>1. CASE text[i] \/ i = Len(text)
      BY <3>1 DEF Stops
    <3>2. CASE ~text[i] /\ i # Len(text) /\ n = SegmentMax
      <4>1. SegmentMax <= i
        BY <1>1, <1>2, <3>2 DEF FilledInv
      <4>2. i < Len(text)
        BY <1>1, <3>2
      <4>3. QED BY <1>4, <3>2, <4>1, <4>2 DEF Stops
    <3>3. QED BY <1>5, <3>1, <3>2 DEF EndsPiece
  <2>2. /\ s.segments \in Seq(1..SegmentMax) /\ s.cur \in Nat /\ s.cur < SegmentMin
        /\ \A k \in 1..Len(s.segments) : Stops(text, Boundary(s.segments, k))
        /\ s.cur > 0 => Stops(text, i - n)
    BY <1>3 DEF FilledInv
  <2>3. Boundary(s.segments, Len(s.segments)) + s.cur + n = i
    <3>1. s.cur \in Nat /\ Boundary(s.segments, Len(s.segments)) + s.cur + s.piece = i - 1
      BY DEF FilledInv
    <3>2. QED BY <1>1, <1>2, <3>1
  <2> HIDE DEF n
  <2>4. FilledInv(text, i, AddPiece(s, n))
    BY <1>1, <2>1, <2>2, <2>3, PieceIsAdded
  <2>5. TakeWord(text, i, s) = AddPiece(s, n)
    BY <1>5 DEF TakeWord, n
  <2>6. QED BY <2>4, <2>5
<1>6. CASE ~EndsPiece(text, i, n)
  <2> DEFINE r == [segments |-> s.segments, cur |-> s.cur, piece |-> n]
  <2>1. TakeWord(text, i, s) = r
    <3>1. TakeWord(text, i, s) = [s EXCEPT !.piece = n]
      BY <1>6 DEF TakeWord
    <3>2. s = [segments |-> s.segments, cur |-> s.cur, piece |-> s.piece]
      BY DEF FilledInv
    <3>3. QED BY <3>1, <3>2
  <2>2. r = [segments |-> r.segments, cur |-> r.cur, piece |-> r.piece]
        /\ r.segments = s.segments /\ r.cur = s.cur /\ r.piece = n
    OBVIOUS
  <2> HIDE DEF r
  <2>3. n < SegmentMax /\ i < Len(text) /\ ~text[i]
    BY <1>1, <1>6 DEF EndsPiece
  <2>4. \A j \in i - n + 1 .. i : ~text[j]
    BY <1>4, <2>3
  <2>5. Boundary(s.segments, Len(s.segments)) + s.cur + n = i
    <3>1. s.cur \in Nat /\ Boundary(s.segments, Len(s.segments)) + s.cur + s.piece = i - 1
      BY DEF FilledInv
    <3>2. QED BY <1>1, <1>2, <3>1
  <2>6. s.cur > 0 => Stops(text, i - n)
    BY <1>3 DEF FilledInv
  <2> HIDE DEF n
  <2>7. FilledInv(text, i, r)
    BY <1>1, <2>2, <2>3, <2>4, <2>5, <2>6 DEF FilledInv
  <2>8. QED BY <2>1, <2>7
<1>7. QED BY <1>5, <1>6

NoneFilled == [segments |-> <<>>, cur |-> 0, piece |-> 0]
LEMMA NothingIsFilled ==
  ASSUME NEW text
  PROVE  FilledInv(text, 0, NoneFilled)
<1>1. SegmentMax \in Nat /\ 0 < SegmentMin /\ 0 < SegmentMax
  BY SegmentsAssumption
<1>2. <<>> \in Seq(1..SegmentMax) /\ <<>> \in Seq(Nat) /\ Len(<<>>) = 0
  BY EmptySeq
<1>3. Boundary(<<>>, 0) = 0
  BY <1>2, BoundaryGrows
<1>4. NoneFilled.segments = <<>> /\ NoneFilled.cur = 0 /\ NoneFilled.piece = 0
      /\ NoneFilled = [segments |-> NoneFilled.segments, cur |-> NoneFilled.cur, piece |-> NoneFilled.piece]
  BY DEF NoneFilled
<1>5. (0 - 0 + 1 .. 0) = {} /\ (1..0) = {}
  OBVIOUS
<1>6. QED BY <1>1, <1>2, <1>3, <1>4, <1>5 DEF FilledInv

(* A text longer than SegmentAbove, with all its words filled in.           *)
LEMMA SegmentsAreFilled ==
  ASSUME NEW text \in Seq(BOOLEAN), ~(Len(text) <= SegmentAbove)
  PROVE  \E s : FilledInv(text, Len(text), s) /\ SplitIntoSegments(text) = AddTail(s)
<1> DEFINE n == Len(text)
           A == [segments : Seq(1..SegmentMax), cur : Nat, piece : Nat]
           step == [i \in 1..n |-> [s \in A |-> IF TakeWord(text, i, s) \in A
                                               THEN TakeWord(text, i, s) ELSE s]]
           Is(f) == f = [i \in 0..n |-> IF i = 0 THEN [segments |-> <<>>, cur |-> 0, piece |-> 0]
                                                ELSE TakeWord(text, i, f[i - 1])]
           Filled(f) == {i \in Nat : FilledInv(text, i, f[i])}
<1>1. n \in Nat /\ n \in 0..n /\ \A i \in 1..n : i \in Nat /\ i \in 0..n /\ i - 1 \in 0..n /\ i # 0
  BY LenProperties
<1>2. ASSUME NEW i, NEW s, FilledInv(text, i, s) PROVE s \in A
  BY <1>2 DEF FilledInv
<1>3. NoneFilled \in A
  BY <1>2, NothingIsFilled
<1>4. step \in [1..n -> [A -> A]]
  OBVIOUS
<1>5. \A i \in 1..n, s \in A : TakeWord(text, i, s) \in A => step[i][s] = TakeWord(text, i, s)
  OBVIOUS
<1> HIDE DEF A, step
<1>6. PICK f \in [0..n -> A] : Accumulates(f, n, NoneFilled, step)
  BY <1>1, <1>3, <1>4, AccumulatorExists
<1>7. f[0] = NoneFilled /\ \A i \in 1..n : f[i] = step[i][f[i - 1]]
  BY <1>6 DEF Accumulates
<1>8. 0..n \subseteq Filled(f)
  <2>1. 0 \in Filled(f)
    BY <1>7, NothingIsFilled
  <2>2. ASSUME NEW i \in 1..n, i - 1 \in Filled(f) PROVE i \in Filled(f)
    <3>1. FilledInv(text, i - 1, f[i - 1])
      BY <2>2
    <3>2. FilledInv(text, i, TakeWord(text, i, f[i - 1]))
      BY <3>1, WordIsTaken
    <3>3. f[i - 1] \in A /\ TakeWord(text, i, f[i - 1]) \in A
      BY <1>2, <3>1, <3>2
    <3>4. f[i] = TakeWord(text, i, f[i - 1])
      BY <1>5, <1>7, <3>3
    <3>5. QED BY <1>1, <3>2, <3>4
  <2> HIDE DEF Filled
  <2>3. QED BY <1>1, <2>1, <2>2, Induction
<1>9. \A i \in 1..n : f[i] = TakeWord(text, i, f[i - 1])
  <2> SUFFICES ASSUME NEW i \in 1..n PROVE f[i] = TakeWord(text, i, f[i - 1])
    OBVIOUS
  <2>1. FilledInv(text, i - 1, f[i - 1])
    BY <1>1, <1>8
  <2>2. FilledInv(text, i, TakeWord(text, i, f[i - 1]))
    BY <2>1, WordIsTaken
  <2>3. QED BY <1>2, <1>5, <1>7, <2>1, <2>2
<1>10. Is(f)
  <2>1. f = [i \in 0..n |-> f[i]]
    BY <1>6
  <2>2. \A i \in 0..n : i # 0 => i \in 1..n
    BY <1>1
  <2>3. \A i \in 0..n : f[i] = IF i = 0 THEN [segments |-> <<>>, cur |-> 0, piece |-> 0]
                                        ELSE TakeWord(text, i, f[i - 1])
    BY <1>7, <1>9, <2>2 DEF NoneFilled
  <2>4. QED BY <2>1, <2>3
<1> DEFINE h == CHOOSE h : Is(h)
<1>11. Is(h) /\ SplitIntoSegments(text) = AddTail(h[n])
  BY <1>10, Zenon DEF SplitIntoSegments
<1> HIDE DEF h
<1>12. h[0] = NoneFilled /\ \A i \in 1..n : h[i] = TakeWord(text, i, h[i - 1])
  <2>1. h = [i \in 0..n |-> IF i = 0 THEN [segments |-> <<>>, cur |-> 0, piece |-> 0]
                                     ELSE TakeWord(text, i, h[i - 1])]
    BY <1>11
  <2>2. 0 \in 0..n
    BY <1>1
  <2>3. QED BY <1>1, <2>1, <2>2 DEF NoneFilled
<1>13. 0..n \subseteq Filled(h)
  <2>1. 0 \in Filled(h)
    BY <1>12, NothingIsFilled
  <2>2. ASSUME NEW i \in 1..n, i - 1 \in Filled(h) PROVE i \in Filled(h)
    <3>1. FilledInv(text, i - 1, h[i - 1])
      BY <2>2
    <3>2. FilledInv(text, i, TakeWord(text, i, h[i - 1]))
      BY <3>1, WordIsTaken
    <3>3. QED BY <1>1, <1>12, <3>2
  <2> HIDE DEF Filled
  <2>3. QED BY <1>1, <2>1, <2>2, Induction
<1>14. FilledInv(text, n, h[n])
  BY <1>1, <1>13
<1>15. QED BY <1>11, <1>14

LEMMA BoundaryRises ==
  ASSUME NEW s \in Seq(Nat \ {0}), NEW k \in 0..Len(s), NEW m \in k..Len(s)
  PROVE  Boundary(s, k) + (m - k) <= Boundary(s, m)
<1> DEFINE Rises == {i \in Nat : Boundary(s, k) + i <= Boundary(s, k + i)}
<1>1. Len(s) \in Nat /\ k \in Nat /\ m - k \in Nat /\ s \in Seq(Nat)
  <2>1. Len(s) \in Nat
    BY LenProperties
  <2>2. s \in Seq(Nat)
    BY SeqMonotonic
  <2>3. QED BY <2>1, <2>2
<1>2. \A i \in 1..Len(s) : s[i] \in Nat /\ s[i] >= 1
  BY <1>1, ElementOfSeq
<1>3. 0 \in Rises
  <2>1. Boundary(s, k) \in Nat /\ k + 0 = k
    BY <1>1, BoundaryGrows
  <2>2. QED BY <2>1
<1>4. ASSUME NEW i \in 1..m - k, i - 1 \in Rises PROVE i \in Rises
  <2>1. k + i \in 1..Len(s) /\ k + i - 1 = k + (i - 1) /\ k + (i - 1) \in 0..Len(s) /\ i \in Nat
    BY <1>1
  <2>2. Boundary(s, k + i) = Boundary(s, k + (i - 1)) + s[k + i]
    BY <1>1, <2>1, BoundaryGrows
  <2>3. /\ Boundary(s, k) \in Nat /\ Boundary(s, k + (i - 1)) \in Nat
        /\ Boundary(s, k) + (i - 1) <= Boundary(s, k + (i - 1))
    BY <1>1, <1>4, <2>1, BoundaryGrows
  <2>4. \A b, c \in Nat : b + (i - 1) <= c => b + i <= c + s[k + i]
    BY <1>2, <2>1
  <2>5. QED BY <2>1, <2>2, <2>3, <2>4
<1> HIDE DEF Rises
<1>5. m - k \in Rises
  <2>1. 0..(m - k) \subseteq Rises
    BY <1>1, <1>3, <1>4, Induction
  <2>2. QED BY <1>1, <2>1
<1>6. k + (m - k) = m
  BY <1>1
<1>7. QED BY <1>5, <1>6 DEF Rises

(* A segment may be as long as the whole of a short text, or as a segment   *)
(* and a short remainder.                                                   *)
SizeIsRight(n) == n <= SegmentMax \/ n <= SegmentAbove \/ n < SegmentMax + SegmentMinTail

(* What split_into_segments makes of a text.                                *)
Segmented(text, r) ==
  /\ r \in Seq(Nat) /\ Len(r) > 0
  /\ Boundary(r, Len(r)) = Len(text)
  /\ \A k \in 1..Len(r) - 1 : Stops(text, Boundary(r, k)) /\ Boundary(r, k) \in 1..Len(text) - 1
  /\ \A k \in DOMAIN r : SizeIsRight(r[k])

LEMMA LongIsSegmented ==
  ASSUME NEW text \in Seq(BOOLEAN), Len(text) > 0, NEW r \in Seq(Nat \ {0}),
         Boundary(r, Len(r)) = Len(text),
         \A k \in 1..Len(r) - 1 : Stops(text, Boundary(r, k)),
         \A k \in DOMAIN r : SizeIsRight(r[k])
  PROVE  Segmented(text, r)
<1>1. Len(r) \in Nat /\ Len(text) \in Nat
  BY LenProperties
<1>2. r \in Seq(Nat)
  BY SeqMonotonic
<1>3. Len(r) > 0
  BY <1>1, <1>2, BoundaryGrows
<1>4. ASSUME NEW k \in 1..Len(r) - 1 PROVE Boundary(r, k) \in 1..Len(text) - 1
  <2>1. k \in 0..Len(r) /\ Len(r) \in k..Len(r) /\ 0 \in 0..Len(r) /\ k \in 0..Len(r) /\ k >= 1
    BY <1>1
  <2>2. Boundary(r, 0) + (k - 0) <= Boundary(r, k) /\ Boundary(r, 0) = 0
    BY <1>2, <2>1, BoundaryRises, BoundaryGrows
  <2>3. Boundary(r, k) + (Len(r) - k) <= Len(text)
    BY <2>1, BoundaryRises
  <2>4. Boundary(r, k) \in Nat
    BY <1>2, <2>1, BoundaryGrows
  <2>5. QED BY <1>1, <2>1, <2>2, <2>3, <2>4
<1>5. QED BY <1>2, <1>3, <1>4 DEF Segmented

LEMMA TailIsAdded ==
  ASSUME NEW text \in Seq(BOOLEAN), Len(text) > 0, NEW s, FilledInv(text, Len(text), s)
  PROVE  Segmented(text, AddTail(s))
<1> DEFINE t == s.segments
           last == Len(t)
<1>1. /\ SegmentMax \in Nat /\ SegmentMin <= SegmentMax /\ SegmentMin \in Nat
      /\ SegmentMinTail \in Nat /\ SegmentAbove \in Nat /\ Len(text) \in Nat
  BY SegmentsAssumption, LenProperties
<1>2. /\ t \in Seq(1..SegmentMax) /\ s.cur \in Nat /\ s.piece = 0 /\ s.cur < SegmentMin
      /\ Boundary(t, last) + s.cur + s.piece = Len(text)
      /\ \A k \in 1..last : Stops(text, Boundary(t, k))
  <2>1. s.piece \in Nat /\ (s.piece > 0 => Len(text) < Len(text))
    BY DEF FilledInv
  <2>2. s.piece = 0
    BY <1>1, <2>1
  <2>3. QED BY <2>2 DEF FilledInv
<1>3. t \in Seq(Nat \ {0}) /\ t \in Seq(Nat) /\ last \in Nat
  <2>1. 1..SegmentMax \subseteq Nat \ {0}
    OBVIOUS
  <2>2. t \in Seq(Nat \ {0})
    BY <1>2, <2>1, SeqMonotonic
  <2>3. QED BY <2>2, SeqMonotonic, LenProperties
<1>4. \A k \in 1..last : t[k] \in 1..SegmentMax
  BY <1>2, ElementOfSeq
<1>5. Boundary(t, last) \in Nat
  <2>1. last \in 0..last
    BY <1>3
  <2>2. QED BY <1>3, <2>1, BoundaryGrows
<1>6. Boundary(t, last) + s.cur = Len(text)
  BY <1>2, <1>5
<1>7. CASE s.cur = 0
  <2>1. Boundary(t, last) = Len(text)
    BY <1>5, <1>6, <1>7
  <2>2. \A k \in 1..last - 1 : k \in 1..last
    BY <1>3
  <2>3. \A k \in DOMAIN t : SizeIsRight(t[k])
    <3>1. DOMAIN t = 1..last
      BY <1>3, LenProperties
    <3>2. QED BY <1>4, <3>1 DEF SizeIsRight
  <2>4. AddTail(s) = t
    BY <1>7 DEF AddTail
  <2> HIDE DEF t
  <2>5. QED BY <1>2, <1>3, <2>1, <2>2, <2>3, <2>4, LongIsSegmented
<1>8. CASE s.cur > 0 /\ s.cur < SegmentMinTail /\ last > 0
  <2> DEFINE r == [t EXCEPT ![last] = @ + s.cur]
  <2>1. AddTail(s) = r
    BY <1>8 DEF AddTail
  <2>2. /\ Len(r) = last /\ last \in 1..last /\ r[last] = t[last] + s.cur
        /\ \A k \in 1..last - 1 : k \in 1..last /\ r[k] = t[k]
    <3>1. last \in 1..last /\ DOMAIN t = 1..last /\ \A k \in 1..last - 1 : k \in 1..last /\ k # last
      BY <1>3, <1>8, LenProperties
    <3>2. Len(r) = last
      BY <1>3, ExceptSeq
    <3>3. QED BY <3>1, <3>2
  <2>3. r \in Seq(Nat \ {0})
    <3>1. t[last] + s.cur \in Nat \ {0}
      BY <1>2, <1>4, <2>2
    <3>2. r = [t EXCEPT ![last] = t[last] + s.cur]
      OBVIOUS
    <3> HIDE DEF r, t
    <3>3. QED BY <1>3, <2>2, <3>1, <3>2, ExceptSeq
  <2> HIDE DEF r
  <2>4. r \in Seq(Nat)
    BY <2>3, SeqMonotonic
  <2>5. ASSUME NEW k \in 0..last - 1 PROVE Boundary(r, k) = Boundary(t, k)
    <3>1. k \in 0..Len(r) /\ k \in 0..Len(t) /\ \A i \in 1..k : i \in 1..last - 1
      BY <1>3, <2>2
    <3>2. \A i \in 1..k : r[i] = t[i]
      BY <2>2, <3>1
    <3>3. QED BY <1>3, <2>4, <3>1, <3>2, BoundaryAgrees
  <2>6. Boundary(r, Len(r)) = Len(text)
    <3>1. last - 1 \in 0..last - 1 /\ last - 1 \in 0..last
      BY <1>3, <1>8
    <3>2. Boundary(r, last) = Boundary(r, last - 1) + r[last]
      BY <2>2, <2>4, BoundaryGrows
    <3>3. Boundary(t, last) = Boundary(t, last - 1) + t[last] /\ Boundary(t, last - 1) \in Nat
      BY <1>3, <2>2, <3>1, BoundaryGrows
    <3>4. Boundary(r, last) = Boundary(t, last - 1) + (t[last] + s.cur)
      BY <2>2, <2>5, <3>1, <3>2
    <3>5. t[last] \in Nat
      BY <1>4, <2>2
    <3>6. \A b, n \in Nat : b + (n + s.cur) = (b + n) + s.cur
      BY <1>2
    <3>7. QED BY <1>6, <2>2, <3>3, <3>4, <3>5, <3>6
  <2>7. \A k \in 1..Len(r) - 1 : Stops(text, Boundary(r, k))
    <3>1. \A k \in 1..Len(r) - 1 : k \in 1..last /\ k \in 0..last - 1
      BY <1>3, <2>2
    <3>2. QED BY <1>2, <2>5, <3>1
  <2>8. \A k \in DOMAIN r : SizeIsRight(r[k])
    <3>1. DOMAIN r = 1..last /\ \A k \in 1..last : k = last \/ k \in 1..last - 1
      BY <1>3, <2>2, <2>4, LenProperties
    <3>2. SizeIsRight(r[last])
      <4>1. t[last] \in Nat /\ t[last] <= SegmentMax /\ s.cur \in Nat
        BY <1>1, <1>2, <1>4, <2>2
      <4>2. r[last] < SegmentMax + SegmentMinTail
        BY <1>1, <1>8, <2>2, <4>1
      <4>3. QED BY <4>2 DEF SizeIsRight
    <3>3. \A k \in 1..last - 1 : SizeIsRight(r[k])
      BY <1>1, <1>4, <2>2 DEF SizeIsRight
    <3>4. QED BY <3>1, <3>2, <3>3
  <2>9. QED BY <2>1, <2>3, <2>6, <2>7, <2>8, LongIsSegmented
<1>9. CASE s.cur > 0 /\ ~(s.cur < SegmentMinTail /\ last > 0)
  <2> DEFINE r == Append(t, s.cur)
  <2>1. AddTail(s) = r
    BY <1>1, <1>9 DEF AddTail
  <2>2. s.cur \in 1..SegmentMax
    BY <1>1, <1>2, <1>9
  <2>3. Stops(text, Boundary(t, last) + s.cur)
    BY <1>6 DEF Stops
  <2> HIDE DEF t
  <2>4. /\ r \in Seq(1..SegmentMax) /\ Boundary(r, Len(r)) = Len(text)
        /\ \A k \in 1..Len(r) : Stops(text, Boundary(r, k))
    BY <1>2, <1>6, <2>2, <2>3, SegmentCloses
  <2> HIDE DEF r
  <2>5. r \in Seq(Nat \ {0})
    <3>1. 1..SegmentMax \subseteq Nat \ {0}
      OBVIOUS
    <3>2. QED BY <2>4, <3>1, SeqMonotonic
  <2>6. Len(r) \in Nat /\ \A k \in 1..Len(r) - 1 : k \in 1..Len(r)
    BY <2>5, LenProperties
  <2>7. \A k \in DOMAIN r : SizeIsRight(r[k])
    <3>1. DOMAIN r = 1..Len(r) /\ \A k \in 1..Len(r) : r[k] \in 1..SegmentMax
      BY <2>4, <2>5, LenProperties, ElementOfSeq
    <3>2. QED BY <1>1, <3>1 DEF SizeIsRight
  <2>8. QED BY <2>1, <2>4, <2>5, <2>6, <2>7, LongIsSegmented
<1>10. QED BY <1>2, <1>7, <1>8, <1>9

LEMMA SplitIsSegmented ==
  ASSUME NEW text \in Seq(BOOLEAN)
  PROVE  Segmented(text, SplitIntoSegments(text))
<1>1. Len(text) \in Nat /\ SegmentAbove \in Nat
  BY LenProperties, SegmentsAssumption
<1>2. CASE Len(text) <= SegmentAbove
  <2> DEFINE r == <<Len(text)>>
  <2>1. /\ r \in Seq(Nat) /\ Len(r) = 1 /\ r[1] = Len(text) /\ DOMAIN r = {1}
        /\ 1..Len(r) - 1 = {} /\ 1 \in 1..Len(r) /\ 1 - 1 = 0
    BY <1>1
  <2>2. SplitIntoSegments(text) = r
    BY <1>2 DEF SplitIntoSegments
  <2> HIDE DEF r
  <2>3. Boundary(r, 1) = Boundary(r, 1 - 1) + r[1] /\ Boundary(r, 0) = 0
    BY <2>1, BoundaryGrows
  <2>4. Boundary(r, 1) = Len(text)
    BY <1>1, <2>1, <2>3
  <2>5. SizeIsRight(r[1])
    BY <1>2, <2>1 DEF SizeIsRight
  <2>6. Boundary(r, Len(r)) = Len(text) /\ Len(r) > 0
    BY <2>1, <2>4
  <2>7. \A k \in 1..Len(r) - 1 : Stops(text, Boundary(r, k)) /\ Boundary(r, k) \in 1..Len(text) - 1
    BY <2>1
  <2>8. \A k \in DOMAIN r : SizeIsRight(r[k])
    BY <2>1, <2>5
  <2>9. Segmented(text, r)
    BY <2>1, <2>6, <2>7, <2>8 DEF Segmented
  <2>10. QED BY <2>2, <2>9
<1>3. CASE ~(Len(text) <= SegmentAbove)
  <2>1. Len(text) > 0
    BY <1>1, <1>3
  <2>2. QED BY <1>3, <2>1, SegmentsAreFilled, TailIsAdded
<1>4. QED BY <1>2, <1>3

(* Where a segment may end inside the text, a sentence ends or is too long. *)
LEMMA StopsWhole ==
  ASSUME NEW text \in Seq(BOOLEAN), NEW b \in 1..Len(text) - 1, Stops(text, b)
  PROVE  text[b] \/ SentenceEnd(text, b) - SentenceStart(text, b) > SegmentMax
<1> DEFINE Ends == {j \in b..Len(text) : text[j] \/ j = Len(text)}
           Starts == {0} \cup {j \in 1 .. b - 1 : text[j]}
<1>1. SegmentMax \in Nat /\ SegmentMax > 0 /\ Len(text) \in Nat /\ b \in Nat /\ b < Len(text)
  BY SegmentsAssumption, LenProperties
<1> SUFFICES ASSUME ~text[b] PROVE SentenceEnd(text, b) - SentenceStart(text, b) > SegmentMax
  OBVIOUS
<1>2. SegmentMax <= b /\ \A j \in b - SegmentMax + 1 .. b : ~text[j]
  BY <1>1 DEF Stops
<1>3. SentenceEnd(text, b) \in Nat /\ SentenceEnd(text, b) > b
  <2>1. Ends \in SUBSET Nat /\ Len(text) \in Ends
    BY <1>1
  <2>2. Min(Ends) \in Ends
    <3> HIDE DEF Ends
    <3>1. QED BY <2>1, MinOfNumbers
  <2>3. \A j \in Ends : j \in Nat /\ j > b
    BY <1>1
  <2>4. SentenceEnd(text, b) = Min(Ends)
    BY DEF SentenceEnd
  <2>5. QED BY <2>2, <2>3, <2>4
<1>4. SentenceStart(text, b) \in Nat /\ SentenceStart(text, b) <= b - SegmentMax
  <2>1. Starts \in SUBSET Nat /\ 0 \in Starts /\ \A j \in Starts : j <= b
    BY <1>1
  <2>2. Max(Starts) \in Starts
    <3> HIDE DEF Starts
    <3>1. Starts # {}
      BY <2>1
    <3>2. QED BY <1>1, <2>1, <3>1, MaxOfNumbers
  <2>3. \A j \in Starts : j \in Nat /\ j <= b - SegmentMax
    <3>1. \A j \in 1..b - 1 : j <= b - SegmentMax \/ j \in b - SegmentMax + 1 .. b
      BY <1>1
    <3>2. 0 <= b - SegmentMax
      BY <1>1, <1>2
    <3>3. QED BY <1>2, <3>1, <3>2
  <2>4. SentenceStart(text, b) = Max(Starts)
    BY DEF SentenceStart
  <2>5. QED BY <2>2, <2>3, <2>4
<1>5. QED BY <1>1, <1>2, <1>3, <1>4

LEMMA SplitIsWhole ==
  ASSUME NEW text \in Seq(BOOLEAN), SegmentMax <= SegmentAbove
  PROVE  Whole(text, SplitIntoSegments(text))
<1> DEFINE r == SplitIntoSegments(text)
<1>1. Segmented(text, r)
  BY SplitIsSegmented
<1> HIDE DEF r
<1>2. ASSUME NEW k \in 1..Len(r) - 1
      PROVE  \/ text[Boundary(r, k)]
             \/ SentenceEnd(text, Boundary(r, k)) - SentenceStart(text, Boundary(r, k)) > SegmentMax
  <2>1. Boundary(r, k) \in 1..Len(text) - 1 /\ Stops(text, Boundary(r, k))
    BY <1>1 DEF Segmented
  <2>2. QED BY <2>1, StopsWhole
<1>3. \A k \in DOMAIN r : r[k] <= SegmentAbove \/ r[k] < SegmentMax + SegmentMinTail
  <2>1. \A k \in DOMAIN r : SizeIsRight(r[k]) /\ r[k] \in Nat
    BY <1>1, ElementOfSeq, LenProperties DEF Segmented
  <2>2. QED BY <2>1, SegmentsAssumption DEF SizeIsRight
<1>4. Boundary(r, Len(r)) = Len(text)
  BY <1>1 DEF Segmented
<1>5. Whole(text, r)
  BY <1>2, <1>3, <1>4 DEF Whole
<1>6. QED BY <1>5 DEF r

LEMMA EveryTextHasSegments == TextsHaveSegments
<1> SUFFICES ASSUME NEW r \in Requested PROVE r.segments \in Nat \ {0}
  BY DEF TextsHaveSegments
<1>1. PICK n \in 1..MaxRequests : \E text \in Texts[n] : r = Clean(n, text)
  BY DEF Requested
<1> PICK text \in Texts[n] : r = Clean(n, text)
  BY <1>1
<1>2. text \in Seq(BOOLEAN)
  BY CleanupAssumption
<1>3. r.segments = Len(SplitIntoSegments(text))
  BY DEF Clean
<1>4. Len(SplitIntoSegments(text)) \in Nat \ {0}
  BY <1>2, SplitIsSegmented, LenProperties DEF Segmented
<1>5. QED BY <1>3, <1>4

-----------------------------------------------------------------------------
(* The clean-up manager: what is cleaned is whole.                          *)

(* The raw words of a request, however they were come by.                   *)
LEMMA RawIsWhole ==
  ASSUME TextsHaveSegments, NEW r \in Requested
  PROVE  WholeResult(RawResult(r)) /\ RawResult(r).id = r.id
<1> DEFINE raw == Raw(r.segments)
<1>1. r.segments \in Nat /\ r.segments > 0
  BY DEF TextsHaveSegments
<1>2. raw = [i \in 1..r.segments |-> "raw"]
  BY DEF Raw
<1>3. raw \in Seq({"raw"}) /\ Len(raw) = r.segments
  BY <1>1, <1>2, IsASeq
<1>4. ToSet(raw) = {"raw"}
  <2>1. ToSet(raw) = {raw[i] : i \in DOMAIN raw}
    BY DEF ToSet
  <2>2. DOMAIN raw = 1..r.segments /\ \A i \in 1..r.segments : raw[i] = "raw"
    BY <1>2
  <2>3. 1 \in 1..r.segments
    BY <1>1
  <2>4. QED BY <2>1, <2>2, <2>3
<1>5. RawResult(r) = [id |-> r.id, of |-> r.id, text |-> raw, used_llm |-> FALSE]
  BY DEF RawResult, Result
<1> HIDE DEF raw
<1>6. QED BY <1>1, <1>3, <1>4, <1>5 DEF WholeResult

(* What a worker made of a request's segments.                              *)
LEMMA GeneratedIsWhole ==
  ASSUME NEW id, NEW text \in Seq(Accepted), Len(text) > 0
  PROVE  WholeResult(Result(id, id, text, TRUE)) /\ Result(id, id, text, TRUE).id = id
<1>1. ToSet(text) \subseteq Accepted
  BY ElementOfSeq, LenProperties DEF ToSet
<1>2. "cancelled" \notin Accepted
  BY DEF Accepted
<1> DEFINE r == Result(id, id, text, TRUE)
<1>3. r.id = id /\ r.of = id /\ r.text = text /\ r.used_llm
  BY DEF Result
<1> HIDE DEF r
<1>4. WholeResult(r)
  BY <1>1, <1>2, <1>3 DEF WholeResult
<1>5. QED BY <1>3, <1>4 DEF r

LEMMA CleanedStarts == CleanupInit => CleanedInv
<1> SUFFICES ASSUME CleanupInit PROVE CleanedInv
  OBVIOUS
<1>1. OrphanInv
  BY OrphanStarts
<1>2. ~Generating /\ worker.stage = "off"
  BY IdleManagerIs DEF CleanupInit, Generating, Stage, NoWorker
<1>3. WorkIsWhole
  BY <1>2 DEF CleanupInit, WorkIsWhole, Generating
<1>4. AnsweredOnce
  BY DEF CleanupInit, AnsweredOnce
<1>5. QED BY <1>1, <1>3, <1>4 DEF CleanedInv

LEMMA CleanedStands ==
  ASSUME CleanedInv, UNCHANGED cleanupVars
  PROVE  CleanedInv'
<1>1. OrphanInv'
  BY OrphanStands DEF CleanedInv
<1>2. UNCHANGED <<manager, worker, answer, answers, waiting, cleaned, requests>>
  BY DEF cleanupVars, managerThread, generation, clients
<1>3. WorkIsWhole' /\ AnsweredOnce'
  BY <1>2 DEF CleanedInv, WorkIsWhole, AnsweredOnce, Stage, Command, Generating, WholeResult
<1>4. QED BY <1>1, <1>3 DEF CleanedInv

LEMMA RequestCleaned ==
  ASSUME TextsHaveSegments, CleanedInv, Requests
  PROVE  CleanedInv'
<1> USE DEF CleanedInv
<1>1. OrphanInv'
  BY RequestOrphan
<1>2. PICK text \in Texts[requests + 1] : RequestCleanup(text)
  BY DEF Requests
<1> DEFINE r == Clean(requests + 1, text)
<1>3. requests + 1 \in 1..MaxRequests /\ requests \in Nat /\ requests' = requests + 1
  BY <1>2, CleanupAssumption DEF Requests, RequestCleanup, OrphanInv, ManagerShape
<1>4. r \in Requested /\ r.id = requests + 1
  BY <1>3 DEF Requested, Clean
<1>5. /\ \/ waiting' = waiting \cup {r} /\ UNCHANGED cleaned
         \/ cleaned' = cleaned \cup {RawResult(r)} /\ UNCHANGED waiting
      /\ UNCHANGED <<manager, answers, worker, answer>>
  BY <1>2, <1>3 DEF RequestCleanup, generation
<1>6. WholeResult(RawResult(r)) /\ RawResult(r).id = r.id
  BY <1>4, RawIsWhole
<1> HIDE DEF r
<1>7. WorkIsWhole'
  BY <1>5, <1>6 DEF WorkIsWhole, Stage, Command, Generating, WholeResult
<1>8. \A q \in waiting : q.id \in Nat
  BY RequestedAre DEF OrphanInv, ClientsShape
<1>9. \A a \in cleaned : a.id \in Nat
  BY DEF OrphanInv, ClientsShape
<1>10. AnsweredOnce'
  <2>1. \A q \in waiting : q.id # r.id /\ q.id <= requests'
    BY <1>3, <1>4, <1>8 DEF AnsweredOnce
  <2>2. \A a \in cleaned : a.id # r.id /\ a.id <= requests'
    BY <1>3, <1>4, <1>9 DEF AnsweredOnce
  <2>3. r.id <= requests'
    BY <1>3, <1>4
  <2>4. CASE waiting' = waiting \cup {r} /\ UNCHANGED cleaned
    BY <2>1, <2>2, <2>3, <2>4 DEF AnsweredOnce
  <2>5. CASE cleaned' = cleaned \cup {RawResult(r)} /\ UNCHANGED waiting
    BY <1>6, <2>1, <2>2, <2>3, <2>5 DEF AnsweredOnce
  <2>6. QED BY <1>5, <2>4, <2>5
<1>11. QED BY <1>1, <1>7, <1>10

(* A request is taken out of `waiting` as its answer is concluded.          *)
LEMMA WaitsCleaned ==
  ASSUME TextsHaveSegments, CleanedInv, Waits
  PROVE  CleanedInv'
<1> USE DEF CleanedInv
<1>1. OrphanInv'
  BY WaitsOrphan
<1>2. PICK r \in waiting : WaiterHears(r) \/ WaiterGivesUp(r)
  BY DEF Waits
<1>3. PICK a : WholeResult(a) /\ a.id = r.id /\ Concluded(r, a) /\ answers' \subseteq answers
  <2>1. CASE WaiterHears(r)
    BY <2>1 DEF WaiterHears, WorkIsWhole
  <2>2. CASE WaiterGivesUp(r)
    <3>1. WholeResult(RawResult(r)) /\ RawResult(r).id = r.id
      BY RawIsWhole DEF OrphanInv, ClientsShape
    <3>2. QED BY <2>2, <3>1 DEF WaiterGivesUp
  <2>3. QED BY <1>2, <2>1, <2>2
<1>4. /\ waiting' = waiting \ {r} /\ cleaned' = cleaned \cup {a}
      /\ UNCHANGED <<manager, worker, answer, requests>>
  BY <1>3 DEF Concluded, generation
<1>5. WorkIsWhole'
  BY <1>3, <1>4 DEF WorkIsWhole, Stage, Command, Generating, WholeResult
<1>6. AnsweredOnce'
  BY <1>3, <1>4 DEF AnsweredOnce
<1>7. QED BY <1>1, <1>5, <1>6

(* Steps of the manager before there is a generation, and a warm-up's call. *)
LEMMA LoadingCleaned ==
  ASSUME CleanedInv,
         \/ RequestWarmup \/ TakeCleanupCommand \/ LoadCleanup \/ LoadCleanupFails
         \/ StartWarmup \/ WarmedUp \/ ManagerPanics \/ IdleCleanupUnload
  PROVE  CleanedInv'
<1> USE DEF CleanedInv
<1>1. OrphanInv'
  BY WarmupOrphan, LoadingOrphan
<1>2. UNCHANGED <<worker, answer, answers, waiting, cleaned, requests>>
  BY DEF RequestWarmup, TakeCleanupCommand, LoadCleanup, LoadCleanupFails, StartWarmup, WarmedUp,
         ManagerPanics, IdleCleanupUnload, generation, clients
<1>3. AnsweredOnce'
  BY <1>2 DEF AnsweredOnce
<1>4. CASE RequestWarmup
  <2>1. UNCHANGED manager
    BY <1>4 DEF RequestWarmup
  <2>2. WorkIsWhole'
    BY <1>2, <2>1 DEF WorkIsWhole, Stage, Command, Generating, WholeResult
  <2>3. QED BY <1>1, <1>3, <2>2
<1>5. CASE ~RequestWarmup
  <2>1. worker.stage = "off"
    BY <1>5 DEF TakeCleanupCommand, LoadCleanup, LoadCleanupFails, StartWarmup, WarmedUp,
         ManagerPanics, IdleCleanupUnload, MayLoad, Ready, Stage, OrphanInv, NoOrphanGeneration
  <2>2. manager'.stage \in {"idle", "load", "warm", "dead"}
    <3>1. manager' \in {IdleManager, [IdleManager EXCEPT !.stage = "load", !.command = Head(commands)],
                        [IdleManager EXCEPT !.stage = "dead"], [manager EXCEPT !.stage = "warm"]}
          \/ (UNCHANGED manager /\ manager.stage \in {"idle", "load"})
      BY <1>5 DEF TakeCleanupCommand, LoadCleanup, LoadCleanupFails, StartWarmup, WarmedUp,
         ManagerPanics, IdleCleanupUnload, MayLoad, Stage, ToStage
    <3>2. [manager EXCEPT !.stage = "warm"].stage = "warm"
      BY DEF OrphanInv, ManagerShape
    <3>3. QED BY <3>1, <3>2, IdleManagerIs
  <2>3. WorkIsWhole'
    BY <1>2, <2>1, <2>2 DEF WorkIsWhole, Stage, Generating, WholeResult
  <2>4. QED BY <1>1, <1>3, <2>3
<1>6. QED BY <1>4, <1>5

(* A result the manager will send is of the command in hand; only what the  *)
(* worker has generated, or the raw words, ever becomes one.                *)
LEMMA CleaningCleaned ==
  ASSUME TextsHaveSegments, CleanedInv,
         SkipGeneration \/ StartWorker \/ WorkerAnswered \/ Deadline \/ GraceEnds \/ SendResult
  PROVE  CleanedInv'
<1> USE DEF CleanedInv
<1>1. OrphanInv'
  BY CleaningOrphan
<1>2. UNCHANGED <<waiting, cleaned, requests>>
  BY DEF SkipGeneration, StartWorker, WorkerAnswered, Deadline, GraceEnds, SendResult, Joining,
         clients
<1>3. AnsweredOnce'
  BY <1>2 DEF AnsweredOnce
<1>4. ASSUME Command \in CommandsOf, Command.kind = "Clean"
      PROVE  WholeResult(RawResult(Command))
  <2>1. Command \in Requested
    BY <1>4, WarmupIsNone DEF CommandsOf
  <2>2. QED BY <2>1, RawIsWhole
<1>5. CASE SkipGeneration
  <2>1. /\ manager' = IdleManager /\ Stage("load")
        /\ \/ UNCHANGED answers
           \/ Command.kind = "Clean" /\ answers' = answers \cup {RawResult(Command)}
        /\ UNCHANGED worker
    BY <1>5 DEF SkipGeneration, Ready, generation
  <2>2. Command \in CommandsOf /\ worker.stage = "off"
    BY <2>1 DEF OrphanInv, ManagerShape, NoOrphanGeneration, Stage
  <2>3. \A a \in answers' : WholeResult(a)
    BY <1>4, <2>1, <2>2 DEF WorkIsWhole
  <2>4. ~Generating' /\ worker'.stage = "off"
    BY <2>1, <2>2, IdleManagerIs DEF Generating, Stage
  <2>5. WorkIsWhole'
    BY <1>2, <2>3, <2>4 DEF WorkIsWhole, Generating, WholeResult
  <2>6. QED BY <1>1, <1>3, <2>5
<1>6. CASE StartWorker
  <2>1. /\ manager' = [manager EXCEPT !.stage = "race"]
        /\ worker' = [NoWorker EXCEPT !.stage = "check", !.id = Command.id,
                                      !.segments = Command.segments]
        /\ answer' = NoAnswer /\ UNCHANGED answers
    BY <1>6 DEF StartWorker, ToStage
  <2>2. worker'.out = <<>> /\ worker'.segments = Command.segments /\ answer'.kind = "none"
    BY <2>1 DEF NoWorker, NoAnswer
  <2>3. manager'.stage = "race" /\ Command' = Command
    BY <2>1 DEF OrphanInv, ManagerShape, Command
  <2>4. worker'.out \in Seq(Accepted)
    BY <2>2, EmptySeq
  <2>5. WorkIsWhole'
    BY <1>2, <2>1, <2>2, <2>3, <2>4 DEF WorkIsWhole, Stage, WholeResult
  <2>6. QED BY <1>1, <1>3, <2>5
<1>7. CASE WorkerAnswered \/ GraceEnds
  <2>1. Generating /\ Command \in CommandsOf /\ Command.kind = "Clean"
    BY <1>7 DEF WorkerAnswered, GraceEnds, Generating, OrphanInv, ManagerShape, Stage
  <2>2. PICK result : Joining(result) /\ WholeResult(result)
    <3>1. CASE WorkerAnswered /\ answer.kind = "text"
      BY <2>1, <3>1, GeneratedIsWhole DEF WorkerAnswered, Usable, WorkIsWhole
    <3>2. CASE GraceEnds \/ answer.kind # "text"
      BY <1>4, <1>7, <2>1, <3>2 DEF WorkerAnswered, GraceEnds, Usable
    <3>3. QED BY <1>7, <3>1, <3>2
  <2>3. /\ manager' = [manager EXCEPT !.stage = "join", !.result = result]
        /\ UNCHANGED <<answers, worker, answer>>
    BY <2>2 DEF Joining
  <2>4. manager'.result = result /\ Command' = Command
    BY <2>3 DEF OrphanInv, ManagerShape, Command
  <2>5. WorkIsWhole'
    BY <1>2, <2>1, <2>2, <2>3, <2>4 DEF WorkIsWhole, WholeResult
  <2>6. QED BY <1>1, <1>3, <2>5
<1>8. CASE Deadline
  <2>1. /\ manager' = [manager EXCEPT !.stage = "grace"] /\ Stage("race")
        /\ UNCHANGED <<answers, worker, answer>>
    BY <1>8 DEF Deadline, ToStage
  <2>2. manager'.stage = "grace" /\ Command' = Command /\ Generating
    BY <2>1 DEF OrphanInv, ManagerShape, Command, Generating
  <2>3. WorkIsWhole'
    BY <1>2, <2>1, <2>2 DEF WorkIsWhole, Stage, WholeResult
  <2>4. QED BY <1>1, <1>3, <2>3
<1>9. CASE SendResult
  <2>1. /\ manager' = IdleManager /\ Stage("join") /\ worker.stage = "off"
        /\ answers' = answers \cup {manager.result} /\ UNCHANGED worker
    BY <1>9 DEF SendResult, Joined, generation
  <2>2. ~Generating'
    BY <2>1, IdleManagerIs DEF Generating, Stage
  <2>3. \A a \in answers' : WholeResult(a)
    BY <2>1 DEF WorkIsWhole
  <2>4. WorkIsWhole'
    BY <1>2, <2>1, <2>2, <2>3 DEF WorkIsWhole, Generating, WholeResult
  <2>5. QED BY <1>1, <1>3, <2>4
<1>10. QED BY <1>5, <1>6, <1>7, <1>8, <1>9

(* Segment by segment, nothing a deadline cut is kept.                      *)
LEMMA WorkerCleaned ==
  ASSUME TextsHaveSegments, CleanedInv, WorkerRuns \/ WorkerPanics
  PROVE  CleanedInv'
<1> USE DEF CleanedInv
<1>1. OrphanInv'
  BY WorkerOrphan
<1>2. UNCHANGED <<manager, answers, waiting, cleaned, requests>>
  BY DEF WorkerRuns, BeginSegment, SegmentCleaned, WorkerSends, WorkerPanics, workerFrame,
         managerThread, clients
<1>3. AnsweredOnce'
  BY <1>2 DEF AnsweredOnce
<1>4. /\ worker.stage # "off" /\ worker.out \in Seq(Accepted)
      /\ worker.segments = Command.segments /\ worker.id = Command.id
  BY DEF WorkerRuns, BeginSegment, SegmentCleaned, WorkerSends, WorkerPanics, WorkIsWhole,
         OrphanInv, NoOrphanGeneration
<1>5. CASE BeginSegment \/ \E as \in Accepted : SegmentCleaned(as)
  <2>1. PICK as \in Accepted :
          /\ worker'.out \in {worker.out, Append(worker.out, as)}
          /\ worker'.segments = worker.segments /\ UNCHANGED answer
    BY <1>5 DEF BeginSegment, SegmentCleaned, Accepted, OrphanInv, WorkerShape
  <2>2. worker'.out \in Seq(Accepted)
    BY <1>4, <2>1, AppendProperties
  <2>3. WorkIsWhole'
    BY <1>2, <1>4, <2>1, <2>2 DEF WorkIsWhole, Stage, Command, Generating, WholeResult
  <2>4. QED BY <1>1, <1>3, <2>3
<1>6. CASE WorkerSends
  <2>1. worker'.stage = "off"
    BY <1>6 DEF WorkerSends, NoWorker
  <2>2. answer'.kind = "text" =>
          answer'.of = Command.id /\ answer'.text = worker.out /\ Len(worker.out) = worker.segments
    BY <1>4, <1>6 DEF WorkerSends, NoAnswer
  <2>3. worker.segments \in Nat /\ worker.segments > 0
    <3>1. Command \in CommandsOf /\ Command.kind = "Clean"
      BY <1>4 DEF OrphanInv, ManagerShape, NoOrphanGeneration, Generating, Stage
    <3>2. QED BY <1>4, <3>1, WarmupIsNone DEF TextsHaveSegments, CommandsOf
  <2>4. WorkIsWhole'
    BY <1>2, <1>4, <2>1, <2>2, <2>3
       DEF WorkIsWhole, Stage, Command, Generating, WholeResult
  <2>5. QED BY <1>1, <1>3, <2>4
<1>7. CASE WorkerPanics
  <2>1. worker'.stage = "off" /\ answer'.kind = "hungup"
    BY <1>7 DEF WorkerPanics, NoWorker, NoAnswer
  <2>2. WorkIsWhole'
    BY <1>2, <2>1 DEF WorkIsWhole, Stage, Command, Generating, WholeResult
  <2>3. QED BY <1>1, <1>3, <2>2
<1>8. QED BY <1>5, <1>6, <1>7 DEF WorkerRuns

LEMMA CleanedStep ==
  ASSUME TextsHaveSegments, CleanedInv, [CleanupNext]_cleanupVars
  PROVE  CleanedInv'
BY RequestCleaned, WaitsCleaned, LoadingCleaned, CleaningCleaned, WorkerCleaned, CleanedStands
   DEF CleanupNext, ManagerRuns

-----------------------------------------------------------------------------
(* Saving and recovering: the recordings on disk.                           *)

LEMMA NoThreadIs ==
  /\ NoThread \in Threads
  /\ NoThread.stage = "off" /\ NoThread.run = 0 /\ NoThread.heard = <<>>
<1>1. <<>> \in Seq(Heardable)
  BY EmptySeq
<1>2. <<>> \in Plannings
  BY DEF Plannings
<1>3. QED BY <1>1, <1>2 DEF NoThread, RecoveryStages, Threads

LEMMA RecoveryStarts == RecoveryInit => RecoveryInv
<1> SUFFICES ASSUME RecoveryInit PROVE RecoveryInv
  OBVIOUS
<1>1. 0 \in 0..MaxAsks /\ 0 \in 0..MaxSaves /\ 0 \in 0..MaxLive /\ faults \in 0..MaxFaults
  BY RecoveryAssumption, ManagerAssumption DEF RecoveryInit, ManagerInit
<1>2. ThreadShape
  <2>1. /\ thread \in Threads /\ thread.stage = "off" /\ thread.run <= asks
        /\ RECOVERY_RUNNING \in BOOLEAN
    <3>1. thread = NoThread /\ asks = 0 /\ RECOVERY_RUNNING = FALSE
      BY DEF RecoveryInit
    <3>2. 0 <= 0
      OBVIOUS
    <3>3. QED BY <3>1, <3>2, NoThreadIs
  <2>2. last_wav \in Recordings \cup {<<>>} /\ tmp = <<>> /\ asks = 0 /\ saves = 0
        /\ live = 0 /\ thread.heard = <<>>
    BY NoThreadIs DEF RecoveryInit
  <2>3. QED BY <1>1, <2>1, <2>2 DEF ThreadShape
<1>3. Nothing.kind = "Nothing" /\ Warmup.kind = "Warmup" /\ Warmup \in ModelCommands
  BY DEF Nothing, Warmup, ModelCommands
<1>4. <<>> \in Seq(ModelCommands) /\ <<Warmup>> \in Seq(ModelCommands)
  BY <1>3, EmptySeq
<1>5. \A i \in DOMAIN queue : queue[i] = Warmup
  BY DEF RecoveryInit, ManagerInit
<1>6. InFlight
  BY <1>3, <1>4, <1>5 DEF RecoveryInit, ManagerInit, InFlight, CommandOfItsChunk
<1>7. HeardIsItsOwn
  BY NoThreadIs DEF RecoveryInit, HeardIsItsOwn
<1>8. QED BY <1>2, <1>6, <1>7 DEF RecoveryInv

LEMMA RecoveryStands ==
  ASSUME RecoveryInv, UNCHANGED recoveryVars
  PROVE  RecoveryInv'
<1>1. UNCHANGED <<last_wav, tmp, RECOVERY_RUNNING, thread, asks, saves, live, mute, queue, serving,
                  replies, faults>>
  BY DEF recoveryVars, managerVars
<1>2. ThreadShape' /\ HeardIsItsOwn'
  BY <1>1 DEF RecoveryInv, ThreadShape, HeardIsItsOwn
<1>3. InFlight'
  BY <1>1 DEF RecoveryInv, InFlight, CommandOfItsChunk, AnswerOfItsChunk, OfThisRun, Asked
<1>4. QED BY <1>2, <1>3 DEF RecoveryInv

(* The coordinator's thread writes the recording beside the other and       *)
(* renames it; live dictation goes on.                                      *)
LEMMA DiskStep ==
  ASSUME RecoveryInv, WriteTmp \/ RenameTmp \/ WriteFails
  PROVE  RecoveryInv'
<1> USE DEF RecoveryInv
<1>1. UNCHANGED <<RECOVERY_RUNNING, thread, asks, live, reported, mute, queue, serving, replies>>
  BY DEF WriteTmp, RenameTmp, WriteFails, managerVars
<1>2. /\ last_wav' \in Recordings \cup {<<>>} /\ tmp' \in Recordings \cup {<<>>}
      /\ saves' \in 0..MaxSaves /\ faults' \in 0..MaxFaults
  <2>1. CASE WriteTmp
    BY <2>1, RecoveryAssumption DEF WriteTmp, ThreadShape, managerVars
  <2>2. CASE RenameTmp
    BY <2>2 DEF RenameTmp, ThreadShape, managerVars
  <2>3. CASE WriteFails
    BY <2>3, ManagerAssumption DEF WriteFails, Fails, ThreadShape
  <2>4. QED BY <2>1, <2>2, <2>3
<1>3. ThreadShape' /\ HeardIsItsOwn'
  BY <1>1, <1>2 DEF ThreadShape, HeardIsItsOwn
<1>4. InFlight'
  BY <1>1 DEF InFlight, CommandOfItsChunk, AnswerOfItsChunk, OfThisRun, Asked
<1>5. QED BY <1>3, <1>4

(* A recovery is asked for: a run of a number that no command bears.        *)
LEMMA RecoverStep ==
  ASSUME RecoveryInv, Recover
  PROVE  RecoveryInv'
<1> USE DEF RecoveryInv
<1>1. /\ asks \in Nat /\ asks' = asks + 1 /\ asks' \in 0..MaxAsks
      /\ UNCHANGED <<last_wav, tmp, saves, live, reported, mute, queue, serving, replies, faults>>
  BY RecoveryAssumption DEF Recover, ThreadShape, diskFrame, managerVars
<1>2. \A cmd \in ModelCommands \cup {Nothing} : cmd.kind = "TranscribeChunk" => cmd.client \in Clients
  BY DEF ModelCommands, Chunk, Warmup, Nothing
<1>3. \A c \in Clients : c[1] \in Nat
  BY DEF Clients
<1>4. \A i \in DOMAIN queue : queue[i] \in ModelCommands
  BY ElementOfSeq, LenProperties DEF InFlight
<1>5. CASE UNCHANGED <<RECOVERY_RUNNING, thread>>
  <2>1. ThreadShape' /\ HeardIsItsOwn'
    <3>1. thread.run <= asks'
      BY <1>1 DEF ThreadShape, Threads
    <3>2. ThreadShape'
      BY <1>1, <1>5, <3>1 DEF ThreadShape
    <3>3. QED BY <1>1, <1>5, <3>2 DEF HeardIsItsOwn
  <2>2. ASSUME NEW cmd \in ModelCommands \cup {Nothing}, CommandOfItsChunk(cmd)
        PROVE  CommandOfItsChunk(cmd)'
    BY <1>1, <1>2, <1>3, <1>5, <2>2 DEF CommandOfItsChunk, OfThisRun, Asked
  <2>3. ASSUME NEW r, AnswerOfItsChunk(r)
        PROVE  AnswerOfItsChunk(r)'
    BY <1>1, <1>3, <1>5, <2>3 DEF AnswerOfItsChunk, OfThisRun, Asked
  <2>4. InFlight'
    BY <1>1, <1>4, <2>2, <2>3 DEF InFlight
  <2>5. QED BY <2>1, <2>4
<1>6. CASE RECOVERY_RUNNING' = TRUE /\ thread' = [NoThread EXCEPT !.stage = "read", !.run = asks']
  <2>1. /\ thread' \in Threads
        /\ thread'.stage = "read" /\ thread'.run = asks + 1 /\ thread'.heard = <<>>
    <3>1. "read" \in RecoveryStages /\ asks + 1 \in Nat /\ NoThread \in Threads
      BY <1>1, NoThreadIs DEF RecoveryStages
    <3>2. thread' = [NoThread EXCEPT !.stage = "read", !.run = asks + 1]
      BY <1>1, <1>6
    <3>3. QED BY <3>1, <3>2, NoThreadIs DEF Threads
  <2>2. ThreadShape' /\ HeardIsItsOwn'
    BY <1>1, <1>6, <2>1 DEF ThreadShape, HeardIsItsOwn
  <2>3. ASSUME NEW cmd \in ModelCommands \cup {Nothing}, CommandOfItsChunk(cmd)
        PROVE  CommandOfItsChunk(cmd)'
    BY <1>1, <1>2, <1>3, <2>1, <2>3 DEF CommandOfItsChunk, OfThisRun
  <2>4. ASSUME NEW r, AnswerOfItsChunk(r)
        PROVE  AnswerOfItsChunk(r)'
    BY <1>1, <1>3, <2>1, <2>4 DEF AnswerOfItsChunk, OfThisRun
  <2>5. InFlight'
    BY <1>1, <1>4, <2>3, <2>4 DEF InFlight
  <2>6. QED BY <2>2, <2>5
<1>7. QED BY <1>5, <1>6 DEF Recover

(* As the thread moves on, or ends, what is in flight stays of chunks it    *)
(* has asked for.                                                           *)
LEMMA CommandsAre ==
  /\ \A cmd \in ModelCommands \cup {Nothing} :
       cmd.kind = "TranscribeChunk" => cmd.client \in Clients
  /\ InFlight => \A i \in DOMAIN queue : queue[i] \in ModelCommands
<1>1. \A cmd \in ModelCommands \cup {Nothing} : cmd.kind = "TranscribeChunk" => cmd.client \in Clients
  BY DEF ModelCommands, Chunk, Warmup, Nothing
<1>2. InFlight => \A i \in DOMAIN queue : queue[i] \in ModelCommands
  BY ElementOfSeq, LenProperties DEF InFlight
<1>3. QED BY <1>1, <1>2

Onward ==
  /\ asks' = asks /\ mute \subseteq mute'
  /\ \A c \in Clients : OfThisRun(c)' => OfThisRun(c)
  /\ \A c \in Clients : OfThisRun(c)' /\ Asked(c) =>
       Asked(c)' /\ thread'.samples = thread.samples /\ thread'.plans = thread.plans

LEMMA CommandKept ==
  ASSUME Onward, NEW cmd \in ModelCommands \cup {Nothing}, CommandOfItsChunk(cmd)
  PROVE  CommandOfItsChunk(cmd)'
<1>1. SUFFICES ASSUME cmd.kind = "TranscribeChunk", OfThisRun(cmd.client)'
               PROVE  Asked(cmd.client)'
                        /\ cmd.samples = Span(thread'.samples, thread'.plans[cmd.client[2]])
  BY DEF CommandOfItsChunk, Onward
<1>2. cmd.client \in Clients
  BY <1>1, CommandsAre
<1>3. OfThisRun(cmd.client)
  BY <1>1, <1>2 DEF Onward
<1>4. QED BY <1>1, <1>2, <1>3 DEF CommandOfItsChunk, Onward

LEMMA AnswerKept ==
  ASSUME Onward, NEW r, AnswerOfItsChunk(r)
  PROVE  AnswerOfItsChunk(r)'
<1>1. r.client \in Clients /\ r.client[1] <= asks'
  BY DEF AnswerOfItsChunk, Onward
<1>2. ASSUME OfThisRun(r.client)'
      PROVE  /\ Asked(r.client)'
             /\ r.result \in {"text", "empty"} => Said(r.text, thread'.samples, r.client[2], mute')
  <2>1. OfThisRun(r.client)
    BY <1>1, <1>2 DEF Onward
  <2>2. /\ Asked(r.client)' /\ thread'.samples = thread.samples
        /\ r.result \in {"text", "empty"} => Said(r.text, thread.samples, r.client[2], mute)
    BY <1>1, <1>2, <2>1 DEF AnswerOfItsChunk, Onward
  <2>3. QED BY <2>2 DEF Said, Onward
<1>3. QED BY <1>1, <1>2 DEF AnswerOfItsChunk

LEMMA InFlightKept ==
  ASSUME InFlight, Onward, UNCHANGED <<queue, serving, replies>>
  PROVE  InFlight'
BY CommandsAre, CommandKept, AnswerKept DEF InFlight

(* The thread is gone: with its report, or by a panic.                      *)
LEMMA ThreadEnds ==
  ASSUME RecoveryInv, thread' = NoThread, RECOVERY_RUNNING' \in BOOLEAN,
         faults' \in 0..MaxFaults,
         UNCHANGED <<diskFrame, asks, live, mute, queue, serving, replies>>
  PROVE  RecoveryInv'
<1> USE DEF RecoveryInv
<1>1. UNCHANGED <<last_wav, tmp, saves>>
  BY DEF diskFrame
<1>2. 0 <= asks
  BY RecoveryAssumption DEF ThreadShape
<1>3. ThreadShape'
  BY <1>1, <1>2, NoThreadIs DEF ThreadShape
<1>4. \A c \in Clients : ~OfThisRun(c)'
  BY NoThreadIs DEF OfThisRun
<1>5. InFlight'
  BY <1>4, InFlightKept DEF Onward
<1>6. HeardIsItsOwn'
  BY NoThreadIs DEF HeardIsItsOwn
<1>7. QED BY <1>3, <1>5, <1>6

LEMMA ReportsStep ==
  ASSUME RecoveryInv, NoRecording \/ NotRunning \/ Recovered \/ RecoveryPanics
  PROVE  RecoveryInv'
<1>1. CASE NoRecording \/ NotRunning \/ Recovered
  <2>1. thread' = NoThread /\ RECOVERY_RUNNING' = FALSE
        /\ UNCHANGED <<diskFrame, asks, live, mute, managerVars>>
    BY <1>1 DEF NoRecording, NotRunning, Recovered, Report
  <2>2. faults' \in 0..MaxFaults /\ UNCHANGED <<queue, serving, replies>>
    BY <2>1 DEF managerVars, RecoveryInv, ThreadShape
  <2>3. RECOVERY_RUNNING' \in BOOLEAN
    BY <2>1
  <2>4. QED BY <2>1, <2>2, <2>3, ThreadEnds
<1>2. CASE RecoveryPanics
  <2>1. thread' = NoThread /\ UNCHANGED <<RECOVERY_RUNNING, diskFrame, asks, live, mute, queue, serving, replies>>
    BY <1>2 DEF RecoveryPanics
  <2>2. faults' \in 0..MaxFaults /\ RECOVERY_RUNNING' \in BOOLEAN
    BY <1>2, <2>1, ManagerAssumption DEF RecoveryPanics, Fails, RecoveryInv, ThreadShape
  <2>3. QED BY <2>1, <2>2, ThreadEnds
<1>3. QED BY <1>1, <1>2

LEMMA ReadStep ==
  ASSUME RecoveryInv, ReadRecording
  PROVE  RecoveryInv'
<1> USE DEF RecoveryInv
<1>1. /\ thread.stage = "read" /\ last_wav \in Recordings /\ thread \in Threads
      /\ thread' = [thread EXCEPT !.stage = "send", !.samples = last_wav,
                                  !.plans = PlanChunks(last_wav), !.at = 1]
      /\ UNCHANGED <<RECOVERY_RUNNING, diskFrame, asks, live, mute, managerVars>>
  BY DEF ReadRecording, ThreadShape
<1>2. UNCHANGED <<last_wav, tmp, saves, queue, serving, replies, faults>>
  BY <1>1 DEF diskFrame, managerVars
<1>3. PlanChunks(last_wav) \in Plannings /\ "send" \in RecoveryStages
  BY <1>1 DEF Plannings, RecoveryStages
<1>4. /\ thread' \in Threads /\ thread'.stage = "send" /\ thread'.samples = last_wav
      /\ thread'.plans = PlanChunks(last_wav) /\ thread'.at = 1 /\ thread'.run = thread.run
      /\ thread'.heard = thread.heard /\ thread'.failed = thread.failed
  BY <1>1, <1>3 DEF Threads
<1>5. thread.heard = <<>>
  BY <1>1 DEF ThreadShape
<1>6. ThreadShape'
  BY <1>1, <1>2, <1>4, <1>5 DEF ThreadShape
<1>7. HeardIsItsOwn'
  BY <1>4, <1>5 DEF HeardIsItsOwn
<1>8. InFlight'
  <2>1. \A c : OfThisRun(c)' => OfThisRun(c)
    BY <1>1, <1>4 DEF OfThisRun
  <2>2. \A c : ~Asked(c)
    BY <1>1 DEF Asked
  <2>3. QED BY <1>1, <1>2, <2>1, <2>2, InFlightKept DEF Onward
<1>9. QED BY <1>6, <1>7, <1>8

(* A chunk is sent, on a channel of this attempt.                           *)
LEMMA SendStep ==
  ASSUME RecoveryInv, SendRecoveryChunk
  PROVE  RecoveryInv'
<1> USE DEF RecoveryInv
<1> DEFINE new == Chunk(Client, Span(thread.samples, thread.plans[thread.at]))
<1>1. /\ thread.stage = "send" /\ thread.at <= Len(thread.plans) /\ thread \in Threads
      /\ thread' = [thread EXCEPT !.stage = "wait"] /\ queue' = Append(queue, new)
      /\ UNCHANGED <<RECOVERY_RUNNING, reported, diskFrame, asks, live, mute, serving, replies,
                     faults>>
  BY DEF SendRecoveryChunk, ThreadShape
<1>2. UNCHANGED <<last_wav, tmp, saves>>
  BY <1>1 DEF diskFrame
<1>3. /\ thread' \in Threads /\ thread'.stage = "wait" /\ thread'.samples = thread.samples
      /\ thread'.plans = thread.plans /\ thread'.at = thread.at /\ thread'.run = thread.run
      /\ thread'.attempt = thread.attempt
      /\ thread'.heard = thread.heard /\ thread'.failed = thread.failed
  <2>1. "wait" \in RecoveryStages
    BY DEF RecoveryStages
  <2>2. QED BY <1>1, <2>1 DEF Threads
<1>4. ThreadShape'
  BY <1>1, <1>2, <1>3 DEF ThreadShape
<1>5. HeardIsItsOwn'
  BY <1>1, <1>3 DEF HeardIsItsOwn
<1>6. /\ thread.run \in Nat /\ thread.at \in Nat /\ thread.attempt \in Nat
      /\ thread.run <= asks /\ thread.at > 0
      /\ thread.samples \in Recordings /\ thread.plans = PlanChunks(thread.samples)
  BY <1>1 DEF Threads, ThreadShape
<1>7. /\ Client \in Clients /\ Client[1] = thread.run /\ Client[2] = thread.at
      /\ Client[3] = thread.attempt
  BY <1>6 DEF Client, Clients
<1>8. Span(thread.samples, thread.plans[thread.at]) \in Samples
  BY <1>6 DEF Samples
<1>9. /\ new \in ModelCommands /\ new.client = Client
      /\ new.samples = Span(thread.samples, thread.plans[thread.at])
  <2>1. new \in ModelCommands
    BY <1>7, <1>8 DEF ModelCommands
  <2>2. QED BY <2>1 DEF Chunk
<1>10. ASSUME NEW cmd, cmd = new
       PROVE  CommandOfItsChunk(cmd)'
  <2>1. /\ cmd.client[1] = thread.run /\ cmd.client[2] = thread.at
        /\ cmd.client[3] = thread.attempt
        /\ cmd.samples = Span(thread.samples, thread.plans[thread.at])
    BY <1>7, <1>9, <1>10
  <2>2. Asked(cmd.client)'
    BY <1>3, <1>6, <2>1 DEF Asked
  <2>3. QED BY <1>1, <1>3, <1>6, <2>1, <2>2 DEF CommandOfItsChunk
<1>11. Onward
  <2>1. \A c : OfThisRun(c)' => OfThisRun(c)
    BY <1>1, <1>3 DEF OfThisRun
  <2>2. ASSUME NEW c \in Clients, Asked(c) PROVE Asked(c)'
    <3>1. c[3] \in Nat /\ thread.attempt \in Nat
      BY <1>6 DEF Clients
    <3>2. c[2] \in 1..thread.at /\ (c[2] = thread.at => c[3] < thread.attempt)
      BY <1>1, <2>2 DEF Asked
    <3>3. c[2] = thread.at => c[3] <= thread.attempt
      BY <3>1, <3>2
    <3>4. QED BY <1>3, <3>2, <3>3 DEF Asked
  <2>3. QED BY <1>1, <1>3, <2>1, <2>2 DEF Onward
<1> HIDE DEF new
<1>12. /\ queue' \in Seq(ModelCommands)
       /\ \A i \in DOMAIN queue' : queue'[i] = new \/ (i \in DOMAIN queue /\ queue'[i] = queue[i])
  BY <1>1, <1>9, AppendProperties, LenProperties DEF InFlight
<1>13. \A cmd \in ModelCommands \cup {Nothing} : CommandOfItsChunk(cmd) => CommandOfItsChunk(cmd)'
  BY <1>11, CommandKept
<1>14. \A r \in replies : AnswerOfItsChunk(r)'
  BY <1>11, AnswerKept DEF InFlight
<1>15. \A i \in DOMAIN queue' : \E cmd \in ModelCommands : queue'[i] = cmd /\ CommandOfItsChunk(cmd)'
  BY <1>9, <1>10, <1>12, <1>13, CommandsAre DEF InFlight
<1>16. InFlight'
  BY <1>1, <1>12, <1>13, <1>14, <1>15 DEF InFlight
<1>17. QED BY <1>4, <1>5, <1>16

(* The next chunk: of this one something of its own was heard, or it counts *)
(* as failed.                                                               *)
LEMMA NextChunkStep ==
  ASSUME RecoveryInv, thread.stage = "wait",
         NEW text, NEW failed \in {0, 1}, NextChunk(text, failed),
         \/ Said(text, thread.samples, thread.at, mute)
         \/ text = <<>> /\ failed = 1,
         UNCHANGED <<RECOVERY_RUNNING, diskFrame, asks, live, mute, faults>>,
         UNCHANGED <<queue, serving>>, replies' \subseteq replies
  PROVE  RecoveryInv'
<1> USE DEF RecoveryInv
<1>1. /\ thread \in Threads /\ thread.at \in Nat /\ thread.at > 0 /\ thread.samples \in Recordings
      /\ Len(thread.heard) = thread.at - 1 /\ thread.plans = PlanChunks(thread.samples)
      /\ thread.heard \in Seq(Heardable) /\ thread.failed \in Nat
      /\ thread.run <= asks /\ thread.run > 0 /\ RECOVERY_RUNNING
  BY DEF ThreadShape, Threads
<1>2. text \in Heardable
  BY <1>1 DEF Said, Heardable
<1>3. /\ Append(thread.heard, text) \in Seq(Heardable)
      /\ Len(Append(thread.heard, text)) = thread.at
      /\ DOMAIN Append(thread.heard, text) = 1..thread.at
      /\ \A i \in DOMAIN thread.heard :
           Append(thread.heard, text)[i] = thread.heard[i]
      /\ Append(thread.heard, text)[thread.at] = text
      /\ DOMAIN thread.heard = 1 .. thread.at - 1
  BY <1>1, <1>2, AppendProperties, LenProperties
<1>4. /\ "send" \in RecoveryStages /\ thread.at + 1 \in Nat /\ thread.failed + failed \in Nat
  BY <1>1 DEF RecoveryStages
<1> DEFINE heard == Append(thread.heard, text)
<1>5. thread' = [thread EXCEPT !.stage = "send", !.at = thread.at + 1, !.attempt = 0,
                              !.heard = heard, !.failed = thread.failed + failed]
  BY <1>1 DEF NextChunk, Threads
<1> HIDE DEF heard
<1>6. heard \in Seq(Heardable)
  BY <1>3 DEF heard
<1>7. /\ thread' \in Threads /\ thread'.stage = "send" /\ thread'.samples = thread.samples
      /\ thread'.plans = thread.plans /\ thread'.at = thread.at + 1 /\ thread'.run = thread.run
      /\ thread'.attempt = 0 /\ thread'.heard = heard /\ thread'.failed = thread.failed + failed
  BY <1>1, <1>4, <1>5, <1>6 DEF Threads
<1>8. UNCHANGED <<last_wav, tmp, saves>>
  BY DEF diskFrame
<1>9. Len(heard) = thread'.at - 1 /\ thread'.at > 0
  BY <1>1, <1>3, <1>7 DEF heard
<1>10. ThreadShape'
  BY <1>1, <1>7, <1>8, <1>9 DEF ThreadShape
<1>11. HeardIsItsOwn'
  <2>1. SUFFICES ASSUME NEW i \in DOMAIN heard
                 PROVE  \/ Said(heard[i], thread.samples, i, mute)
                        \/ heard[i] = <<>> /\ thread'.failed > 0
    BY <1>7 DEF HeardIsItsOwn
  <2>2. CASE i \in DOMAIN thread.heard
    <3>1. heard[i] = thread.heard[i]
      BY <2>2, <1>3 DEF heard
    <3>2. thread.failed > 0 => thread'.failed > 0
      BY <1>1, <1>7
    <3>3. QED BY <2>2, <3>1, <3>2 DEF HeardIsItsOwn
  <2>3. CASE i = thread.at
    <3>1. heard[i] = text
      BY <2>3, <1>3 DEF heard
    <3>2. failed = 1 => thread'.failed > 0
      BY <1>1, <1>7
    <3>3. QED BY <2>3, <3>1, <3>2
  <2>4. i \in DOMAIN thread.heard \/ i = thread.at
    BY <2>1, <1>1, <1>3 DEF heard
  <2>5. QED BY <2>2, <2>3, <2>4
<1>12. Onward
  BY <1>1, <1>7 DEF Onward, OfThisRun, Asked, Clients
<1>13. InFlight'
  BY <1>12, CommandsAre, CommandKept, AnswerKept DEF InFlight
<1>14. QED BY <1>10, <1>11, <1>13

LEMMA TryAgainStep ==
  ASSUME RecoveryInv, thread.stage = "wait", TryAgain,
         UNCHANGED <<RECOVERY_RUNNING, diskFrame, asks, live, mute, faults>>,
         UNCHANGED <<queue, serving>>, replies' \subseteq replies
  PROVE  RecoveryInv'
<1>1. CASE thread.attempt # 0
  BY <1>1, NextChunkStep DEF TryAgain
<1>2. CASE thread.attempt = 0
  <2> USE DEF RecoveryInv
  <2>1. thread \in Threads /\ "send" \in RecoveryStages
        /\ thread' = [thread EXCEPT !.stage = "send", !.attempt = 1]
    BY <1>2 DEF TryAgain, ThreadShape, RecoveryStages
  <2>2. /\ thread' \in Threads /\ thread'.stage = "send" /\ thread'.samples = thread.samples
        /\ thread'.plans = thread.plans /\ thread'.at = thread.at /\ thread'.run = thread.run
        /\ thread'.attempt = 1
        /\ thread'.heard = thread.heard /\ thread'.failed = thread.failed
    BY <2>1 DEF Threads
  <2>3. UNCHANGED <<last_wav, tmp, saves>>
    BY DEF diskFrame
  <2>4. ThreadShape' /\ HeardIsItsOwn'
    BY <2>2, <2>3 DEF ThreadShape, HeardIsItsOwn
  <2>5. Onward
    BY <1>2, <2>1, <2>2 DEF Onward, OfThisRun, Asked, Clients
  <2>6. InFlight'
    BY <2>5, CommandsAre, CommandKept, AnswerKept DEF InFlight
  <2>7. QED BY <2>4, <2>6
<1>3. QED BY <1>1, <1>2

(* An answer taken is of this attempt's channel: of the chunk waited for.   *)
LEMMA AnswersStep ==
  ASSUME RecoveryInv, RecoveryHeard \/ RecoveryErred \/ RecoveryTimesOut
  PROVE  RecoveryInv'
<1>1. CASE RecoveryHeard
  <2>1. PICK r \in replies :
          /\ thread.stage = "wait" /\ r.client = Client /\ r.result \in {"text", "empty"}
          /\ NextChunk(r.text, 0) /\ replies' = replies \ {r}
          /\ UNCHANGED <<RECOVERY_RUNNING, diskFrame, asks, live, mute, faults>>
          /\ UNCHANGED <<queue, serving>>
    BY <1>1 DEF RecoveryHeard, Answers
  <2>2. r.client[1] = thread.run /\ r.client[2] = thread.at
    BY <2>1 DEF Client
  <2>3. Said(r.text, thread.samples, thread.at, mute)
    BY <2>1, <2>2 DEF RecoveryInv, InFlight, AnswerOfItsChunk, OfThisRun
  <2>4. QED BY <2>1, <2>3, NextChunkStep
<1>2. CASE RecoveryErred
  BY <1>2, TryAgainStep DEF RecoveryErred, Answers
<1>3. CASE RecoveryTimesOut
  BY <1>3, TryAgainStep DEF RecoveryTimesOut, managerVars
<1>4. QED BY <1>1, <1>2, <1>3

(* Live dictation's chunks are of no run.                                   *)
LEMMA LiveStep ==
  ASSUME RecoveryInv, LiveChunk
  PROVE  RecoveryInv'
<1> USE DEF RecoveryInv
<1> DEFINE new == Chunk(LiveClient, <<Quiet>>)
<1>1. /\ live' \in 0..MaxLive /\ queue' = Append(queue, new)
      /\ UNCHANGED <<RECOVERY_RUNNING, thread, diskFrame, asks, mute, serving, replies, faults>>
  BY RecoveryAssumption DEF LiveChunk, ThreadShape
<1>2. UNCHANGED <<last_wav, tmp, saves>>
  BY <1>1 DEF diskFrame
<1>3. ThreadShape' /\ HeardIsItsOwn'
  BY <1>1, <1>2 DEF ThreadShape, HeardIsItsOwn
<1>4. LiveClient \in Clients /\ LiveClient[1] = 0 /\ <<Quiet>> \in Samples
  BY DEF LiveClient, Clients, Samples
<1>5. new \in ModelCommands /\ new.client[1] = 0
  BY <1>4 DEF ModelCommands, Chunk
<1> HIDE DEF new
<1>6. asks \in Nat /\ (thread.stage # "off" => thread.run > 0) /\ thread.run \in Nat
  BY DEF ThreadShape, Threads
<1>7. ASSUME NEW cmd, cmd = new
      PROVE  CommandOfItsChunk(cmd)'
  BY <1>1, <1>5, <1>6, <1>7 DEF CommandOfItsChunk, OfThisRun
<1>8. Onward
  BY <1>1 DEF Onward, OfThisRun, Asked
<1>9. /\ queue' \in Seq(ModelCommands)
      /\ \A i \in DOMAIN queue' : queue'[i] = new \/ (i \in DOMAIN queue /\ queue'[i] = queue[i])
  BY <1>1, <1>5, AppendProperties, LenProperties DEF InFlight
<1>10. \A cmd \in ModelCommands \cup {Nothing} : CommandOfItsChunk(cmd) => CommandOfItsChunk(cmd)'
  BY <1>8, CommandKept
<1>11. \A r \in replies : AnswerOfItsChunk(r)'
  BY <1>8, AnswerKept DEF InFlight
<1>12. \A i \in DOMAIN queue' : \E cmd \in ModelCommands : queue'[i] = cmd /\ CommandOfItsChunk(cmd)'
  BY <1>5, <1>7, <1>9, <1>10, CommandsAre DEF InFlight
<1>13. InFlight'
  BY <1>1, <1>9, <1>10, <1>11, <1>12 DEF InFlight
<1>14. QED BY <1>3, <1>13

(* What the manager answers to a command of a chunk is of that chunk: its   *)
(* words, or nothing and they are remembered as unheard.                    *)
LEMMA AnsweredIsOfItsChunk ==
  ASSUME InFlight, ThreadShape, Onward, UNCHANGED thread,
         NEW cmd \in ModelCommands, cmd.kind = "TranscribeChunk", CommandOfItsChunk(cmd),
         NEW result, NEW text,
         result \in {"text", "empty"} =>
           \/ text = Words(cmd.samples)
           \/ text = <<>> /\ ToSet(Words(cmd.samples)) \subseteq mute',
         NEW r, r = Answered(cmd, result, text)
  PROVE  AnswerOfItsChunk(r)'
<1>1. cmd.client \in Clients /\ CommandOfItsChunk(cmd)'
  BY CommandsAre, CommandKept
<1>2. r.client = cmd.client /\ r.result = result /\ r.text = text
  BY DEF Answered
<1>3. r.client \in Clients /\ r.client[1] <= asks'
  BY <1>1, <1>2 DEF CommandOfItsChunk
<1>4. ASSUME OfThisRun(r.client)'
      PROVE  /\ Asked(r.client)'
             /\ r.result \in {"text", "empty"} => Said(r.text, thread'.samples, r.client[2], mute')
  <2>1. /\ Asked(cmd.client)'
        /\ cmd.samples = Span(thread'.samples, thread'.plans[cmd.client[2]])
    BY <1>1, <1>2, <1>4 DEF CommandOfItsChunk
  <2>2. thread'.plans = PlanChunks(thread'.samples)
    BY <2>1 DEF Asked, ThreadShape
  <2>3. ChunkWords(thread'.samples, cmd.client[2]) = Words(cmd.samples)
    BY <2>1, <2>2 DEF ChunkWords
  <2>4. QED BY <1>2, <2>1, <2>3 DEF Said
<1>5. QED BY <1>3, <1>4 DEF AnswerOfItsChunk

(* What the manager does leaves the thread and its files alone.             *)
LEMMA EngineFrame ==
  ASSUME RecoveryInv, UNCHANGED restFrame, mute \subseteq mute', faults' \in 0..MaxFaults
  PROVE  ThreadShape' /\ HeardIsItsOwn' /\ Onward /\ UNCHANGED thread
<1>1. UNCHANGED <<last_wav, tmp, RECOVERY_RUNNING, thread, asks, saves, live, reported>>
  BY DEF restFrame
<1>2. ThreadShape'
  BY <1>1 DEF RecoveryInv, ThreadShape
<1>3. HeardIsItsOwn'
  BY <1>1 DEF RecoveryInv, HeardIsItsOwn, Said
<1>4. Onward
  BY <1>1 DEF Onward, OfThisRun, Asked
<1>5. QED BY <1>1, <1>2, <1>3, <1>4

LEMMA TakeStep ==
  ASSUME RecoveryInv, TakeCommand, UNCHANGED <<restFrame, mute>>
  PROVE  RecoveryInv'
<1> USE DEF RecoveryInv
<1>1. /\ queue # <<>> /\ queue' = Tail(queue) /\ serving' \in {Nothing, Head(queue)}
      /\ UNCHANGED <<replies, faults>>
  BY DEF TakeCommand
<1>2. faults' \in 0..MaxFaults
  BY <1>1 DEF ThreadShape
<1>3. ThreadShape' /\ HeardIsItsOwn' /\ Onward
  BY <1>2, EngineFrame
<1>4. /\ queue' \in Seq(ModelCommands) /\ Head(queue) \in ModelCommands /\ Head(queue) = queue[1]
      /\ 1 \in DOMAIN queue
      /\ \A i \in DOMAIN queue' : i + 1 \in DOMAIN queue /\ queue'[i] = queue[i + 1]
  BY <1>1, HeadTailProperties, LenProperties DEF InFlight
<1>5. \A cmd \in ModelCommands \cup {Nothing} : CommandOfItsChunk(cmd) => CommandOfItsChunk(cmd)'
  BY <1>3, CommandKept
<1>6. \A r \in replies : AnswerOfItsChunk(r)'
  BY <1>3, AnswerKept DEF InFlight
<1>7. \A i \in DOMAIN queue' : \E cmd \in ModelCommands : queue'[i] = cmd /\ CommandOfItsChunk(cmd)'
  BY <1>4, <1>5, CommandsAre DEF InFlight
<1>8. CommandOfItsChunk(Nothing)
  BY DEF CommandOfItsChunk, Nothing
<1>9. \E cmd \in ModelCommands \cup {Nothing} : serving' = cmd /\ CommandOfItsChunk(cmd)'
  BY <1>1, <1>4, <1>5, <1>8 DEF InFlight
<1>10. InFlight'
  BY <1>1, <1>4, <1>6, <1>7, <1>9 DEF InFlight
<1>11. QED BY <1>3, <1>10

(* The command in hand is done with, or still in hand; those queued stay,   *)
(* or are dropped; new answers are of the chunks they are for.              *)
LEMMA ServedStep ==
  ASSUME RecoveryInv, UNCHANGED restFrame, mute \subseteq mute', faults' \in 0..MaxFaults,
         serving' \in {Nothing, serving}, queue' \in {queue, <<>>},
         \A r \in replies' : r \in replies \/ AnswerOfItsChunk(r)'
  PROVE  RecoveryInv'
<1> USE DEF RecoveryInv
<1>1. ThreadShape' /\ HeardIsItsOwn' /\ Onward
  BY EngineFrame
<1>2. \A cmd \in ModelCommands \cup {Nothing} : CommandOfItsChunk(cmd) => CommandOfItsChunk(cmd)'
  BY <1>1, CommandKept
<1>3. \A r \in replies' : AnswerOfItsChunk(r)'
  BY <1>1, AnswerKept DEF InFlight
<1>4. CommandOfItsChunk(Nothing)
  BY DEF CommandOfItsChunk, Nothing
<1>5. \E cmd \in ModelCommands \cup {Nothing} : serving' = cmd /\ CommandOfItsChunk(cmd)'
  BY <1>2, <1>4 DEF InFlight
<1>6. /\ queue' \in Seq(ModelCommands)
      /\ \A i \in DOMAIN queue' : \E cmd \in ModelCommands : queue'[i] = cmd /\ CommandOfItsChunk(cmd)'
  <2>1. CASE queue' = queue
    BY <2>1, <1>2, CommandsAre DEF InFlight
  <2>2. CASE queue' = <<>>
    BY <2>2, EmptySeq
  <2>3. QED BY <2>1, <2>2
<1>7. InFlight'
  BY <1>3, <1>5, <1>6 DEF InFlight
<1>8. QED BY <1>1, <1>7

LEMMA LoadsStep ==
  ASSUME RecoveryInv, LoadSucceeds \/ LoadFails \/ LoadPanics, UNCHANGED <<restFrame, mute>>
  PROVE  RecoveryInv'
<1> USE DEF RecoveryInv
<1>1. serving # Nothing /\ serving \in ModelCommands
  BY DEF LoadSucceeds, LoadFails, LoadPanics, Loading, InFlight
<1>2. \A cmd \in ModelCommands : cmd # Warmup => cmd.kind = "TranscribeChunk"
  BY DEF ModelCommands, Chunk
<1>3. CASE LoadSucceeds
  <2>1. serving' \in {Nothing, serving} /\ UNCHANGED <<queue, replies, faults>>
    BY <1>3 DEF LoadSucceeds
  <2>2. faults' \in 0..MaxFaults
    BY <2>1 DEF ThreadShape
  <2>3. QED BY <2>1, <2>2, ServedStep
<1>4. ASSUME faults' \in 0..MaxFaults
      PROVE  ThreadShape /\ InFlight /\ Onward /\ UNCHANGED thread
  BY <1>4, EngineFrame
<1>5. ASSUME Fails PROVE faults' \in 0..MaxFaults
  BY <1>5, ManagerAssumption DEF Fails, ThreadShape
<1>6. CASE LoadFails
  <2>1. /\ serving' = Nothing /\ UNCHANGED queue /\ faults' \in 0..MaxFaults
        /\ \/ UNCHANGED replies
           \/ serving # Warmup /\ replies' = replies \cup {Answered(serving, "err", <<>>)}
    BY <1>5, <1>6 DEF LoadFails, Reply
  <2>2. ASSUME NEW r, serving # Warmup, r = Answered(serving, "err", <<>>)
        PROVE  AnswerOfItsChunk(r)'
    <3>1. serving.kind = "TranscribeChunk" /\ CommandOfItsChunk(serving)
      BY <1>1, <1>2, <2>2 DEF InFlight
    <3>2. "err" \notin {"text", "empty"}
      OBVIOUS
    <3>3. QED BY <1>1, <1>4, <2>1, <2>2, <3>1, <3>2, AnsweredIsOfItsChunk
  <2>3. QED BY <2>1, <2>2, ServedStep
<1>7. CASE LoadPanics
  <2> DEFINE lost == {serving} \cup {queue[i] : i \in DOMAIN queue}
  <2>1. /\ serving' = Nothing /\ queue' = <<>> /\ faults' \in 0..MaxFaults
        /\ replies' = replies \cup {Answered(c, "hungup", <<>>) : c \in lost \ {Warmup}}
    BY <1>5, <1>7 DEF LoadPanics
  <2>2. \A c \in lost : c \in ModelCommands /\ CommandOfItsChunk(c)
    BY <1>1, CommandsAre DEF InFlight
  <2>3. ASSUME NEW c \in lost, c # Warmup, NEW r, r = Answered(c, "hungup", <<>>)
        PROVE  AnswerOfItsChunk(r)'
    <3>1. c \in ModelCommands /\ c.kind = "TranscribeChunk" /\ CommandOfItsChunk(c)
      BY <1>2, <2>2, <2>3
    <3>2. "hungup" \notin {"text", "empty"}
      OBVIOUS
    <3>3. QED BY <1>4, <2>1, <2>3, <3>1, <3>2, AnsweredIsOfItsChunk
  <2>4. \A r \in replies' : r \in replies \/ AnswerOfItsChunk(r)'
    BY <2>1, <2>3
  <2>5. QED BY <2>1, <2>4, ServedStep
<1>8. QED BY <1>3, <1>6, <1>7

(* An answer of the engine: the chunk's words, an error, or nothing where   *)
(* there were words, which is remembered.                                   *)
LEMMA InferenceStep ==
  ASSUME RecoveryInv, UNCHANGED restFrame, mute \subseteq mute', faults' \in 0..MaxFaults,
         Transcribing, NEW result, NEW text, Reply(serving, result, text),
         serving' = Nothing, UNCHANGED queue,
         result \in {"text", "empty"} =>
           \/ text = Words(serving.samples)
           \/ text = <<>> /\ ToSet(Words(serving.samples)) \subseteq mute'
  PROVE  RecoveryInv'
<1>1. InFlight /\ ThreadShape /\ Onward /\ UNCHANGED thread
  BY EngineFrame DEF RecoveryInv
<1>2. serving \in ModelCommands /\ serving.kind = "TranscribeChunk" /\ CommandOfItsChunk(serving)
  BY <1>1 DEF Transcribing, Serving, InFlight, Nothing
<1>3. ASSUME NEW r, r = Answered(serving, result, text)
      PROVE  AnswerOfItsChunk(r)'
  BY <1>1, <1>2, <1>3, AnsweredIsOfItsChunk
<1>4. replies' = replies \cup {Answered(serving, result, text)}
  BY DEF Reply
<1>5. QED BY <1>3, <1>4, ServedStep

LEMMA EngineStep ==
  ASSUME RecoveryInv, RecoveryEngine
  PROVE  RecoveryInv'
<1>1. ASSUME Fails PROVE faults' \in 0..MaxFaults
  BY <1>1, ManagerAssumption DEF Fails, RecoveryInv, ThreadShape
<1>2. CASE InferencePanics /\ UNCHANGED <<restFrame, mute>>
  BY <1>1, <1>2, InferenceStep DEF InferencePanics
<1>3. ASSUME UNCHANGED <<faults, restFrame, mute>>,
             Transcribed(IF Words(serving.samples) = <<>> THEN "empty" ELSE "text",
                         Words(serving.samples))
      PROVE  RecoveryInv'
  <2>1. faults' \in 0..MaxFaults
    BY <1>3 DEF RecoveryInv, ThreadShape
  <2>2. QED BY <1>3, <2>1, InferenceStep DEF Transcribed
<1>4. CASE Fails /\ Transcribed("err", <<>>) /\ UNCHANGED <<restFrame, mute>>
  BY <1>1, <1>4, InferenceStep DEF Transcribed
<1>5. CASE /\ Fails /\ Transcribed("empty", <<>>)
           /\ mute' = mute \cup ToSet(Words(serving.samples)) /\ UNCHANGED restFrame
  BY <1>1, <1>5, InferenceStep DEF Transcribed
<1>6. QED BY <1>2, <1>3, <1>4, <1>5, TakeStep, LoadsStep DEF RecoveryEngine

(* Only files survive the process.                                          *)
LEMMA RestartStep ==
  ASSUME RecoveryInv, Restart
  PROVE  RecoveryInv'
<1> USE DEF RecoveryInv
<1>1. /\ RECOVERY_RUNNING' = FALSE /\ thread' = NoThread /\ tmp' = <<>> /\ queue' = <<>>
      /\ serving' = Nothing /\ replies' = {} /\ UNCHANGED <<last_wav, saves, asks, live, mute>>
      /\ faults' \in 0..MaxFaults
  BY ManagerAssumption DEF Restart, Fails, ThreadShape
<1>2. 0 <= asks
  BY RecoveryAssumption DEF ThreadShape
<1>3. ThreadShape'
  BY <1>1, <1>2, NoThreadIs DEF ThreadShape
<1>4. HeardIsItsOwn'
  BY <1>1, NoThreadIs DEF HeardIsItsOwn
<1>5. InFlight'
  BY <1>1, EmptySeq DEF InFlight, CommandOfItsChunk, Nothing
<1>6. QED BY <1>3, <1>4, <1>5

LEMMA RecoveryStep ==
  ASSUME RecoveryInv, [RecoveryNext]_recoveryVars
  PROVE  RecoveryInv'
BY DiskStep, RecoverStep, ReportsStep, ReadStep, SendStep, AnswersStep, LiveStep, EngineStep,
   RestartStep, RecoveryStands DEF RecoveryNext, RecoveryRuns

-----------------------------------------------------------------------------
(* What chunking does for the recordings.                                   *)

LEMMA PlansEnd ==
  ASSUME RecordingsSayEachWordOnce
  PROVE  RecordingsArePlanned
<1> SUFFICES ASSUME NEW audio \in Recordings PROVE Len(PlanChunks(audio)) \in Nat
  BY DEF RecordingsArePlanned
<1>1. Len(audio) \in Nat
  BY LenProperties DEF RecordingsSayEachWordOnce
<1>2. CASE Len(audio) > 0
  <2>1. Planned(audio, 0, FALSE, PlanChunks(audio))
    BY <1>1, <1>2, PlanChunksPlans
  <2>2. PlanChunks(audio) \in Seq(PlanRecords)
    BY <2>1 DEF Planned
  <2>3. QED BY <2>2, LenProperties
<1>3. CASE Len(audio) = 0
  <2>1. PlanChunks(audio) = <<>>
    BY <1>1, <1>3, PlanChunksPlans
  <2>2. QED BY <2>1
<1>4. QED BY <1>1, <1>2, <1>3

LEMMA ChunksAssembleWhole ==
  ASSUME RecordingsSayEachWordOnce, 2 * Overlap <= SinglePassMax, Overlap <= SeamWords
  PROVE  AssemblingIsWhole
<1> SUFFICES ASSUME NEW audio \in Recordings, NEW heard \in Seq(Heardable), NEW words,
                    AllHeard(audio, heard, words)
             PROVE  Without(Assemble(PlanChunks(audio), heard), words)
                      = Without(Words(audio), words)
  BY DEF AssemblingIsWhole
<1> DEFINE plans == PlanChunks(audio)
<1>1. audio \in Seq(Nat) /\ Distinct(audio) /\ Len(audio) \in Nat
  BY LenProperties DEF RecordingsSayEachWordOnce
<1>2. /\ Len(heard) = Len(plans) /\ Len(plans) \in Nat /\ DOMAIN heard = 1..Len(plans)
      /\ heard = [i \in 1..Len(plans) |-> heard[i]]
  BY LenProperties DEF AllHeard
<1>3. \A i \in 1..Len(plans) :
        \/ heard[i] = Words(Span(audio, plans[i]))
        \/ heard[i] = <<>> /\ ToSet(Words(Span(audio, plans[i]))) \subseteq words
  BY <1>2 DEF AllHeard, Said, ChunkWords
<1>4. \A i \in 1..Len(plans) : heard[i] \in Seq(Nat)
  <2> SUFFICES ASSUME NEW i \in 1..Len(plans) PROVE heard[i] \in Seq(Nat)
    OBVIOUS
  <2>1. plans # <<>>
    BY <1>2
  <2>2. Len(audio) > 0
    <3>1. Len(audio) = 0 => plans = <<>>
      BY <1>1, PlanChunksPlans
    <3>2. QED BY <1>1, <2>1, <3>1
  <2>3. Planned(audio, 0, FALSE, plans)
    BY <1>1, <2>2, PlanChunksPlans
  <2>4. i \in 1..Len(plans)
    OBVIOUS
  <2> HIDE DEF plans
  <2>5. plans[i] \in PlanRecords /\ End(plans[i]) <= Len(audio)
    BY <1>1, <2>3, <2>4, PlannedWithin
  <2>6. QED BY <1>1, <1>3, <2>5, ChunkSays
<1>5. heard \in [1..Len(plans) -> Seq(Nat)]
  BY <1>2, <1>4
<1>6. QED BY <1>1, <1>3, <1>5, BatchIsWhole

-----------------------------------------------------------------------------
(* What a recovery reports.                                                 *)

LEMMA AssembledStarts == RecoveryInit => AssembledInv
<1> SUFFICES ASSUME RecoveryInit PROVE AssembledInv
  OBVIOUS
<1>1. WithinPlan
  BY NoThreadIs DEF RecoveryInit, WithinPlan
<1>2. RecoveredIsAssembled
  BY DEF RecoveryInit, RecoveredIsAssembled, Nothing_said
<1>3. QED BY <1>1, <1>2, RecoveryStarts DEF AssembledInv

(* A report stands while more words turn out to be unheard.                 *)
LEMMA ReportStands ==
  ASSUME RecoveredIsAssembled, UNCHANGED reported, mute \subseteq mute'
  PROVE  RecoveredIsAssembled'
BY DEF RecoveredIsAssembled, AllHeard, Said

(* The thread reports when every chunk of the plan has been heard or has    *)
(* failed.                                                                  *)
LEMMA RecoveredReports ==
  ASSUME RecordingsArePlanned, AssembledInv, Recovered
  PROVE  RecoveredIsAssembled'
<1> USE DEF AssembledInv
<1> DEFINE text == Assemble(thread.plans, thread.heard)
<1>1. /\ thread.stage = "send" /\ thread.at > Len(thread.plans)
      /\ reported' = [kind |-> IF text = <<>> THEN "no-speech" ELSE "recovered",
                      samples |-> thread.samples, text |-> text, failed |-> thread.failed]
      /\ UNCHANGED mute
  BY DEF Recovered, Report
<1>2. /\ thread.samples \in Recordings /\ thread.plans = PlanChunks(thread.samples)
      /\ thread.heard \in Seq(Heardable) /\ Len(thread.heard) = thread.at - 1
      /\ thread.at \in Nat
  BY <1>1 DEF RecoveryInv, ThreadShape, Threads
<1>3. Len(PlanChunks(thread.samples)) \in Nat
  BY <1>2 DEF RecordingsArePlanned
<1>4. Len(thread.heard) = Len(PlanChunks(thread.samples))
  BY <1>1, <1>2, <1>3 DEF WithinPlan
<1>5. /\ reported'.samples = thread.samples /\ reported'.failed = thread.failed
      /\ reported'.text = Assemble(PlanChunks(thread.samples), thread.heard)
  BY <1>1, <1>2
<1>6. ASSUME thread.failed = 0
      PROVE  AllHeard(thread.samples, thread.heard, mute)
  BY <1>4, <1>6 DEF AllHeard, RecoveryInv, HeardIsItsOwn
<1>7. SUFFICES ASSUME thread.failed = 0
               PROVE  /\ thread.samples \in Recordings
                      /\ \E heard \in Seq(Heardable) :
                           /\ AllHeard(thread.samples, heard, mute)
                           /\ reported'.text = Assemble(PlanChunks(thread.samples), heard)
  BY <1>1, <1>5 DEF RecoveredIsAssembled, AllHeard, Said
<1>8. QED BY <1>2, <1>5, <1>6, <1>7

LEMMA AssembledStep ==
  ASSUME RecordingsArePlanned, AssembledInv, [RecoveryNext]_recoveryVars
  PROVE  AssembledInv'
<1> USE DEF AssembledInv
<1>1. RecoveryInv'
  BY RecoveryStep
<1>2. /\ thread \in Threads /\ last_wav \in Recordings \cup {<<>>}
      /\ thread.stage = "wait" => thread.at <= Len(thread.plans)
      /\ thread.stage = "wait" =>
           thread.samples \in Recordings /\ thread.plans = PlanChunks(thread.samples)
  BY DEF RecoveryInv, ThreadShape
<1>3. CASE UNCHANGED <<thread, reported>> /\ mute \subseteq mute'
  BY <1>1, <1>3, ReportStands DEF WithinPlan
<1>4. CASE WriteTmp \/ RenameTmp \/ WriteFails \/ LiveChunk \/ RecoveryEngine \/ UNCHANGED recoveryVars
  BY <1>3, <1>4 DEF WriteTmp, RenameTmp, WriteFails, LiveChunk, RecoveryEngine, restFrame,
                    recoveryVars
<1>5. CASE Recover
  <2>1. /\ UNCHANGED <<reported, mute>>
        /\ \/ UNCHANGED thread
           \/ thread' = [NoThread EXCEPT !.stage = "read", !.run = asks']
    BY <1>5 DEF Recover
  <2>2. thread' # thread => thread'.stage = "read"
    BY <2>1, NoThreadIs DEF NoThread
  <2>3. WithinPlan'
    BY <2>2 DEF WithinPlan
  <2>4. QED BY <1>1, <2>1, <2>3, ReportStands
<1>6. CASE NoRecording \/ NotRunning \/ RecoveryPanics \/ Restart
  <2>1. thread' = NoThread /\ reported'.kind # "recovered"
    BY <1>6 DEF NoRecording, NotRunning, RecoveryPanics, Restart, Report, Nothing_said
  <2>2. WithinPlan'
    BY <2>1, NoThreadIs DEF WithinPlan
  <2>3. QED BY <1>1, <2>1, <2>2 DEF RecoveredIsAssembled
<1>7. CASE Recovered
  <2>1. thread' = NoThread
    BY <1>7 DEF Recovered, Report
  <2>2. WithinPlan'
    BY <2>1, NoThreadIs DEF WithinPlan
  <2>3. QED BY <1>1, <1>7, <2>2, RecoveredReports
<1>8. CASE ReadRecording
  <2>1. /\ thread' = [thread EXCEPT !.stage = "send", !.samples = last_wav,
                                    !.plans = PlanChunks(last_wav), !.at = 1]
        /\ last_wav \in Recordings /\ UNCHANGED <<reported, mute>>
    BY <1>2, <1>8 DEF ReadRecording
  <2>2. thread'.at = 1 /\ thread'.plans = PlanChunks(last_wav)
    BY <1>2, <2>1 DEF Threads
  <2>3. WithinPlan'
    BY <2>1, <2>2 DEF WithinPlan, RecordingsArePlanned
  <2>4. QED BY <1>1, <2>1, <2>3, ReportStands
<1>9. CASE SendRecoveryChunk
  <2>1. /\ thread.stage = "send" /\ thread' = [thread EXCEPT !.stage = "wait"]
        /\ UNCHANGED <<reported, mute>>
    BY <1>9 DEF SendRecoveryChunk
  <2>2. thread'.at = thread.at /\ thread'.plans = thread.plans
    BY <1>2, <2>1 DEF Threads
  <2>3. WithinPlan'
    BY <2>1, <2>2 DEF WithinPlan
  <2>4. QED BY <1>1, <2>1, <2>3, ReportStands
<1>10. CASE RecoveryHeard \/ RecoveryErred \/ RecoveryTimesOut
  <2>1. /\ thread.stage = "wait" /\ UNCHANGED <<reported, mute>>
        /\ \/ \E text, failed : NextChunk(text, failed)
           \/ thread' = [thread EXCEPT !.stage = "send", !.attempt = 1]
    BY <1>10 DEF RecoveryHeard, RecoveryErred, RecoveryTimesOut, TryAgain, Answers
  <2>2. thread'.at \in {thread.at, thread.at + 1} /\ thread'.plans = thread.plans
    BY <1>2, <2>1 DEF NextChunk, Threads
  <2>3. Len(thread.plans) \in Nat /\ thread.at \in Nat /\ thread.at <= Len(thread.plans)
    BY <1>2, <2>1 DEF RecordingsArePlanned, Threads
  <2>4. thread'.at <= Len(thread'.plans) + 1
    BY <2>2, <2>3
  <2>5. QED BY <1>1, <2>1, <2>4, ReportStands DEF WithinPlan
<1>11. QED
  BY <1>4, <1>5, <1>6, <1>7, <1>8, <1>9, <1>10 DEF RecoveryNext, RecoveryRuns

-----------------------------------------------------------------------------
(* The desk: a behaviour is one of one part, the others at rest.            *)

LEMMA Focused ==
  ASSUME [OfClipboard \/ OfRecovery \/ OfCleanup]_deskVars
  PROVE  [ClipNext]_clipVars /\ [RecoveryNext]_recoveryVars /\ [CleanupNext]_cleanupVars
BY DEF OfClipboard, OfRecovery, OfCleanup, deskVars

(* The parts' invariants that need nothing of the texts and the recordings. *)
DeskInv == ClipInv /\ RecoveryInv /\ OrphanInv

LEMMA DeskInvariant == DeskSafety => []DeskInv
<1>1. DeskInit => DeskInv
  BY ClipStarts, RecoveryStarts, OrphanStarts DEF DeskInit, DeskInv
<1>2. DeskInv /\ [OfClipboard \/ OfRecovery \/ OfCleanup]_deskVars => DeskInv'
  BY Focused, ClipStep, RecoveryStep, OrphanStep DEF DeskInv
<1>3. QED BY <1>1, <1>2, PTL DEF DeskSafety

(* What each variable of the paste pipeline, the recovery and the clean-up  *)
(* manager holds (insert.rs, recovery.rs, cleanup_manager.rs).              *)
THEOREM DeskTypes == DeskSpec => []DeskTypeOK
<1>1. DeskInv => DeskTypeOK
  <2> SUFFICES ASSUME DeskInv PROVE DeskTypeOK
    OBVIOUS
  <2>1. ClipTypeOK
    BY DEF DeskInv, ClipInv, PasteShape, ClipTypeOK
  <2>2. RecoveryTypeOK
    BY DEF DeskInv, RecoveryInv, ThreadShape, Threads, RecoveryTypeOK
  <2>3. CleanupTypeOK
    BY DEF DeskInv, OrphanInv, ManagerShape, WorkerShape, ClientsShape, CleanupTypeOK
  <2>4. QED BY <2>1, <2>2, <2>3 DEF DeskTypeOK
<1>2. QED BY <1>1, DeskInvariant, PTL DEF DeskSpec

(* However many pastes, restore threads and copies interleave, what the     *)
(* user copied last is on the clipboard or held by who will put it back,    *)
(* save where a transcript replaced it or a copy raced a look and a write   *)
(* (paste_text and its restore thread, insert.rs).                          *)
THEOREM CopiesAreHeld == DeskSpec => []UserContentIsHeld
<1>1. ClipInv => UserContentIsHeld
  BY DEF ClipInv, Borrowed, Returns, PasteHolds, At, UserContentIsHeld, Held
<1>2. DeskInv => UserContentIsHeld
  BY <1>1 DEF DeskInv
<1>3. QED BY <1>2, DeskInvariant, PTL DEF DeskSpec

(* However many requests are queued, and wherever a deadline or a panic     *)
(* falls: a generation runs only while the manager waits for it, for the    *)
(* command in hand and with the model loaded (cleanup_manager.rs).          *)
THEOREM GenerationsAreJoined == DeskSpec => []NoOrphanGeneration
<1>1. DeskInv => NoOrphanGeneration
  BY DEF DeskInv, OrphanInv
<1>2. QED BY <1>1, DeskInvariant, PTL DEF DeskSpec

(* A cleaned transcript is the raw words or an uncut generation, of the     *)
(* request it answers, and a request is answered once, by its waiter's      *)
(* timeout or by the manager (cleanup_manager.rs, run_pipeline).            *)
THEOREM CleanedOnceAndWhole == DeskSpec => []CleanedIsWhole
<1>1. DeskInit => CleanedInv
  BY CleanedStarts DEF DeskInit
<1>2. CleanedInv /\ [OfClipboard \/ OfRecovery \/ OfCleanup]_deskVars => CleanedInv'
  BY EveryTextHasSegments, Focused, CleanedStep
<1>3. CleanedInv => CleanedIsWhole
  BY DEF CleanedInv, WorkIsWhole, WholeResult, AnsweredOnce, CleanedIsWhole
<1>4. QED BY <1>1, <1>2, <1>3, PTL DEF DeskSpec, DeskSafety

(* If a text that is not split may be as long as a segment: the segments of *)
(* a long text take every word in order, end at the ends of sentences       *)
(* unless one is longer than a segment may be, and are of a permitted size  *)
(* (split_into_segments, cleanup.rs).                                       *)
THEOREM TextsAreSplitWhole ==
  ASSUME SegmentMax <= SegmentAbove
  PROVE  DeskSpec => []SegmentsAreWhole
<1>1. \A text \in Spoken : Whole(text, SplitIntoSegments(text))
  BY SpokenAssumption, SplitIsWhole
<1>2. SegmentsAreWhole
  BY <1>1 DEF SegmentsAreWhole
<1>3. QED BY <1>2, PTL

(* Whatever answers come late, for chunks and recoveries given up, and      *)
(* whatever the manager does: what the recovery thread takes for a chunk's  *)
(* transcript is of that chunk of that recording (transcribe_paced_with,    *)
(* recovery.rs: a reply channel for each attempt).                          *)
THEOREM AnswersAreOfTheirChunk == DeskSpec => []HeardIsItsOwn
<1>1. DeskInv => HeardIsItsOwn
  BY DEF DeskInv, RecoveryInv
<1>2. QED BY <1>1, DeskInvariant, PTL DEF DeskSpec

(* If words differ, a chunk is longer than two overlaps and a seam is       *)
(* compared over as many words as an overlap may hold: a recovery that      *)
(* reports no failed chunk has every word that was heard, once and in order *)
(* (transcribe_paced_with, recovery.rs; assemble, chunking.rs).             *)
THEOREM RecoveriesAreComplete ==
  ASSUME RecordingsSayEachWordOnce, 2 * Overlap <= SinglePassMax, Overlap <= SeamWords
  PROVE  DeskSpec => []RecoveredIsComplete
<1>1. RecordingsArePlanned /\ AssemblingIsWhole
  BY PlansEnd, ChunksAssembleWhole
<1>2. DeskInit => AssembledInv
  BY AssembledStarts DEF DeskInit
<1>3. AssembledInv /\ [OfClipboard \/ OfRecovery \/ OfCleanup]_deskVars => AssembledInv'
  BY <1>1, Focused, AssembledStep
<1>4. AssembledInv => RecoveredIsComplete
  BY <1>1 DEF AssembledInv, RecoveredIsAssembled, AssemblingIsWhole, RecoveredIsComplete
<1>5. QED BY <1>2, <1>3, <1>4, PTL DEF DeskSpec, DeskSafety
=============================================================================
