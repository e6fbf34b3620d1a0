----------------------------- MODULE RollingProofs -----------------------------
(***************************************************************************)
(* Safety theorems about the rolling worker, for every recording, every    *)
(* length of chunks and overlaps the assumptions allow, and every number   *)
(* of failures of the engine.                                              *)
(***************************************************************************)
EXTENDS RollingProperties, ChunkingProofs

-----------------------------------------------------------------------------
(* Types.  A chunk is planned within the audio heard so far; nobody waits   *)
(* for the command that is none.                                            *)

Sent == [kind : {"Final", "Late", "RollingWorkerLost"}, text : Texts, failed : Nat,
         partial : BOOLEAN]
WithinAudio == \A i \in DOMAIN plans : plans[i].start + plans[i].len <= Len(audio)
Made == {c \in Commands : c.kind = "Nothing" => c.client = <<>>}   \* commands that are made
TypesInv == /\ RollingTypeOK /\ base <= Len(audio) /\ WithinAudio
            /\ queue \in Seq(Made) /\ serving \in Made

LEMMA Numbers ==
  /\ SinglePassMax \in Nat /\ CutWindowMin \in Nat /\ Overlap \in Nat /\ MinTail \in Nat
  /\ MaxLoadWait \in Nat /\ MaxAudio \in Nat /\ MaxFaults \in Nat
  /\ Overlap <= CutWindowMin /\ CutWindowMin < SinglePassMax
BY ChunkingAssumption, RollingAssumption

(* Parts of a sequence, and what a client's commands and answers are.       *)
LEMMA PieceOf ==
  ASSUME NEW S, NEW s \in Seq(S), NEW m \in Nat, NEW n \in Nat, n <= Len(s)
  PROVE  SubSeq(s, m + 1, n) \in Seq(S)
<1>1. \A i \in m + 1 .. n : s[i] \in S
  <2>1. \A i \in m + 1 .. n : i \in 1..Len(s)
    BY LenProperties
  <2>2. QED BY <2>1, ElementOfSeq
<1>2. QED BY <1>1, SubSeqProperties

LEMMA ChunkTyped ==
  ASSUME NEW i \in Nat, NEW part \in Parts, NEW samples \in Texts
  PROVE  Chunk(<<i, part>>, samples) \in Made /\ Chunk(<<i, part>>, samples).client = <<i, part>>
<1>1. <<i, part>> \in Clients
  BY DEF Clients
<1> HIDE DEF Clients, Texts
<1>2. QED BY <1>1 DEF Chunk, Commands, Made

LEMMA AnswerTyped ==
  ASSUME NEW cmd \in Made, NEW result \in {"text", "empty", "err", "hungup"}, NEW text \in Texts
  PROVE  Answered(cmd, result, text) \in Answers /\ Answered(cmd, result, text).client = cmd.client
BY DEF Answered, Answers, Commands, Made

LEMMA EmptyText == <<>> \in Texts /\ Nothing \in Made /\ Warmup \in Made
                   /\ Nothing.client = <<>> /\ Warmup.client = <<>>
<1>1. <<>> \in Texts
  BY EmptySeq DEF Texts
<1>2. <<>> \in Clients
  BY DEF Clients
<1> HIDE DEF Texts, Clients
<1>3. QED BY <1>1, <1>2 DEF Nothing, Warmup, Commands, Made

LEMMA SamplesTyped ==
  ASSUME NEW heard \in Texts, NEW plan \in PlanRecords, plan.start + plan.len <= Len(heard),
         NEW part \in Parts, NEW split \in Nat, part # "Whole" => split <= plan.len
  PROVE  Samples(heard, plan, part, split) \in Texts
<1> DEFINE chunk == Span(heard, plan)
<1>1. plan.start \in Nat /\ plan.len \in Nat /\ Len(heard) \in Nat
  BY LenProperties DEF PlanRecords, Texts
<1>2. chunk \in Texts /\ Len(chunk) = plan.len
  <2>1. \A i \in plan.start + 1 .. plan.start + plan.len : heard[i] \in Units
    <3>1. \A i \in plan.start + 1 .. plan.start + plan.len : i \in 1..Len(heard)
      BY <1>1
    <3>2. QED BY <3>1, ElementOfSeq DEF Texts
  <2>2. plan.start + 1 \in Int /\ plan.start + plan.len \in Int
    BY <1>1
  <2>3. chunk \in Seq(Units)
        /\ Len(chunk) = IF plan.start + 1 <= plan.start + plan.len
                        THEN (plan.start + plan.len) - (plan.start + 1) + 1 ELSE 0
    BY <2>1, <2>2, SubSeqProperties DEF Span
  <2>4. QED BY <1>1, <2>3 DEF Texts
<1> HIDE DEF chunk
<1>3. CASE part = "Whole"
  BY <1>2, <1>3 DEF Samples, chunk
<1>4. CASE part = "FirstHalf"
  <2>1. SubSeq(chunk, 0 + 1, split) \in Texts
    BY <1>1, <1>2, <1>4, PieceOf DEF Texts
  <2>2. QED BY <1>4, <2>1 DEF Samples, chunk
<1>5. CASE part = "SecondHalf"
  <2>1. SubSeq(chunk, split + 1, plan.len) \in Texts
    BY <1>1, <1>2, <1>5, PieceOf DEF Texts
  <2>2. QED BY <1>5, <2>1 DEF Samples, chunk
<1>6. QED BY <1>3, <1>4, <1>5 DEF Parts

-----------------------------------------------------------------------------
(* Who waits for the commands or the answers of a sequence.                 *)
ClientsOf(s) == {s[i].client : i \in DOMAIN s}

LEMMA ClientsOfAppend ==
  ASSUME NEW S, NEW s \in Seq(S), NEW x \in S
  PROVE  ClientsOf(Append(s, x)) = ClientsOf(s) \cup {x.client}
<1>1. /\ DOMAIN s = 1..Len(s) /\ Len(s) \in Nat
      /\ DOMAIN Append(s, x) = 1 .. Len(s) + 1
      /\ \A i \in 1..Len(s) : Append(s, x)[i] = s[i]
      /\ Append(s, x)[Len(s) + 1] = x
  BY AppendProperties, LenProperties
<1>2. QED BY <1>1 DEF ClientsOf

LEMMA ClientsOfTail ==
  ASSUME NEW S, NEW s \in Seq(S), s # <<>>
  PROVE  ClientsOf(s) = {Head(s).client} \cup ClientsOf(Tail(s))
<1>1. /\ DOMAIN s = 1..Len(s) /\ Len(s) \in Nat /\ Len(s) > 0
      /\ DOMAIN Tail(s) = 1 .. Len(s) - 1 /\ Head(s) = s[1]
      /\ \A i \in 1 .. Len(s) - 1 : Tail(s)[i] = s[i + 1]
  BY HeadTailProperties, LenProperties, EmptySeq
<1>2. \A i \in 2..Len(s) : i - 1 \in 1 .. Len(s) - 1 /\ Tail(s)[i - 1] = s[i]
  BY <1>1
<1>3. \A i \in 1 .. Len(s) : i = 1 \/ i \in 2..Len(s)
  BY <1>1
<1>4. \A i \in 1..Len(s) : s[i].client \in {Head(s).client} \cup ClientsOf(Tail(s))
  <2>1. \A i \in 2..Len(s) : s[i].client \in ClientsOf(Tail(s))
    BY <1>1, <1>2 DEF ClientsOf
  <2>2. QED BY <1>1, <1>3, <2>1
<1>5. {Head(s).client} \cup ClientsOf(Tail(s)) \subseteq ClientsOf(s)
  <2>1. 1 \in 1..Len(s) /\ \A i \in 1 .. Len(s) - 1 : i + 1 \in 1..Len(s)
    BY <1>1
  <2>2. QED BY <1>1, <2>1 DEF ClientsOf
<1>6. QED BY <1>1, <1>4, <1>5 DEF ClientsOf

LEMMA ClientsOfConcat ==
  ASSUME NEW S, NEW s \in Seq(S), NEW t \in Seq(S)
  PROVE  ClientsOf(s \o t) = ClientsOf(s) \cup ClientsOf(t)
<1>1. /\ DOMAIN s = 1..Len(s) /\ Len(s) \in Nat /\ DOMAIN t = 1..Len(t) /\ Len(t) \in Nat
      /\ DOMAIN (s \o t) = 1 .. Len(s) + Len(t)
      /\ \A i \in 1 .. Len(s) + Len(t) :
           (s \o t)[i] = IF i <= Len(s) THEN s[i] ELSE t[i - Len(s)]
  BY ConcatProperties, LenProperties
<1>2. \A i \in 1..Len(s) : i \in 1 .. Len(s) + Len(t) /\ (s \o t)[i] = s[i]
  BY <1>1
<1>3. \A i \in 1..Len(t) : Len(s) + i \in 1 .. Len(s) + Len(t) /\ (s \o t)[Len(s) + i] = t[i]
  BY <1>1
<1>4. \A i \in 1 .. Len(s) + Len(t) : i \in 1..Len(s) \/ i - Len(s) \in 1..Len(t)
  BY <1>1
<1>5. ClientsOf(s \o t) \subseteq ClientsOf(s) \cup ClientsOf(t)
  BY <1>1, <1>4 DEF ClientsOf
<1>6. ClientsOf(s) \subseteq ClientsOf(s \o t)
  BY <1>1, <1>2 DEF ClientsOf
<1>7. ClientsOf(t) \subseteq ClientsOf(s \o t)
  <2>1. \A i \in 1..Len(t) : t[i].client \in ClientsOf(s \o t)
    BY <1>1, <1>3 DEF ClientsOf
  <2>2. QED BY <1>1, <2>1 DEF ClientsOf
<1>8. QED BY <1>5, <1>6, <1>7

(* What a dispatch of one part, or of two, does to the queue and to the     *)
(* results: each part is with the manager, or has its error.                *)
LEMMA Dispatches ==
  ASSUME queue \in Seq(Made), NEW rest \in Seq(Answers), NEW i \in Nat,
         NEW heard \in Texts, NEW plan \in PlanRecords, plan.start + plan.len <= Len(heard),
         NEW parts \in {<<"Whole">>, <<"FirstHalf", "SecondHalf">>},
         NEW split \in Nat, split <= plan.len \/ parts = <<"Whole">>,
         Dispatch(heard, i, plan, parts, split, rest)
  PROVE  /\ queue' \in Seq(Made) /\ results' \in Seq(Answers)
         /\ ClientsOf(queue) \subseteq ClientsOf(queue')
         /\ ClientsOf(rest) \subseteq ClientsOf(results')
         /\ \A k \in DOMAIN parts : <<i, parts[k]>> \in ClientsOf(queue') \cup ClientsOf(results')
<1> DEFINE Cmd(k) == Chunk(<<i, parts[k]>>, Samples(heard, plan, parts[k], split))
           cmds == [k \in DOMAIN parts |-> Cmd(k)]
           errs == [k \in DOMAIN parts |-> Answered(Cmd(k), "err", <<>>)]
<1>1. /\ parts \in Seq(Parts) /\ DOMAIN parts = 1..Len(parts) /\ Len(parts) \in {1, 2}
      /\ \A k \in DOMAIN parts : parts[k] \in Parts /\ (parts[k] # "Whole" => split <= plan.len)
  <2>1. CASE parts = <<"Whole">>
    <3>1. DOMAIN parts = {1} /\ parts[1] = "Whole" /\ parts \in Seq(Parts) /\ Len(parts) = 1
      BY <2>1 DEF Parts
    <3>2. QED BY <3>1 DEF Parts
  <2>2. CASE parts = <<"FirstHalf", "SecondHalf">>
    <3>1. /\ DOMAIN parts = {1, 2} /\ parts[1] = "FirstHalf" /\ parts[2] = "SecondHalf"
          /\ parts \in Seq(Parts) /\ Len(parts) = 2
      BY <2>2 DEF Parts
    <3>2. split <= plan.len
      BY <2>2
    <3>3. QED BY <3>1, <3>2 DEF Parts
  <2>3. QED BY <2>1, <2>2
<1>2. \A k \in DOMAIN parts : Cmd(k) \in Made /\ Cmd(k).client = <<i, parts[k]>>
  BY <1>1, SamplesTyped, ChunkTyped
<1>3. \A k \in DOMAIN parts : /\ Answered(Cmd(k), "err", <<>>) \in Answers
                              /\ Answered(Cmd(k), "err", <<>>).client = <<i, parts[k]>>
  BY <1>2, AnswerTyped, EmptyText
<1> HIDE DEF Cmd
<1>4. cmds \in Seq(Made) /\ \A k \in DOMAIN parts : <<i, parts[k]>> \in ClientsOf(cmds)
  <2>1. cmds \in Seq(Made)
    BY <1>1, <1>2, IsASeq
  <2>2. \A k \in DOMAIN parts : k \in DOMAIN cmds /\ cmds[k].client = <<i, parts[k]>>
    BY <1>2
  <2> HIDE DEF cmds
  <2>3. QED BY <2>1, <2>2 DEF ClientsOf
<1>5. errs \in Seq(Answers) /\ \A k \in DOMAIN parts : <<i, parts[k]>> \in ClientsOf(errs)
  <2>1. errs \in Seq(Answers)
    BY <1>1, <1>3, IsASeq
  <2>2. \A k \in DOMAIN parts : k \in DOMAIN errs /\ errs[k].client = <<i, parts[k]>>
    BY <1>3
  <2> HIDE DEF errs
  <2>3. QED BY <2>1, <2>2 DEF ClientsOf
<1>6. CASE running
  <2>1. queue' = queue \o cmds /\ results' = rest
    BY <1>6 DEF Dispatch, Cmd
  <2> HIDE DEF cmds
  <2>2. queue' \in Seq(Made) /\ ClientsOf(queue') = ClientsOf(queue) \cup ClientsOf(cmds)
    BY <1>4, <2>1, ConcatProperties, ClientsOfConcat
  <2>3. QED BY <1>4, <2>1, <2>2
<1>7. CASE ~running
  <2>1. results' = rest \o errs /\ queue' = queue
    BY <1>7 DEF Dispatch, Cmd
  <2> HIDE DEF errs
  <2>2. results' \in Seq(Answers) /\ ClientsOf(results') = ClientsOf(rest) \cup ClientsOf(errs)
    BY <1>5, <2>1, ConcatProperties, ClientsOfConcat
  <2>3. QED BY <1>5, <2>1, <2>2
<1>8. QED BY <1>6, <1>7
-----------------------------------------------------------------------------
(* The type invariant, in parts.                                            *)

SessionShape ==
  /\ audio \in Texts /\ base \in Nat /\ base <= Len(audio) /\ needs_dedup \in BOOLEAN
  /\ plans \in Seq(PlanRecords) /\ slots \in Seq(Slots) /\ Len(slots) = Len(plans) /\ WithinAudio
ChannelsShape ==
  /\ results \in Seq(Answers) /\ queue \in Seq(Made)
  /\ serving \in Made /\ replies \subseteq Answers
StatusShape ==
  /\ phase \in Phases /\ load_waited \in 0..MaxLoadWait /\ faults \in 0..MaxFaults
  /\ output \in Seq(Sent)
  /\ loaded \in BOOLEAN /\ running \in BOOLEAN /\ model_loading \in BOOLEAN
  /\ unheard \subseteq Units

LEMMA MadeAreCommands == Made \subseteq Commands /\ Seq(Made) \subseteq Seq(Commands)
BY SeqDef DEF Made

LEMMA TypesInParts == TypesInv <=> SessionShape /\ ChannelsShape /\ StatusShape
<1> HIDE DEF Texts, Answers, Commands, Slots, Units, Made
<1>1. TypesInv => SessionShape /\ ChannelsShape /\ StatusShape
  BY DEF TypesInv, RollingTypeOK, SessionShape, ChannelsShape, StatusShape, Sent, PlanRecords
<1>2. SessionShape /\ ChannelsShape /\ StatusShape => TypesInv
  BY MadeAreCommands
     DEF TypesInv, RollingTypeOK, SessionShape, ChannelsShape, StatusShape, Sent, PlanRecords
<1>3. QED BY <1>1, <1>2

LEMMA TypesInPartsNext == TypesInv' <=> SessionShape' /\ ChannelsShape' /\ StatusShape'
<1> HIDE DEF Texts, Answers, Commands, Slots, Units, Made
<1>1. TypesInv' => SessionShape' /\ ChannelsShape' /\ StatusShape'
  BY DEF TypesInv, RollingTypeOK, SessionShape, ChannelsShape, StatusShape, Sent, PlanRecords,
         WithinAudio
<1>2. SessionShape' /\ ChannelsShape' /\ StatusShape' => TypesInv'
  BY MadeAreCommands
     DEF TypesInv, RollingTypeOK, SessionShape, ChannelsShape, StatusShape, Sent, PlanRecords,
         WithinAudio
<1>3. QED BY <1>1, <1>2

LEMMA SessionStands ==
  ASSUME SessionShape, UNCHANGED <<sessionVars, plans, slots>>
  PROVE  SessionShape'
BY DEF SessionShape, sessionVars, WithinAudio

(* The slots that a step makes.                                             *)
LEMMA SlotsAre ==
  /\ Open \in HalfStates
  /\ \A n \in 0..1 : Whole(n) \in Slots /\ Whole(n).kind = "Whole" /\ Whole(n).text = <<>>
  /\ \A first, second \in HalfStates :
       /\ Halves(first, second) \in Slots /\ Halves(first, second).kind = "Halves"
       /\ Halves(first, second).first = first /\ Halves(first, second).second = second
       /\ Halves(first, second).text = <<>>
  /\ \A text \in Texts, failed \in BOOLEAN :
       /\ Done(text, failed) \in Slots /\ Done(text, failed).kind = "Done"
       /\ Done(text, failed).text = text /\ Done(text, failed).failed = failed
<1>1. Open \in HalfStates
  BY EmptyText DEF Open, HalfStates
<1>2. NewSlot = [kind |-> "Whole", attempt |-> 0, first |-> Open, second |-> Open,
                 text |-> <<>>, failed |-> FALSE]
  BY DEF NewSlot
<1>3. ASSUME NEW n \in 0..1
      PROVE  Whole(n) \in Slots /\ Whole(n).kind = "Whole" /\ Whole(n).text = <<>>
  <2>1. Whole(n) = [kind |-> "Whole", attempt |-> n, first |-> Open, second |-> Open,
                    text |-> <<>>, failed |-> FALSE]
    <3>1. DOMAIN NewSlot = {"kind", "attempt", "first", "second", "text", "failed"}
      BY <1>2
    <3>2. Whole(n) = [x \in DOMAIN NewSlot |-> IF x = "attempt" THEN n ELSE NewSlot[x]]
      BY <3>1 DEF Whole
    <3>3. QED BY <1>2, <3>1, <3>2
  <2>2. QED BY <1>1, <2>1, EmptyText DEF Slots
<1>4. ASSUME NEW first \in HalfStates, NEW second \in HalfStates
      PROVE  /\ Halves(first, second) \in Slots /\ Halves(first, second).kind = "Halves"
             /\ Halves(first, second).first = first /\ Halves(first, second).second = second
             /\ Halves(first, second).text = <<>>
  <2>1. Halves(first, second) = [kind |-> "Halves", attempt |-> 0, first |-> first,
                                 second |-> second, text |-> <<>>, failed |-> FALSE]
    <3>1. DOMAIN NewSlot = {"kind", "attempt", "first", "second", "text", "failed"}
      BY <1>2
    <3>2. PICK kinded : kinded = [x \in DOMAIN NewSlot |-> IF x = "kind" THEN "Halves"
                                                                        ELSE NewSlot[x]]
      OBVIOUS
    <3>3. PICK opened : opened = [x \in DOMAIN kinded |-> IF x = "first" THEN first
                                                                         ELSE kinded[x]]
      OBVIOUS
    <3>4. Halves(first, second) = [x \in DOMAIN opened |-> IF x = "second" THEN second
                                                                           ELSE opened[x]]
      BY <3>2, <3>3 DEF Halves
    <3>5. QED BY <1>2, <3>1, <3>2, <3>3, <3>4
  <2>2. QED BY <2>1, EmptyText DEF Slots
<1>5. ASSUME NEW text \in Texts, NEW failed \in BOOLEAN
      PROVE  /\ Done(text, failed) \in Slots /\ Done(text, failed).kind = "Done"
             /\ Done(text, failed).text = text /\ Done(text, failed).failed = failed
  <2>1. Done(text, failed) = [kind |-> "Done", attempt |-> 0, first |-> Open, second |-> Open,
                              text |-> text, failed |-> failed]
    <3>1. DOMAIN NewSlot = {"kind", "attempt", "first", "second", "text", "failed"}
      BY <1>2
    <3>2. PICK kinded : kinded = [x \in DOMAIN NewSlot |-> IF x = "kind" THEN "Done"
                                                                        ELSE NewSlot[x]]
      OBVIOUS
    <3>3. PICK told : told = [x \in DOMAIN kinded |-> IF x = "text" THEN text ELSE kinded[x]]
      OBVIOUS
    <3>4. Done(text, failed) = [x \in DOMAIN told |-> IF x = "failed" THEN failed ELSE told[x]]
      BY <3>2, <3>3 DEF Done
    <3>5. QED BY <1>2, <3>1, <3>2, <3>3, <3>4
  <2>2. QED BY <1>1, <2>1 DEF Slots
<1>6. QED BY <1>1, <1>3, <1>4, <1>5

(* Another slot at i.                                                       *)
LEMMA SlotReplaced ==
  ASSUME SessionShape, NEW i \in DOMAIN slots, NEW slot \in Slots,
         slots' = [slots EXCEPT ![i] = slot]
  PROVE  /\ slots' \in Seq(Slots) /\ Len(slots') = Len(slots) /\ DOMAIN slots' = DOMAIN slots
         /\ slots'[i] = slot /\ \A j \in DOMAIN slots : j # i => slots'[j] = slots[j]
<1>1. slots \in Seq(Slots) /\ DOMAIN slots = 1..Len(slots)
  BY LenProperties DEF SessionShape
<1>2. /\ slots' \in Seq(Slots) /\ Len(slots') = Len(slots)
      /\ \A j \in 1..Len(slots) : slots'[j] = IF j = i THEN slot ELSE slots[j]
  BY <1>1, ExceptSeq
<1>3. QED BY <1>1, <1>2, LenProperties

LEMMA SlotsStep ==
  ASSUME SessionShape, NEW i \in DOMAIN slots, NEW slot \in Slots,
         slots' = [slots EXCEPT ![i] = slot], UNCHANGED <<sessionVars, plans>>
  PROVE  SessionShape'
BY SlotReplaced DEF SessionShape, sessionVars, WithinAudio

(* A chunk more, planned in the audio heard.                                *)
LEMMA ChunkAdded ==
  ASSUME SessionShape, ChannelsShape, NEW plan \in PlanRecords, audio' \in Texts,
         plan.start + plan.len <= Len(audio'), Len(audio) <= Len(audio'),
         plans' = Append(plans, plan), NEW slot \in Slots, slots' = Append(slots, slot)
  PROVE  /\ plans' \in Seq(PlanRecords) /\ slots' \in Seq(Slots) /\ Len(slots') = Len(plans')
         /\ WithinAudio' /\ Len(plans) \in Nat
         /\ DOMAIN slots = 1..Len(plans) /\ DOMAIN slots' = 1 .. Len(plans) + 1
         /\ slots'[Len(plans) + 1] = slot /\ \A j \in DOMAIN slots : slots'[j] = slots[j]
<1>1. /\ plans \in Seq(PlanRecords) /\ slots \in Seq(Slots) /\ Len(slots) = Len(plans)
      /\ Len(plans) \in Nat /\ DOMAIN slots = 1..Len(slots) /\ DOMAIN plans = 1..Len(plans)
      /\ Len(audio) \in Nat /\ Len(audio') \in Nat
  BY LenProperties DEF SessionShape, Texts
<1>2. /\ plans' \in Seq(PlanRecords) /\ Len(plans') = Len(plans) + 1
      /\ \A j \in 1..Len(plans) : plans'[j] = plans[j]
      /\ plans'[Len(plans) + 1] = plan
  BY <1>1, AppendProperties
<1>3. /\ slots' \in Seq(Slots) /\ Len(slots') = Len(slots) + 1
      /\ \A j \in 1..Len(slots) : slots'[j] = slots[j]
      /\ slots'[Len(slots) + 1] = slot
  BY <1>1, AppendProperties
<1>4. DOMAIN plans' = 1 .. Len(plans) + 1 /\ DOMAIN slots' = 1 .. Len(plans) + 1
  BY <1>1, <1>2, <1>3, LenProperties
<1>5. WithinAudio'
  <2> SUFFICES ASSUME NEW j \in DOMAIN plans'
               PROVE  plans'[j].start + plans'[j].len <= Len(audio')
    BY DEF WithinAudio
  <2>1. CASE j \in 1..Len(plans)
    <3>1. plans[j] \in PlanRecords /\ plans[j].start + plans[j].len <= Len(audio)
      BY <1>1, <2>1, ElementOfSeq DEF SessionShape, WithinAudio
    <3>2. QED BY <1>1, <1>2, <2>1, <3>1 DEF PlanRecords
  <2>2. CASE j = Len(plans) + 1
    BY <1>2, <2>2
  <2>3. QED BY <1>1, <1>4, <2>1, <2>2
<1>6. QED BY <1>1, <1>2, <1>3, <1>4, <1>5

-----------------------------------------------------------------------------
(* Types and the debt together: who is owed an answer, part by part.        *)

OpenIn(slot) ==
  {p \in Parts : \/ slot.kind = "Whole" /\ p = "Whole"
                 \/ slot.kind = "Halves" /\ p = "FirstHalf" /\ slot.first = Open
                 \/ slot.kind = "Halves" /\ p = "SecondHalf" /\ slot.second = Open}
Waited == {r.client : r \in replies}
Paid == ClientsOf(queue) \cup {serving.client} \cup Waited \cup ClientsOf(results)
OwedInv == TypesInv /\ EveryPartIsOwed

(* A part is open when its slot says so; and all that is open is owed.      *)
LEMMA OpenOnes ==
  /\ \A i \in DOMAIN slots, p \in Parts : p \in OpenIn(slots[i]) => <<i, p>> \in OpenParts
  /\ \A x \in OpenParts : \E i \in DOMAIN slots : \E p \in OpenIn(slots[i]) : x = <<i, p>>
BY DEF OpenParts, OpenIn, Parts

LEMMA OwedIsPaid ==
  EveryPartIsOwed <=> (phase # "gone" =>
                         \A i \in DOMAIN slots : \A p \in OpenIn(slots[i]) : <<i, p>> \in Paid)
<1>1. Owed = Paid
  BY DEF Owed, Paid, ClientsOf, Waited
<1>2. OpenParts \subseteq Paid <=> \A i \in DOMAIN slots : \A p \in OpenIn(slots[i]) : <<i, p>> \in Paid
  <2>1. \A i \in DOMAIN slots : \A p \in OpenIn(slots[i]) : p \in Parts
    BY DEF OpenIn
  <2> HIDE DEF OpenIn
  <2>2. QED BY <2>1, OpenOnes
<1>3. QED BY <1>1, <1>2 DEF EveryPartIsOwed

LEMMA OwedIsPaidNext ==
  EveryPartIsOwed' <=> (phase' # "gone" =>
                          \A i \in DOMAIN slots' : \A p \in OpenIn(slots'[i]) : <<i, p>> \in Paid')
<1>1. Owed' = Paid'
  BY DEF Owed, Paid, ClientsOf, Waited
<1>2. /\ \A i \in DOMAIN slots', p \in Parts : p \in OpenIn(slots'[i]) => <<i, p>> \in OpenParts'
      /\ \A x \in OpenParts' : \E i \in DOMAIN slots' : \E p \in OpenIn(slots'[i]) : x = <<i, p>>
  BY DEF OpenParts, OpenIn, Parts
<1>3. OpenParts' \subseteq Paid' <=>
        \A i \in DOMAIN slots' : \A p \in OpenIn(slots'[i]) : <<i, p>> \in Paid'
  <2>1. \A i \in DOMAIN slots' : \A p \in OpenIn(slots'[i]) : p \in Parts
    BY DEF OpenIn
  <2> HIDE DEF OpenIn
  <2>2. QED BY <1>2, <2>1
<1>4. QED BY <1>1, <1>3 DEF EveryPartIsOwed

(* What no slot and no client is lost to keeps the debt paid.               *)
LEMMA StillPaid ==
  ASSUME EveryPartIsOwed, phase = "gone" => phase' = "gone", slots' = slots, Paid \subseteq Paid'
  PROVE  EveryPartIsOwed'
BY OwedIsPaid, OwedIsPaidNext

(* Paid, from what is in each place.                                        *)
LEMMA PaidIn ==
  ASSUME NEW x
  PROVE  x \in Paid' <=> \/ x \in ClientsOf(queue)' \/ x = serving'.client
                         \/ x \in Waited' \/ x \in ClientsOf(results)'
BY DEF Paid

(* A chunk planned in the audio heard is dispatched.                        *)
LEMMA AddedIsPaid ==
  ASSUME OwedInv, phase # "gone", audio' \in Texts, Len(audio) <= Len(audio'),
         NEW plan \in PlanRecords, plan.start + plan.len <= Len(audio'),
         AddChunk(audio', plan), UNCHANGED <<serving, replies>>
  PROVE  /\ plans' \in Seq(PlanRecords) /\ slots' \in Seq(Slots) /\ Len(slots') = Len(plans')
         /\ WithinAudio' /\ ChannelsShape' /\ EveryPartIsOwed'
<1>1. SessionShape /\ ChannelsShape
  BY TypesInParts DEF OwedInv
<1>2. /\ plans' = Append(plans, plan) /\ slots' = Append(slots, Whole(0))
      /\ Dispatch(audio', Len(plans) + 1, plan, <<"Whole">>, 0, results)
  BY DEF AddChunk
<1>3. Whole(0) \in Slots /\ Whole(0).kind = "Whole"
  BY SlotsAre
<1>4. /\ plans' \in Seq(PlanRecords) /\ slots' \in Seq(Slots) /\ Len(slots') = Len(plans')
      /\ WithinAudio' /\ Len(plans) \in Nat
      /\ DOMAIN slots = 1..Len(plans) /\ DOMAIN slots' = 1 .. Len(plans) + 1
      /\ slots'[Len(plans) + 1] = Whole(0) /\ \A j \in DOMAIN slots : slots'[j] = slots[j]
  BY <1>1, <1>2, <1>3, ChunkAdded
<1>5. /\ queue' \in Seq(Made) /\ results' \in Seq(Answers)
      /\ ClientsOf(queue) \subseteq ClientsOf(queue')
      /\ ClientsOf(results) \subseteq ClientsOf(results')
      /\ \A k \in DOMAIN <<"Whole">> : <<Len(plans) + 1, <<"Whole">>[k]>>
                                         \in ClientsOf(queue') \cup ClientsOf(results')
  BY <1>1, <1>2, <1>4, Dispatches DEF ChannelsShape
<1>6. <<Len(plans) + 1, "Whole">> \in ClientsOf(queue') \cup ClientsOf(results')
  <2>1. 1 \in DOMAIN <<"Whole">> /\ <<"Whole">>[1] = "Whole"
    OBVIOUS
  <2>2. QED BY <1>5, <2>1
<1>7. ChannelsShape'
  BY <1>1, <1>5 DEF ChannelsShape
<1>8. Paid \subseteq Paid'
  BY <1>5 DEF Paid, Waited
<1>9. EveryPartIsOwed'
  <2> SUFFICES ASSUME NEW i \in DOMAIN slots', NEW p \in OpenIn(slots'[i])
               PROVE  <<i, p>> \in Paid'
    BY OwedIsPaidNext
  <2>1. CASE i \in DOMAIN slots
    BY <1>4, <1>8, <2>1, OwedIsPaid DEF OwedInv
  <2>2. CASE i = Len(plans) + 1
    <3>1. p = "Whole"
      BY <1>3, <1>4, <2>2 DEF OpenIn
    <3>2. QED BY <1>6, <2>2, <3>1 DEF Paid
  <2>3. QED BY <1>4, <2>1, <2>2
<1>10. QED BY <1>4, <1>7, <1>9

-----------------------------------------------------------------------------
(* The types and the debt, action by action.                                *)

LEMMA PushPays ==
  ASSUME OwedInv, NEW u \in NextUnits, Push(u)
  PROVE  OwedInv'
<1>0. SessionShape /\ ChannelsShape /\ StatusShape /\ TypesInv /\ EveryPartIsOwed
  BY TypesInParts DEF OwedInv
<1> DEFINE pushed == Append(audio, u)
           buf == SubSeq(pushed, base + 1, Len(pushed))
           cut == PlanCut(buf)
           plan == Plan(base, cut.at, needs_dedup)
<1>1. /\ audio \in Texts /\ base \in Nat /\ Len(audio) \in Nat /\ base <= Len(audio)
      /\ Len(audio) < MaxAudio
  BY <1>0, LenProperties DEF SessionShape, Texts, Push
<1>2. u \in Units
  <2>1. u \in {1, Len(audio) + 1, Quiet}
    BY DEF NextUnits
  <2>2. QED BY <1>1, <2>1, Numbers DEF Units, Quiet
<1>3. pushed \in Texts /\ Len(pushed) = Len(audio) + 1 /\ audio' = pushed
  BY <1>1, <1>2, AppendProperties DEF Texts, Push
<1>4. UNCHANGED <<load_waited, output, serving, loaded, running, model_loading, replies, faults,
                  unheard>> /\ phase' = "collect"
  BY DEF Push, managerFrame
<1>5. StatusShape'
  BY <1>0, <1>4 DEF StatusShape, Phases
<1>6. CASE ~CutDue(buf)
  <2>1. UNCHANGED <<base, needs_dedup, plans, slots, results, queue>>
    BY <1>6 DEF Push
  <2>2. WithinAudio'
    <3>1. \A j \in DOMAIN plans : plans[j] \in PlanRecords
      BY <1>0, LenProperties, ElementOfSeq DEF SessionShape
    <3>2. QED BY <1>0, <1>1, <1>3, <2>1, <3>1 DEF SessionShape, WithinAudio, PlanRecords
  <2>3. SessionShape' /\ ChannelsShape'
    BY <1>0, <1>1, <1>3, <1>4, <2>1, <2>2 DEF SessionShape, ChannelsShape
  <2>4. EveryPartIsOwed'
    <3>1. Paid \subseteq Paid'
      BY <1>4, <2>1 DEF Paid, Waited
    <3>2. QED BY <1>0, <1>4, <2>1, <3>1, StillPaid DEF Push
  <2>5. QED BY <1>5, <2>3, <2>4, TypesInPartsNext DEF OwedInv
<1>7. CASE CutDue(buf)
  <2>1. /\ AddChunk(pushed, plan) /\ base' = base + Advance(cut)
        /\ needs_dedup' = (cut.kind = "Hard")
    BY <1>7 DEF Push
  <2>2. Len(buf) = Len(pushed) - base /\ Len(buf) > SinglePassMax
    <3>1. buf \in Seq(Units) /\ Len(buf) = IF base + 1 <= Len(pushed)
                                           THEN Len(pushed) - (base + 1) + 1 ELSE 0
      <4>1. \A i \in base + 1 .. Len(pushed) : pushed[i] \in Units
        <5>1. \A i \in base + 1 .. Len(pushed) : i \in 1..Len(pushed)
          BY <1>1, <1>3
        <5>2. QED BY <1>3, <5>1, ElementOfSeq DEF Texts
      <4>2. base + 1 \in Int /\ Len(pushed) \in Int
        BY <1>1, <1>3
      <4> HIDE DEF pushed
      <4>3. QED BY <4>1, <4>2, SubSeqProperties
    <3>2. Len(buf) > SinglePassMax
      BY <1>7 DEF CutDue
    <3>3. QED BY <1>1, <1>3, <3>1, <3>2
  <2>3. cut.at \in 1..SinglePassMax /\ Advance(cut) \in 1..SinglePassMax
    BY CutIs
  <2> HIDE DEF cut
  <2>4. /\ plan \in PlanRecords /\ plan.start + plan.len <= Len(pushed)
        /\ base' \in Nat /\ base' <= Len(pushed)
    <3>1. base + cut.at <= Len(pushed) /\ base + Advance(cut) <= Len(pushed)
      BY <1>1, <1>3, <2>2, <2>3, Numbers
    <3>2. plan \in PlanRecords /\ plan.start = base /\ plan.len = cut.at
      BY <1>0, <1>1, <2>3 DEF Plan, PlanRecords, SessionShape
    <3>3. QED BY <1>1, <2>1, <2>3, <3>1, <3>2
  <2> HIDE DEF plan, buf, pushed
  <2>5. /\ plans' \in Seq(PlanRecords) /\ slots' \in Seq(Slots) /\ Len(slots') = Len(plans')
        /\ WithinAudio' /\ ChannelsShape' /\ EveryPartIsOwed'
    <3>1. /\ audio' \in Texts /\ Len(audio) <= Len(audio') /\ plan.start + plan.len <= Len(audio')
          /\ AddChunk(audio', plan)
      BY <1>1, <1>3, <2>1, <2>4
    <3>2. phase # "gone" /\ UNCHANGED <<serving, replies>>
      BY <1>4 DEF Push
    <3>3. QED BY <2>4, <3>1, <3>2, AddedIsPaid
  <2>6. SessionShape'
    BY <1>3, <2>1, <2>4, <2>5 DEF SessionShape
  <2>7. QED BY <1>5, <2>5, <2>6, TypesInPartsNext DEF OwedInv
<1>8. QED BY <1>6, <1>7

LEMMA FinishPays ==
  ASSUME OwedInv, Finish
  PROVE  OwedInv'
<1> DEFINE tail == Plan(base, Len(audio) - base, needs_dedup)
<1>1. SessionShape /\ ChannelsShape /\ StatusShape /\ TypesInv /\ EveryPartIsOwed
  BY TypesInParts DEF OwedInv
<1>2. /\ audio \in Texts /\ base \in Nat /\ Len(audio) \in Nat /\ base <= Len(audio)
      /\ needs_dedup \in BOOLEAN
  BY <1>1, LenProperties DEF SessionShape, Texts
<1>3. tail \in PlanRecords /\ tail.start + tail.len <= Len(audio)
  <2>1. Len(audio) - base \in Nat /\ base + (Len(audio) - base) = Len(audio)
    BY <1>2
  <2>2. QED BY <1>2, <2>1 DEF Plan, PlanRecords
<1>4. /\ phase = "input" /\ phase' = "wait" /\ base' = Len(audio) /\ audio' = audio
      /\ UNCHANGED <<needs_dedup, load_waited, output, serving, loaded, running, model_loading,
                     replies, faults, unheard>>
  BY DEF Finish, managerFrame
<1>5. StatusShape'
  BY <1>1, <1>4 DEF StatusShape, Phases
<1> HIDE DEF tail
<1>6. CASE tail.len < MinTail
  <2>1. /\ plans' = Append(plans, tail) /\ slots' = Append(slots, Done(<<>>, FALSE))
        /\ UNCHANGED <<results, queue>>
    BY <1>6 DEF Finish, tail
  <2>2. Done(<<>>, FALSE) \in Slots /\ Done(<<>>, FALSE).kind = "Done"
    BY SlotsAre, EmptyText
  <2>3. /\ plans' \in Seq(PlanRecords) /\ slots' \in Seq(Slots) /\ Len(slots') = Len(plans')
        /\ WithinAudio' /\ DOMAIN slots = 1..Len(plans) /\ DOMAIN slots' = 1 .. Len(plans) + 1
        /\ slots'[Len(plans) + 1] = Done(<<>>, FALSE)
        /\ \A j \in DOMAIN slots : slots'[j] = slots[j]
    <3>1. audio' \in Texts /\ Len(audio) <= Len(audio') /\ tail.start + tail.len <= Len(audio')
      BY <1>2, <1>3, <1>4
    <3>2. QED BY <1>1, <1>3, <2>1, <2>2, <3>1, ChunkAdded
  <2>4. SessionShape' /\ ChannelsShape'
    <3>1. /\ audio' \in Texts /\ base' \in Nat /\ base' <= Len(audio')
          /\ needs_dedup' \in BOOLEAN
      BY <1>2, <1>4
    <3>2. SessionShape'
      BY <2>3, <3>1 DEF SessionShape
    <3>3. ChannelsShape'
      BY <1>1, <1>4, <2>1 DEF ChannelsShape
    <3>4. QED BY <3>2, <3>3
  <2>5. Paid' = Paid
    BY <1>4, <2>1 DEF Paid, Waited
  <2>6. EveryPartIsOwed'
    <3> SUFFICES ASSUME NEW i \in DOMAIN slots', NEW p \in OpenIn(slots'[i])
                 PROVE  <<i, p>> \in Paid'
      BY OwedIsPaidNext
    <3>1. CASE i \in DOMAIN slots
      BY <1>1, <1>4, <2>3, <2>5, <3>1, OwedIsPaid
    <3>2. CASE i = Len(plans) + 1
      BY <2>2, <2>3, <3>2 DEF OpenIn
    <3>3. Len(plans) \in Nat
      BY <1>1, LenProperties DEF SessionShape
    <3>4. QED BY <2>3, <3>1, <3>2, <3>3
  <2>7. QED BY <1>5, <2>4, <2>6, TypesInPartsNext DEF OwedInv
<1>7. CASE ~(tail.len < MinTail)
  <2>1. AddChunk(audio', tail)
    BY <1>4, <1>7 DEF Finish, tail
  <2>2. /\ plans' \in Seq(PlanRecords) /\ slots' \in Seq(Slots) /\ Len(slots') = Len(plans')
        /\ WithinAudio' /\ ChannelsShape' /\ EveryPartIsOwed'
    <3>1. audio' \in Texts /\ Len(audio) <= Len(audio') /\ tail.start + tail.len <= Len(audio')
      BY <1>2, <1>3, <1>4
    <3>2. phase # "gone" /\ UNCHANGED <<serving, replies>>
      BY <1>4
    <3>3. QED BY <1>3, <2>1, <3>1, <3>2, AddedIsPaid
  <2>3. SessionShape'
    BY <1>2, <1>4, <2>2 DEF SessionShape
  <2>4. QED BY <1>5, <2>2, <2>3, TypesInPartsNext DEF OwedInv
<1>8. QED BY <1>6, <1>7

(* An answer is read: the chunk it is for keeps its place.                  *)
LEMMA Reading ==
  ASSUME OwedInv, results # <<>>, NEW i \in DOMAIN slots, NEW part \in Parts,
         Reads(i, part, Head(results))
  PROVE  /\ SessionShape /\ ChannelsShape /\ StatusShape
         /\ phase \in {"collect", "wait", "late"} /\ i \in Nat /\ slots[i] \in Slots
         /\ plans[i] \in PlanRecords /\ plans[i].start + plans[i].len <= Len(audio)
         /\ Head(results) \in Answers /\ Tail(results) \in Seq(Answers)
         /\ ClientsOf(results) = {<<i, part>>} \cup ClientsOf(Tail(results))
<1>1. SessionShape /\ ChannelsShape /\ StatusShape
  BY TypesInParts DEF OwedInv
<1>2. /\ slots \in Seq(Slots) /\ plans \in Seq(PlanRecords) /\ Len(slots) = Len(plans)
      /\ results \in Seq(Answers) /\ WithinAudio
  BY <1>1 DEF SessionShape, ChannelsShape
<1>3. /\ i \in 1..Len(slots) /\ i \in 1..Len(plans) /\ i \in DOMAIN plans
  BY <1>2, LenProperties
<1>4. /\ slots[i] \in Slots /\ plans[i] \in PlanRecords
      /\ plans[i].start + plans[i].len <= Len(audio)
  BY <1>2, <1>3, ElementOfSeq DEF WithinAudio
<1>5. Head(results) \in Answers /\ Tail(results) \in Seq(Answers)
  BY <1>2, HeadTailProperties
<1>6. ClientsOf(results) = {Head(results).client} \cup ClientsOf(Tail(results))
  BY <1>2, ClientsOfTail
<1>7. phase \in {"collect", "wait", "late"} /\ Head(results).client = <<i, part>>
  BY DEF Reads
<1>8. i \in Nat
  BY <1>3
<1>9. QED BY <1>1, <1>4, <1>5, <1>6, <1>7, <1>8

(* The chunk's slot becomes `slot`; what it has open is still to come.      *)
LEMMA ReadPays ==
  ASSUME OwedInv, results # <<>>, NEW i \in DOMAIN slots, NEW part \in Parts,
         Reads(i, part, Head(results)), NEW slot \in Slots, slots' = [slots EXCEPT ![i] = slot],
         queue' \in Seq(Made), results' \in Seq(Answers),
         ClientsOf(queue) \subseteq ClientsOf(queue'),
         ClientsOf(Tail(results)) \subseteq ClientsOf(results'),
         \A p \in OpenIn(slot) : \/ p \in OpenIn(slots[i]) \ {part}
                                 \/ <<i, p>> \in ClientsOf(queue') \cup ClientsOf(results')
  PROVE  OwedInv'
<1>1. /\ SessionShape /\ ChannelsShape /\ StatusShape
      /\ ClientsOf(results) = {<<i, part>>} \cup ClientsOf(Tail(results))
      /\ phase \in {"collect", "wait", "late"}
  BY Reading
<1>2. UNCHANGED <<phase, sessionVars, plans, load_waited, output, managerFrame, faults, unheard>>
  BY DEF Reads
<1>3. SessionShape'
  BY <1>1, <1>2, SlotsStep
<1>4. ChannelsShape' /\ StatusShape'
  BY <1>1, <1>2 DEF ChannelsShape, StatusShape, managerFrame
<1>5. DOMAIN slots' = DOMAIN slots /\ slots'[i] = slot
      /\ \A j \in DOMAIN slots : j # i => slots'[j] = slots[j]
  BY <1>1, SlotReplaced
<1>6. Paid \subseteq Paid' \cup {<<i, part>>}
  BY <1>1, <1>2 DEF Paid, Waited, managerFrame
<1>7. ClientsOf(queue') \cup ClientsOf(results') \subseteq Paid'
  BY DEF Paid
<1>8. EveryPartIsOwed'
  <2> SUFFICES ASSUME NEW j \in DOMAIN slots', NEW p \in OpenIn(slots'[j])
               PROVE  <<j, p>> \in Paid'
    BY OwedIsPaidNext
  <2>1. CASE j = i
    <3>1. CASE p \in OpenIn(slots[i]) \ {part}
      <4>1. <<i, p>> \in Paid /\ <<i, p>> # <<i, part>>
        BY <1>1, <3>1, OwedIsPaid DEF OwedInv
      <4>2. QED BY <1>6, <2>1, <4>1
    <3>2. CASE <<i, p>> \in ClientsOf(queue') \cup ClientsOf(results')
      BY <1>7, <2>1, <3>2
    <3>3. QED BY <1>5, <2>1, <3>1, <3>2
  <2>2. CASE j # i
    <3>1. <<j, p>> \in Paid /\ <<j, p>> # <<i, part>>
      BY <1>1, <1>5, <2>2, OwedIsPaid DEF OwedInv
    <3>2. QED BY <1>6, <3>1
  <2>3. QED BY <2>1, <2>2
<1>9. QED BY <1>3, <1>4, <1>8, TypesInPartsNext DEF OwedInv

LEMMA SettlePays ==
  ASSUME OwedInv, results # <<>>, NEW i \in DOMAIN slots, NEW part \in Parts,
         Reads(i, part, Head(results)), NEW text \in Texts, NEW failed \in BOOLEAN,
         Settle(i, text, failed)
  PROVE  OwedInv'
<1>1. Done(text, failed) \in Slots /\ OpenIn(Done(text, failed)) = {}
  BY SlotsAre DEF OpenIn
<1>2. /\ slots' = [slots EXCEPT ![i] = Done(text, failed)]
      /\ results' = Tail(results) /\ queue' = queue
  BY DEF Settle
<1>3. queue \in Seq(Made) /\ Tail(results) \in Seq(Answers)
  BY Reading DEF ChannelsShape
<1>4. QED BY <1>1, <1>2, <1>3, ReadPays

(* Another try, of the whole chunk or of its halves.                        *)
LEMMA DispatchPays ==
  ASSUME OwedInv, results # <<>>, NEW i \in DOMAIN slots, Reads(i, "Whole", Head(results)),
         NEW parts, NEW split, NEW slot \in Slots, slots' = [slots EXCEPT ![i] = slot],
         \/ parts = <<"Whole">> /\ split = 0 /\ OpenIn(slot) = {"Whole"}
         \/ /\ parts = <<"FirstHalf", "SecondHalf">> /\ split \in Splits(plans[i].len)
            /\ OpenIn(slot) = {"FirstHalf", "SecondHalf"},
         Dispatch(audio, i, plans[i], parts, split, Tail(results))
  PROVE  OwedInv'
<1>1. /\ SessionShape /\ ChannelsShape /\ i \in Nat /\ plans[i] \in PlanRecords
      /\ plans[i].start + plans[i].len <= Len(audio) /\ Tail(results) \in Seq(Answers)
  <2>1. "Whole" \in Parts
    BY DEF Parts
  <2>2. QED BY <2>1, Reading
<1>2. audio \in Texts /\ queue \in Seq(Made)
  BY <1>1 DEF SessionShape, ChannelsShape
<1>3. /\ parts \in {<<"Whole">>, <<"FirstHalf", "SecondHalf">>} /\ split \in Nat
      /\ split <= plans[i].len \/ parts = <<"Whole">>
  <2>1. \A s \in Splits(plans[i].len) : s \in Nat /\ s <= plans[i].len
    BY <1>1 DEF Splits, PlanRecords
  <2>2. QED BY <2>1
<1>4. /\ queue' \in Seq(Made) /\ results' \in Seq(Answers)
      /\ ClientsOf(queue) \subseteq ClientsOf(queue')
      /\ ClientsOf(Tail(results)) \subseteq ClientsOf(results')
      /\ \A k \in DOMAIN parts : <<i, parts[k]>> \in ClientsOf(queue') \cup ClientsOf(results')
  BY <1>1, <1>2, <1>3, Dispatches
<1>5. \A p \in OpenIn(slot) : <<i, p>> \in ClientsOf(queue') \cup ClientsOf(results')
  <2>1. CASE parts = <<"Whole">> /\ OpenIn(slot) = {"Whole"}
    <3>1. 1 \in DOMAIN parts /\ parts[1] = "Whole"
      BY <2>1
    <3>2. QED BY <1>4, <2>1, <3>1
  <2>2. CASE parts = <<"FirstHalf", "SecondHalf">> /\ OpenIn(slot) = {"FirstHalf", "SecondHalf"}
    <3>1. 1 \in DOMAIN parts /\ parts[1] = "FirstHalf" /\ 2 \in DOMAIN parts /\ parts[2] = "SecondHalf"
      BY <2>2
    <3>2. <<i, "FirstHalf">> \in ClientsOf(queue') \cup ClientsOf(results')
      BY <1>4, <3>1
    <3>3. <<i, "SecondHalf">> \in ClientsOf(queue') \cup ClientsOf(results')
      BY <1>4, <3>1
    <3>4. QED BY <2>2, <3>2, <3>3
  <2>3. QED BY <2>1, <2>2
<1>6. "Whole" \in Parts
  BY DEF Parts
<1>7. QED BY <1>4, <1>5, <1>6, ReadPays
(* What a half's answer makes of the chunk.                                 *)
LEMMA HalfPays ==
  ASSUME OwedInv, results # <<>>, NEW i \in DOMAIN slots,
         NEW part \in {"FirstHalf", "SecondHalf"}, HalfAnswered(i, part, Head(results))
  PROVE  OwedInv'
<1> DEFINE r == Head(results)
           answer == [state |-> IF Failed(r) THEN "err" ELSE "ok", text |-> r.text]
           first  == IF part = "FirstHalf"  THEN answer ELSE slots[i].first
           second == IF part = "SecondHalf" THEN answer ELSE slots[i].second
           text   == first.text \o second.text
           failed == "err" \in {first.state, second.state} \/ text = <<>>
<1>1. part \in Parts /\ Reads(i, part, r) /\ slots[i].kind = "Halves"
  BY DEF HalfAnswered, Parts
<1>2. /\ ChannelsShape /\ slots[i] \in Slots /\ r \in Answers /\ Tail(results) \in Seq(Answers)
  BY <1>1, Reading
<1>3. answer \in HalfStates /\ answer # Open
  <2>1. r.text \in Texts
    BY <1>2 DEF Answers
  <2>2. answer.state \in {"err", "ok"}
    OBVIOUS
  <2>3. QED BY <2>1, <2>2 DEF HalfStates, Open
<1>4. slots[i].first \in HalfStates /\ slots[i].second \in HalfStates
  BY <1>2 DEF Slots
<1> HIDE DEF answer, r
<1>5. first \in HalfStates /\ second \in HalfStates
  BY <1>3, <1>4
<1>6. text \in Texts
  <2>1. first.text \in Texts /\ second.text \in Texts
    BY <1>5 DEF HalfStates
  <2> HIDE DEF first, second
  <2>2. QED BY <2>1, ConcatProperties DEF Texts
<1>7. queue \in Seq(Made)
  BY <1>2 DEF ChannelsShape
<1>8. CASE "open" \in {first.state, second.state}
  <2>1. /\ slots' = [slots EXCEPT ![i] = Halves(first, second)] /\ results' = Tail(results)
        /\ queue' = queue
    BY <1>8, Zenon DEF HalfAnswered, answer, r
  <2>2. /\ Halves(first, second) \in Slots /\ Halves(first, second).kind = "Halves"
        /\ Halves(first, second).first = first /\ Halves(first, second).second = second
    BY <1>5, SlotsAre
  <2>3. \A p \in OpenIn(Halves(first, second)) : p \in OpenIn(slots[i]) \ {part}
    <3>1. CASE part = "FirstHalf"
      <4>1. first = answer /\ second = slots[i].second
        BY <3>1
      <4> HIDE DEF first, second
      <4>2. QED BY <1>1, <1>3, <2>2, <3>1, <4>1 DEF OpenIn
    <3>2. CASE part = "SecondHalf"
      <4>1. first = slots[i].first /\ second = answer
        BY <3>2
      <4> HIDE DEF first, second
      <4>2. QED BY <1>1, <1>3, <2>2, <3>2, <4>1 DEF OpenIn
    <3>3. QED BY <3>1, <3>2
  <2> HIDE DEF first, second
  <2>4. QED BY <1>1, <1>2, <1>7, <2>1, <2>2, <2>3, ReadPays DEF r
<1>9. CASE "open" \notin {first.state, second.state}
  <2>1. Settle(i, text, failed)
    BY <1>9, Zenon DEF HalfAnswered, answer, r
  <2>2. failed \in BOOLEAN
    OBVIOUS
  <2> HIDE DEF text, failed
  <2>3. QED BY <1>1, <1>6, <2>1, <2>2, SettlePays DEF r
<1>10. QED BY <1>8, <1>9

LEMMA TakeResultPays ==
  ASSUME OwedInv, TakeResult
  PROVE  OwedInv'
<1> DEFINE r == Head(results)
<1>1. results # <<>> /\ "Whole" \in Parts
  BY DEF TakeResult, Parts
<1>2. PICK i \in DOMAIN slots :
        \/ WholeHeard(i, r) \/ WholeEmpty(i, r) \/ WholeSplit(i, r)
        \/ WholeRetried(i, r) \/ WholeFailed(i, r)
        \/ \E part \in {"FirstHalf", "SecondHalf"} : HalfAnswered(i, part, r)
  BY DEF TakeResult
<1>3. <<>> \in Texts
  BY EmptyText
<1>4. CASE WholeHeard(i, r)
  <2>1. Reads(i, "Whole", r) /\ Settle(i, r.text, FALSE)
    BY <1>4 DEF WholeHeard
  <2>2. r.text \in Texts
    <3>1. r \in Answers
      BY <1>1, <2>1, Reading
    <3>2. QED BY <3>1 DEF Answers
  <2>3. QED BY <1>1, <2>1, <2>2, SettlePays
<1>5. CASE WholeEmpty(i, r)
  BY <1>1, <1>3, <1>5, SettlePays DEF WholeEmpty
<1>6. CASE WholeFailed(i, r)
  BY <1>1, <1>3, <1>6, SettlePays DEF WholeFailed
<1>7. CASE WholeRetried(i, r)
  <2>1. Whole(1) \in Slots /\ OpenIn(Whole(1)) = {"Whole"}
    BY SlotsAre DEF OpenIn, Parts
  <2>2. QED BY <1>1, <1>7, <2>1, DispatchPays DEF WholeRetried
<1>8. CASE WholeSplit(i, r)
  <2>1. /\ Halves(Open, Open) \in Slots /\ Halves(Open, Open).kind = "Halves"
        /\ Halves(Open, Open).first = Open /\ Halves(Open, Open).second = Open
    BY SlotsAre
  <2>2. OpenIn(Halves(Open, Open)) = {"FirstHalf", "SecondHalf"}
    BY <2>1 DEF OpenIn, Parts
  <2>3. PICK split \in Splits(plans[i].len) :
          Dispatch(audio, i, plans[i], <<"FirstHalf", "SecondHalf">>, split, Tail(results))
    BY <1>8 DEF WholeSplit
  <2>4. Reads(i, "Whole", r) /\ slots' = [slots EXCEPT ![i] = Halves(Open, Open)]
    BY <1>8 DEF WholeSplit
  <2>5. QED BY <1>1, <2>1, <2>2, <2>3, <2>4, DispatchPays
<1>9. CASE \E part \in {"FirstHalf", "SecondHalf"} : HalfAnswered(i, part, r)
  BY <1>1, <1>9, HalfPays
<1>10. QED BY <1>2, <1>4, <1>5, <1>6, <1>7, <1>8, <1>9
-----------------------------------------------------------------------------
(* The end of a recording.                                                  *)

LEMMA AssembledTyped ==
  ASSUME SessionShape
  PROVE  Assembled \in Texts /\ FailedChunks \in Nat
<1>1. /\ slots \in Seq(Slots) /\ Len(slots) = Len(plans) /\ Len(plans) \in Nat
      /\ DOMAIN slots = 1..Len(plans)
  BY LenProperties DEF SessionShape
<1> DEFINE texts == [i \in DOMAIN slots |-> slots[i].text]
<1>2. texts \in [1..Len(plans) -> Seq(Units)]
  <2>1. \A i \in DOMAIN slots : slots[i] \in Slots
    BY <1>1, ElementOfSeq
  <2>2. \A i \in DOMAIN slots : slots[i].text \in Seq(Units)
    BY <2>1 DEF Slots, Texts
  <2>3. QED BY <1>1, <2>2
<1>3. Assembled \in Texts
  <2> HIDE DEF texts
  <2>1. Assemble(plans, texts) \in Seq(Units)
    BY <1>1, <1>2, AssembleIsASequence
  <2>2. QED BY <2>1 DEF Assembled, texts, Texts
<1>4. FailedChunks \in Nat
  <2>1. IsFiniteSet(DOMAIN slots)
    BY <1>1, FS_Interval
  <2>2. Outstanding \cup {i \in DOMAIN slots : slots[i].failed} \subseteq DOMAIN slots
    BY DEF Outstanding
  <2> DEFINE missing == Outstanding \cup {i \in DOMAIN slots : slots[i].failed}
  <2> HIDE DEF missing
  <2>3. missing \subseteq DOMAIN slots
    BY <2>2 DEF missing
  <2>4. Cardinality(missing) \in Nat
    BY <2>1, <2>3, FS_Subset, FS_CardinalityType
  <2>5. QED BY <2>4 DEF FailedChunks, missing
<1>5. QED BY <1>3, <1>4

LEMMA AnswersTyped ==
  ASSUME NEW text \in Texts, NEW failed \in Nat
  PROVE  /\ \A partial \in BOOLEAN : Final(text, failed, partial) \in Sent
         /\ Late(text, failed) \in Sent /\ Lost \in Sent
BY EmptyText DEF Final, Late, Lost, Sent

LEMMA ExitTyped ==
  ASSUME NEW sent \in Seq(Sent), Exit(sent)
  PROVE  phase' = "gone" /\ output' \in Seq(Sent)
<1>1. Lost \in Sent
  BY EmptyText DEF Lost, Sent
<1> HIDE DEF Sent
<1>2. Append(sent, Lost) \in Seq(Sent)
  BY <1>1, AppendProperties
<1>3. QED BY <1>2 DEF Exit

(* The session and the manager stand; more may have been sent.              *)
LEMMA SentPays ==
  ASSUME OwedInv, UNCHANGED frame, output' \in Seq(Sent), phase' \in Phases, phase # "gone",
         load_waited' \in 0..MaxLoadWait
  PROVE  OwedInv'
<1>1. SessionShape /\ ChannelsShape /\ StatusShape /\ EveryPartIsOwed
  BY TypesInParts DEF OwedInv
<1>2. UNCHANGED <<sessionVars, plans, slots, results, queue, serving, loaded, running,
                  model_loading, replies, faults, unheard>>
  BY DEF frame, managerVars
<1>3. SessionShape'
  BY <1>1, <1>2, SessionStands
<1>4. ChannelsShape' /\ StatusShape'
  BY <1>1, <1>2 DEF ChannelsShape, StatusShape
<1>5. Paid' = Paid /\ slots' = slots
  BY <1>2 DEF Paid, Waited
<1>6. EveryPartIsOwed'
  BY <1>1, <1>5, StillPaid
<1>7. QED BY <1>3, <1>4, <1>6, TypesInPartsNext DEF OwedInv

LEMMA FinishingPays ==
  ASSUME OwedInv, PollLoading \/ WatchdogFires \/ Deliver \/ DeliverLate \/ GiveUp
  PROVE  OwedInv'
<1>1. /\ Assembled \in Texts /\ FailedChunks \in Nat /\ output \in Seq(Sent)
      /\ load_waited \in 0..MaxLoadWait /\ phase \in Phases
  BY AssembledTyped, TypesInParts DEF OwedInv, StatusShape
<1>2. /\ Append(output, Final(Assembled, FailedChunks, TRUE)) \in Seq(Sent)
      /\ Append(output, Final(Assembled, FailedChunks, FALSE)) \in Seq(Sent)
      /\ Append(output, Late(Assembled, FailedChunks)) \in Seq(Sent)
  <2>1. /\ Final(Assembled, FailedChunks, TRUE) \in Sent
        /\ Final(Assembled, FailedChunks, FALSE) \in Sent
        /\ Late(Assembled, FailedChunks) \in Sent
    BY <1>1, AnswersTyped
  <2> HIDE DEF Sent
  <2>2. QED BY <1>1, <2>1, AppendProperties
<1> HIDE DEF Sent
<1>3. CASE PollLoading
  <2>1. UNCHANGED <<phase, output, frame>> /\ phase = "wait" /\ load_waited < MaxLoadWait
        /\ load_waited' = load_waited + 1
    BY <1>3 DEF PollLoading, Waiting, LoadHolds
  <2>2. load_waited' \in 0..MaxLoadWait
    BY <1>1, <2>1, Numbers
  <2>3. QED BY <1>1, <2>1, <2>2, SentPays
<1>4. CASE WatchdogFires
  <2>1. /\ UNCHANGED <<load_waited, frame>> /\ phase = "wait" /\ phase' \in Phases
        /\ output' = Append(output, Final(Assembled, FailedChunks, TRUE))
    BY <1>4 DEF WatchdogFires, Waiting, Phases
  <2>2. QED BY <1>1, <1>2, <2>1, SentPays
<1>5. CASE Deliver
  <2>1. /\ UNCHANGED <<load_waited, frame>> /\ phase = "wait"
        /\ Exit(Append(output, Final(Assembled, FailedChunks, FALSE)))
    BY <1>5 DEF Deliver
  <2>2. phase' \in Phases /\ output' \in Seq(Sent)
    BY <1>2, <2>1, ExitTyped DEF Phases
  <2>3. QED BY <1>1, <2>1, <2>2, SentPays
<1>6. CASE DeliverLate
  <2>1. /\ UNCHANGED <<load_waited, frame>> /\ phase = "late"
        /\ Exit(Append(output, Late(Assembled, FailedChunks)))
    BY <1>6 DEF DeliverLate
  <2>2. phase' \in Phases /\ output' \in Seq(Sent)
    BY <1>2, <2>1, ExitTyped DEF Phases
  <2>3. QED BY <1>1, <2>1, <2>2, SentPays
<1>7. CASE GiveUp
  <2>1. UNCHANGED <<load_waited, frame>> /\ phase = "late" /\ Exit(output)
    BY <1>7 DEF GiveUp, Waiting
  <2>2. phase' \in Phases /\ output' \in Seq(Sent)
    BY <1>1, <2>1, ExitTyped DEF Phases
  <2>3. QED BY <1>1, <2>1, <2>2, SentPays
<1>8. QED BY <1>3, <1>4, <1>5, <1>6, <1>7

(* The worker ends while collecting or on input, or dies.                   *)
LEMMA EndingPays ==
  ASSUME OwedInv, Collected \/ Abandon \/ PanicFinishing \/ PanicCollecting
  PROVE  OwedInv'
<1>1. /\ SessionShape /\ ChannelsShape /\ StatusShape /\ EveryPartIsOwed
      /\ output \in Seq(Sent) /\ load_waited \in 0..MaxLoadWait
  BY TypesInParts DEF OwedInv, StatusShape
<1>2. CASE Collected \/ Abandon
  <2>1. UNCHANGED frame /\ UNCHANGED load_waited /\ phase # "gone"
    BY <1>2 DEF Collected, Abandon, frame
  <2>2. phase' \in Phases /\ output' \in Seq(Sent)
    <3>1. CASE Collected
      BY <1>1, <3>1 DEF Collected, Phases
    <3>2. CASE Abandon
      BY <1>1, <3>2, ExitTyped DEF Abandon, Phases
    <3>3. QED BY <1>2, <3>1, <3>2
  <2>3. QED BY <1>1, <2>1, <2>2, SentPays
<1>3. CASE PanicFinishing \/ PanicCollecting
  <2>1. /\ UNCHANGED <<sessionVars, plans, slots, results, load_waited, queue, serving, loaded,
                       running, model_loading, replies, unheard>>
        /\ Fails
    BY <1>3 DEF PanicFinishing, PanicCollecting, panicFrame, managerFrame
  <2>2. faults' \in 0..MaxFaults
    BY <1>1, <2>1, Numbers DEF Fails, StatusShape
  <2>3. phase' = "gone" /\ output' \in Seq(Sent)
    <3>1. Append(output, Final(<<>>, Len(plans), TRUE)) \in Seq(Sent)
      <4>1. Final(<<>>, Len(plans), TRUE) \in Sent
        BY <1>1, LenProperties, EmptyText, AnswersTyped DEF SessionShape
      <4> HIDE DEF Sent
      <4>2. QED BY <1>1, <4>1, AppendProperties
    <3>2. CASE PanicFinishing
      BY <3>1, <3>2, ExitTyped DEF PanicFinishing
    <3>3. CASE PanicCollecting
      BY <1>1, <3>3, ExitTyped DEF PanicCollecting
    <3>4. QED BY <1>3, <3>2, <3>3
  <2>4. SessionShape'
    BY <1>1, <2>1, SessionStands
  <2>5. ChannelsShape' /\ StatusShape'
    BY <1>1, <2>1, <2>2, <2>3 DEF ChannelsShape, StatusShape, Phases
  <2>6. EveryPartIsOwed'
    BY <2>3, OwedIsPaidNext
  <2>7. QED BY <2>4, <2>5, <2>6, TypesInPartsNext DEF OwedInv
<1>4. QED BY <1>2, <1>3
-----------------------------------------------------------------------------
(* The manager and the forwarders.                                          *)

LEMMA ManagerPays ==
  ASSUME OwedInv, UNCHANGED workerVars, ChannelsShape', StatusShape',
         \A x \in Paid : x = <<>> \/ x \in Paid'
  PROVE  OwedInv'
<1>1. SessionShape /\ EveryPartIsOwed
  BY TypesInParts DEF OwedInv
<1>2. UNCHANGED <<phase, sessionVars, plans, slots>>
  BY DEF workerVars
<1>3. SessionShape'
  BY <1>1, <1>2, SessionStands
<1>4. EveryPartIsOwed'
  <2> SUFFICES ASSUME phase # "gone", NEW i \in DOMAIN slots, NEW p \in OpenIn(slots[i])
               PROVE  <<i, p>> \in Paid'
    BY <1>2, OwedIsPaidNext
  <2>1. <<i, p>> \in Paid
    BY <1>1, OwedIsPaid
  <2>2. <<i, p>> # <<>>
    OBVIOUS
  <2>3. QED BY <2>1, <2>2
<1>5. QED BY <1>3, <1>4, TypesInPartsNext DEF OwedInv

(* The command served is answered.                                          *)
LEMMA ReplyPays ==
  ASSUME OwedInv, UNCHANGED <<workerVars, queue>>,
         replies \subseteq replies', replies' \subseteq Answers,
         serving.client \in Waited' \cup {<<>>}, serving' = Nothing, StatusShape'
  PROVE  OwedInv'
<1>1. ChannelsShape /\ results' = results /\ queue' = queue
  BY TypesInParts DEF OwedInv, workerVars
<1>2. serving' \in Made /\ ChannelsShape'
  BY <1>1, EmptyText DEF ChannelsShape
<1>3. Waited \subseteq Waited'
  BY DEF Waited
<1>4. \A x \in Paid : x = <<>> \/ x \in Paid'
  BY <1>1, <1>3 DEF Paid
<1>5. QED BY <1>2, <1>4, ManagerPays

LEMMA ReplyAnswers ==
  ASSUME ChannelsShape, NEW result \in {"text", "empty", "err", "hungup"}, NEW text \in Texts,
         Reply(serving, result, text)
  PROVE  /\ replies \subseteq replies' /\ replies' \subseteq Answers
         /\ serving.client \in Waited'
<1>1. /\ Answered(serving, result, text) \in Answers
      /\ Answered(serving, result, text).client = serving.client
  BY AnswerTyped DEF ChannelsShape
<1>2. QED BY <1>1 DEF Reply, Waited, ChannelsShape

LEMMA FailsTyped ==
  ASSUME StatusShape, Fails
  PROVE  faults' \in 0..MaxFaults
BY Numbers DEF StatusShape, Fails

LEMMA TakeCommandPays ==
  ASSUME OwedInv, TakeCommand, UNCHANGED <<workerVars, unheard>>
  PROVE  OwedInv'
<1>1. ChannelsShape /\ StatusShape
  BY TypesInParts DEF OwedInv
<1>2. /\ queue \in Seq(Made) /\ queue # <<>> /\ serving \in Made /\ serving.kind = "Nothing"
      /\ results \in Seq(Answers) /\ replies \subseteq Answers
  BY <1>1 DEF ChannelsShape, TakeCommand, Idle, Serving
<1>3. serving.client = <<>>
  BY <1>2 DEF Made
<1>4. /\ Head(queue) \in Made /\ Tail(queue) \in Seq(Made)
      /\ ClientsOf(queue) = {Head(queue).client} \cup ClientsOf(Tail(queue))
  BY <1>2, HeadTailProperties, ClientsOfTail
<1>5. /\ queue' = Tail(queue) /\ results' = results /\ replies' = replies
      /\ serving' \in Made /\ (serving'.client = Head(queue).client \/ Head(queue).client = <<>>)
  <2>1. serving' = IF loaded /\ Head(queue) = Warmup THEN Nothing ELSE Head(queue)
    BY DEF TakeCommand
  <2>2. CASE loaded /\ Head(queue) = Warmup
    BY <2>1, <2>2, EmptyText DEF TakeCommand, workerVars
  <2>3. CASE ~(loaded /\ Head(queue) = Warmup)
    BY <1>4, <2>1, <2>3 DEF TakeCommand, workerVars
  <2>4. QED BY <2>2, <2>3
<1>6. ChannelsShape'
  BY <1>2, <1>4, <1>5 DEF ChannelsShape
<1>7. StatusShape'
  BY <1>1 DEF StatusShape, TakeCommand, Status, workerVars
<1>8. \A x \in Paid : x = <<>> \/ x \in Paid'
  BY <1>3, <1>4, <1>5 DEF Paid, Waited
<1>9. QED BY <1>6, <1>7, <1>8, ManagerPays

LEMMA LoadSucceedsPays ==
  ASSUME OwedInv, LoadSucceeds, UNCHANGED <<workerVars, unheard>>
  PROVE  OwedInv'
<1>1. ChannelsShape /\ StatusShape
  BY TypesInParts DEF OwedInv
<1>2. /\ serving' \in Made /\ (serving'.client = serving.client \/ serving.client = <<>>)
      /\ UNCHANGED <<queue, results, replies>>
  <2>1. CASE serving = Warmup
    BY <2>1, EmptyText DEF LoadSucceeds, workerVars
  <2>2. CASE serving # Warmup
    BY <1>1, <2>2 DEF LoadSucceeds, workerVars, ChannelsShape
  <2>3. QED BY <2>1, <2>2
<1>3. ChannelsShape'
  BY <1>1, <1>2 DEF ChannelsShape
<1>4. StatusShape'
  BY <1>1 DEF StatusShape, LoadSucceeds, Status, workerVars
<1>5. \A x \in Paid : x = <<>> \/ x \in Paid'
  BY <1>2 DEF Paid, Waited
<1>6. QED BY <1>3, <1>4, <1>5, ManagerPays

(* A panic of the load hangs up on the command served and on those queued.  *)
LEMMA LoadPanicsPays ==
  ASSUME OwedInv, LoadPanics, UNCHANGED <<workerVars, unheard>>
  PROVE  OwedInv'
<1> DEFINE lost == {serving} \cup {queue[i] : i \in DOMAIN queue}
<1>1. ChannelsShape /\ StatusShape
  BY TypesInParts DEF OwedInv
<1>2. /\ queue \in Seq(Made) /\ serving \in Made /\ results \in Seq(Answers)
      /\ replies \subseteq Answers
  BY <1>1 DEF ChannelsShape
<1>3. lost \subseteq Made
  BY <1>2, ElementOfSeq, LenProperties
<1>4. /\ replies' = replies \cup {Answered(c, "hungup", <<>>) : c \in lost \ {Warmup}}
      /\ queue' = <<>> /\ serving' = Nothing /\ results' = results
  BY DEF LoadPanics, workerVars
<1>5. \A c \in lost : /\ Answered(c, "hungup", <<>>) \in Answers
                      /\ Answered(c, "hungup", <<>>).client = c.client
  BY <1>3, AnswerTyped, EmptyText
<1>6. ClientsOf(queue) \cup {serving.client} = {c.client : c \in lost}
  BY DEF ClientsOf
<1> HIDE DEF lost
<1>7. ChannelsShape'
  BY <1>2, <1>4, <1>5, EmptyText, EmptySeq DEF ChannelsShape
<1>8. StatusShape'
  <2>1. faults' \in 0..MaxFaults
    BY <1>1, FailsTyped DEF LoadPanics
  <2>2. QED BY <1>1, <2>1 DEF StatusShape, LoadPanics, workerVars
<1>9. \A c \in lost : c.client = <<>> \/ c.client \in Waited'
  <2> SUFFICES ASSUME NEW c \in lost, c # Warmup
               PROVE  c.client \in Waited'
    BY EmptyText
  <2>1. Answered(c, "hungup", <<>>) \in replies'
    BY <1>4
  <2>2. QED BY <1>5, <2>1 DEF Waited
<1>10. Waited \subseteq Waited'
  BY <1>4 DEF Waited
<1>11. \A x \in Paid : x = <<>> \/ x \in Paid'
  BY <1>4, <1>6, <1>9, <1>10 DEF Paid
<1>12. QED BY <1>7, <1>8, <1>11, ManagerPays

LEMMA EnginePays ==
  ASSUME OwedInv, EngineNext
  PROVE  OwedInv'
<1>1. ChannelsShape /\ StatusShape /\ <<>> \in Texts
  BY TypesInParts, EmptyText DEF OwedInv
<1>2. Words(serving.samples) \in Texts /\ ToSet(Words(serving.samples)) \subseteq Units
  <2>1. serving.samples \in Seq(Units)
    BY <1>1 DEF ChannelsShape, Made, Commands, Texts
  <2>2. Words(serving.samples) \in Seq(Units)
    BY <2>1, WordsAreASequence
  <2>3. QED BY <2>2, ElementOfSeq, LenProperties DEF Texts, ToSet
<1>3. CASE EngineHears
  <2> DEFINE words == Words(serving.samples)
             result == IF words = <<>> THEN "empty" ELSE "text"
  <2>1. /\ Reply(serving, result, words) /\ serving' = Nothing /\ UNCHANGED <<workerVars, queue>>
        /\ UNCHANGED <<faults, unheard, loaded, running, model_loading>>
    BY <1>3 DEF EngineHears, Transcribed
  <2>2. StatusShape'
    BY <1>1, <2>1 DEF StatusShape, workerVars
  <2>3. result \in {"text", "empty", "err", "hungup"} /\ words \in Texts
    BY <1>2
  <2> HIDE DEF words, result
  <2>4. /\ replies \subseteq replies' /\ replies' \subseteq Answers
        /\ serving.client \in Waited'
    BY <1>1, <2>1, <2>3, ReplyAnswers
  <2>5. QED BY <2>1, <2>2, <2>4, ReplyPays
<1>4. CASE EngineDeaf
  <2>1. /\ Reply(serving, "empty", <<>>) /\ serving' = Nothing /\ UNCHANGED <<workerVars, queue>>
        /\ Fails /\ UNCHANGED <<loaded, running, model_loading>>
        /\ unheard' = unheard \cup ToSet(Words(serving.samples))
    BY <1>4 DEF EngineDeaf, Transcribed
  <2>2. faults' \in 0..MaxFaults
    BY <1>1, <2>1, FailsTyped
  <2>3. StatusShape'
    BY <1>1, <1>2, <2>1, <2>2 DEF StatusShape, workerVars
  <2>4. /\ replies \subseteq replies' /\ replies' \subseteq Answers
        /\ serving.client \in Waited'
    BY <1>1, <2>1, ReplyAnswers
  <2>5. QED BY <2>1, <2>3, <2>4, ReplyPays
<1>5. CASE EngineErrs
  <2>1. /\ Reply(serving, "err", <<>>) /\ serving' = Nothing /\ UNCHANGED <<workerVars, queue>>
        /\ Fails /\ UNCHANGED <<loaded, running, model_loading, unheard>>
    BY <1>5 DEF EngineErrs, Transcribed
  <2>2. faults' \in 0..MaxFaults
    BY <1>1, <2>1, FailsTyped
  <2>3. StatusShape'
    BY <1>1, <1>2, <2>1, <2>2 DEF StatusShape, workerVars
  <2>4. /\ replies \subseteq replies' /\ replies' \subseteq Answers
        /\ serving.client \in Waited'
    BY <1>1, <2>1, ReplyAnswers
  <2>5. QED BY <2>1, <2>3, <2>4, ReplyPays
<1>6. CASE InferencePanics /\ UNCHANGED <<workerVars, unheard>>
  <2>1. /\ Reply(serving, "err", <<>>) /\ serving' = Nothing /\ UNCHANGED <<workerVars, queue>>
        /\ Fails /\ UNCHANGED <<running, model_loading, unheard>> /\ loaded' = FALSE
    BY <1>6 DEF InferencePanics
  <2>2. faults' \in 0..MaxFaults
    BY <1>1, <2>1, FailsTyped
  <2>3. StatusShape'
    BY <1>1, <1>2, <2>1, <2>2 DEF StatusShape, workerVars
  <2>4. /\ replies \subseteq replies' /\ replies' \subseteq Answers
        /\ serving.client \in Waited'
    BY <1>1, <2>1, ReplyAnswers
  <2>5. QED BY <2>1, <2>3, <2>4, ReplyPays
<1>7. CASE LoadFails /\ UNCHANGED <<workerVars, unheard>>
  <2>1. /\ serving' = Nothing /\ UNCHANGED <<workerVars, queue>>
        /\ Fails /\ UNCHANGED <<loaded, running, unheard>> /\ model_loading' = FALSE
    BY <1>7 DEF LoadFails, Status
  <2>2. faults' \in 0..MaxFaults
    BY <1>1, <2>1, FailsTyped
  <2>3. StatusShape'
    BY <1>1, <1>2, <2>1, <2>2 DEF StatusShape, workerVars
  <2>4. /\ replies \subseteq replies' /\ replies' \subseteq Answers
        /\ serving.client \in Waited' \cup {<<>>}
    <3>1. CASE serving = Warmup
      BY <1>1, <1>7, <3>1, EmptyText DEF LoadFails, ChannelsShape
    <3>2. CASE serving # Warmup
      <4>1. Reply(serving, "err", <<>>)
        BY <1>7, <3>2 DEF LoadFails
      <4>2. QED BY <1>1, <4>1, ReplyAnswers
    <3>3. QED BY <3>1, <3>2
  <2>5. QED BY <2>1, <2>3, <2>4, ReplyPays
<1>8. CASE ManagerIdles
  <2>1. /\ UNCHANGED <<workerVars, queue, serving, replies, running, unheard>>
        /\ Fails /\ loaded' = FALSE /\ model_loading' = FALSE
    BY <1>8 DEF ManagerIdles, IdleUnload, Status
  <2>2. faults' \in 0..MaxFaults
    BY <1>1, <2>1, FailsTyped
  <2>3. StatusShape' /\ ChannelsShape'
    BY <1>1, <2>1, <2>2 DEF StatusShape, ChannelsShape, workerVars
  <2>4. \A x \in Paid : x \in Paid'
    BY <2>1 DEF Paid, Waited, workerVars
  <2>5. QED BY <2>1, <2>3, <2>4, ManagerPays
<1>9. QED
  BY <1>3, <1>4, <1>5, <1>6, <1>7, <1>8, TakeCommandPays, LoadSucceedsPays, LoadPanicsPays
  DEF EngineNext, ManagerSteps

(* An answer goes from the manager's reply to the worker's results.         *)
LEMMA ForwardPays ==
  ASSUME OwedInv, ForwardAnswer
  PROVE  OwedInv'
<1>1. SessionShape /\ ChannelsShape /\ StatusShape /\ EveryPartIsOwed
  BY TypesInParts DEF OwedInv
<1>2. PICK r \in replies :
        /\ replies' = replies \ {r} /\ results' = Append(results, r)
        /\ UNCHANGED <<phase, sessionVars, plans, slots, load_waited, output, queue, serving,
                       loaded, running, model_loading, faults, unheard>>
  BY DEF ForwardAnswer
<1>3. /\ results' \in Seq(Answers) /\ ClientsOf(results') = ClientsOf(results) \cup {r.client}
  BY <1>1, <1>2, AppendProperties, ClientsOfAppend DEF ChannelsShape
<1>4. SessionShape'
  BY <1>1, <1>2, SessionStands
<1>5. ChannelsShape' /\ StatusShape'
  BY <1>1, <1>2, <1>3 DEF ChannelsShape, StatusShape
<1>6. Paid \subseteq Paid'
  BY <1>2, <1>3 DEF Paid, Waited
<1>7. EveryPartIsOwed'
  BY <1>1, <1>2, <1>6, StillPaid
<1>8. QED BY <1>4, <1>5, <1>7, TypesInPartsNext DEF OwedInv

-----------------------------------------------------------------------------
LEMMA OwedFromTheStart == RollingInit => OwedInv
<1> SUFFICES ASSUME RollingInit PROVE OwedInv
  OBVIOUS
<1>1. /\ phase = "input" /\ audio = <<>> /\ base = 0 /\ needs_dedup = FALSE /\ plans = <<>>
      /\ slots = <<>> /\ results = <<>> /\ load_waited = 0 /\ output = <<>> /\ unheard = {}
      /\ queue \in {<<>>, <<Warmup>>} /\ serving = Nothing /\ running = TRUE
      /\ loaded \in BOOLEAN /\ model_loading = FALSE /\ replies = {} /\ faults = MaxFaults
  BY DEF RollingInit, ManagerInit
<1>2. <<>> \in Texts /\ Nothing \in Made /\ queue \in Seq(Made)
  <2>1. Warmup \in Made
    BY EmptyText
  <2> HIDE DEF Made
  <2>2. <<Warmup>> \in Seq(Made)
    BY <2>1
  <2>3. QED BY <1>1, <2>2, EmptyText, EmptySeq
<1>3. SessionShape
  <2>1. Len(<<>>) = 0 /\ DOMAIN plans = {}
    BY <1>1
  <2>2. Len(audio) = 0 /\ Len(slots) = Len(plans)
    BY <1>1, <2>1
  <2>3. plans \in Seq(PlanRecords) /\ slots \in Seq(Slots)
    BY <1>1, EmptySeq
  <2>4. /\ audio \in Texts /\ base \in Nat /\ base <= Len(audio) /\ needs_dedup \in BOOLEAN
    <3>1. audio \in Texts
      BY <1>1, <1>2
    <3>2. base \in Nat /\ base <= Len(audio)
      BY <1>1, <2>2
    <3>3. needs_dedup \in BOOLEAN
      BY <1>1
    <3>4. QED BY <3>1, <3>2, <3>3
  <2>5. WithinAudio
    BY <2>1 DEF WithinAudio
  <2>6. QED BY <2>2, <2>3, <2>4, <2>5 DEF SessionShape
<1>4. ChannelsShape /\ StatusShape
  <2>1. results \in Seq(Answers) /\ output \in Seq(Sent)
    BY <1>1, EmptySeq
  <2>2. load_waited \in 0..MaxLoadWait /\ faults \in 0..MaxFaults
    BY <1>1, Numbers
  <2>3. QED BY <1>1, <1>2, <2>1, <2>2 DEF ChannelsShape, StatusShape, Phases
<1>5. EveryPartIsOwed
  <2>1. DOMAIN slots = {}
    BY <1>1
  <2>2. QED BY <2>1, OwedIsPaid
<1>6. QED BY <1>3, <1>4, <1>5, TypesInParts DEF OwedInv

LEMMA StepPays ==
  ASSUME OwedInv, [RollingNext]_rollingVars
  PROVE  OwedInv'
<1>1. CASE RollingNext
  BY <1>1, PushPays, FinishPays, TakeResultPays, FinishingPays, EndingPays, EnginePays, ForwardPays
  DEF RollingNext, Speaks, WorkerRuns, WorkerPanics, Attended
<1>2. CASE UNCHANGED rollingVars
  BY <1>2, ManagerPays, TypesInParts
  DEF rollingVars, managerVars, workerVars, OwedInv, ChannelsShape, StatusShape, Paid, Waited
<1>3. QED BY <1>1, <1>2

LEMMA Safety == FairRollingSpec => RollingSpec
BY PTL DEF FairRollingSpec

LEMMA AlwaysOwed == RollingSpec => []OwedInv
<1>1. RollingInit => OwedInv
  BY OwedFromTheStart
<1>2. OwedInv /\ [RollingNext]_rollingVars => OwedInv'
  BY StepPays
<1>3. QED BY <1>1, <1>2, PTL DEF RollingSpec

(* Every variable of the worker and of the manager keeps its type, however  *)
(* long the recording and however often the engine fails.                   *)
THEOREM RollingTypes == RollingSpec => []RollingTypeOK
<1>1. OwedInv => RollingTypeOK
  BY DEF OwedInv, TypesInv
<1>2. QED BY <1>1, AlwaysOwed, PTL

(* No part of a chunk waits for an answer nobody will give: its command is  *)
(* queued or served, or its answer is under way, until the worker is over.  *)
THEOREM EveryPartHasAnAnswerComing == RollingSpec => []EveryPartIsOwed
<1>1. OwedInv => EveryPartIsOwed
  BY DEF OwedInv
<1>2. QED BY <1>1, AlwaysOwed, PTL
-----------------------------------------------------------------------------
(* Cutting as the audio comes.                                              *)

(* More audio moves no cut made.                                            *)
LEMMA CutAgrees ==
  ASSUME NEW buf, NEW more, \A i \in CutWindowMin + 1 .. SinglePassMax : buf[i] = more[i]
  PROVE  PlanCut(buf) = PlanCut(more)
<1>1. {i \in CutWindowMin + 1 .. SinglePassMax : buf[i] = Quiet}
        = {i \in CutWindowMin + 1 .. SinglePassMax : more[i] = Quiet}
  OBVIOUS
<1>2. QED BY <1>1 DEF PlanCut

LEMMA RestIs ==
  ASSUME NEW S, NEW heard \in Seq(S), NEW pos \in Nat, pos <= Len(heard)
  PROVE  /\ Rest(heard, pos) \in Seq(S) /\ Len(Rest(heard, pos)) = Len(heard) - pos
         /\ \A i \in 1 .. Len(heard) - pos : Rest(heard, pos)[i] = heard[pos + i]
<1>1. Len(heard) \in Nat
  BY LenProperties
<1>2. \A i \in pos + 1 .. Len(heard) : heard[i] \in S
  <2>1. \A i \in pos + 1 .. Len(heard) : i \in 1..Len(heard)
    BY <1>1
  <2>2. QED BY <2>1, ElementOfSeq
<1>3. /\ SubSeq(heard, pos + 1, Len(heard)) \in Seq(S)
      /\ Len(SubSeq(heard, pos + 1, Len(heard)))
           = IF pos + 1 <= Len(heard) THEN Len(heard) - (pos + 1) + 1 ELSE 0
      /\ \A i \in 1 .. Len(heard) - (pos + 1) + 1 :
           SubSeq(heard, pos + 1, Len(heard))[i] = heard[pos + 1 + i - 1]
  <2>1. pos + 1 \in Int /\ Len(heard) \in Int
    BY <1>1
  <2>2. QED BY <1>2, <2>1, SubSeqProperties
<1>4. \A i \in Nat : pos + 1 + i - 1 = pos + i
  OBVIOUS
<1>5. Len(heard) - (pos + 1) + 1 = Len(heard) - pos /\ (pos + 1 <= Len(heard) \/ Len(heard) - pos = 0)
  BY <1>1
<1>6. Rest(heard, pos) = SubSeq(heard, pos + 1, Len(heard))
  BY DEF Rest
<1>7. Len(SubSeq(heard, pos + 1, Len(heard))) = Len(heard) - pos
  BY <1>3, <1>5
<1>8. \A i \in 1 .. Len(heard) - pos :
        SubSeq(heard, pos + 1, Len(heard))[i] = heard[pos + i]
  <2> SUFFICES ASSUME NEW i \in 1 .. Len(heard) - pos
               PROVE  SubSeq(heard, pos + 1, Len(heard))[i] = heard[pos + i]
    OBVIOUS
  <2>1. i \in 1 .. Len(heard) - (pos + 1) + 1 /\ pos + 1 + i - 1 = pos + i
    BY <1>1
  <2>2. SubSeq(heard, pos + 1, Len(heard))[i] = heard[pos + 1 + i - 1]
    BY <1>3, <2>1
  <2>3. QED BY <2>1, <2>2
<1>9. QED BY <1>3, <1>6, <1>7, <1>8

LEMMA CutGrows ==
  ASSUME NEW S, NEW heard \in Seq(S), NEW u \in S, NEW p \in PlanRecords, NEW start, NEW dedup,
         CutTo(heard, p, start, dedup)
  PROVE  CutTo(Append(heard, u), p, start, dedup)
<1> DEFINE more == Append(heard, u)
<1>1. /\ more \in Seq(S) /\ Len(more) = Len(heard) + 1 /\ Len(heard) \in Nat
      /\ \A i \in 1..Len(heard) : more[i] = heard[i]
  BY AppendProperties, LenProperties
<1>2. p.start \in Nat /\ Len(heard) - p.start > SinglePassMax
  BY DEF CutTo, PlanRecords
<1> HIDE DEF more
<1>3. \A i \in CutWindowMin + 1 .. SinglePassMax : Rest(heard, p.start)[i] = Rest(more, p.start)[i]
  <2> SUFFICES ASSUME NEW i \in CutWindowMin + 1 .. SinglePassMax
               PROVE  Rest(heard, p.start)[i] = Rest(more, p.start)[i]
    OBVIOUS
  <2>1. /\ i \in 1 .. Len(heard) - p.start /\ i \in 1 .. Len(more) - p.start
        /\ p.start + i \in 1..Len(heard) /\ p.start <= Len(heard) /\ p.start <= Len(more)
    BY <1>1, <1>2, Numbers
  <2>2. Rest(heard, p.start)[i] = heard[p.start + i]
    BY <1>2, <2>1, RestIs
  <2>3. Rest(more, p.start)[i] = more[p.start + i]
    <3>1. \A k \in 1 .. Len(more) - p.start : Rest(more, p.start)[k] = more[p.start + k]
      <4>1. more \in Seq(S) /\ p.start \in Nat /\ p.start <= Len(more)
        BY <1>1, <1>2, <2>1
      <4>2. QED BY <4>1, RestIs
    <3>2. QED BY <2>1, <3>1
  <2>4. QED BY <1>1, <2>1, <2>2, <2>3
<1>4. PlanCut(Rest(heard, p.start)) = PlanCut(Rest(more, p.start))
  BY <1>3, CutAgrees
<1>5. Len(more) - p.start > SinglePassMax
  BY <1>1, <1>2, Numbers
<1>6. QED BY <1>4, <1>5 DEF CutTo, more

(* The plans made so far, and the cut after the last of them: what is left  *)
(* is one pass at most.                                                     *)
Chained(heard, made) ==
  /\ \A i \in 1 .. Len(made) - 1 : Follows(heard, made[i], made[i + 1])
  /\ made # <<>> => made[1].start = 0 /\ made[1].needs_dedup = FALSE
LeftAfter(heard, made, start, dedup) ==
  IF made = <<>> THEN start = 0 /\ dedup = FALSE
                 ELSE CutTo(heard, made[Len(made)], start, dedup)
CuttingSoFar ==
  /\ Chained(audio, plans) /\ LeftAfter(audio, plans, base, needs_dedup)
  /\ Len(audio) - base <= SinglePassMax
  /\ audio # <<>> => base < Len(audio)
CutInv ==
  /\ phase \in {"input", "collect"} => CuttingSoFar
  /\ phase \in {"wait", "late"} /\ audio # <<>> => Planned(audio, 0, FALSE, plans)

LEMMA ChainGrows ==
  ASSUME NEW heard \in Texts, NEW u \in Units, NEW made \in Seq(PlanRecords), NEW start, NEW dedup,
         Chained(heard, made), LeftAfter(heard, made, start, dedup)
  PROVE  Chained(Append(heard, u), made) /\ LeftAfter(Append(heard, u), made, start, dedup)
<1>1. \A i \in 1..Len(made) : made[i] \in PlanRecords
  BY ElementOfSeq
<1>2. Len(made) \in Nat /\ (made # <<>> => Len(made) > 0) /\ heard \in Seq(Units)
  BY LenProperties, EmptySeq DEF Texts
<1>3. \A i \in 1 .. Len(made) - 1 : Follows(Append(heard, u), made[i], made[i + 1])
  <2> SUFFICES ASSUME NEW i \in 1 .. Len(made) - 1
               PROVE  Follows(Append(heard, u), made[i], made[i + 1])
    OBVIOUS
  <2>1. i \in 1..Len(made) /\ made[i] \in PlanRecords
    BY <1>1, <1>2
  <2>2. CutTo(heard, made[i], made[i + 1].start, made[i + 1].needs_dedup)
    BY DEF Chained, Follows
  <2>3. QED BY <1>2, <2>1, <2>2, CutGrows DEF Follows
<1>4. LeftAfter(Append(heard, u), made, start, dedup)
  <2>1. CASE made = <<>>
    BY <2>1 DEF LeftAfter
  <2>2. CASE made # <<>>
    <3>1. Len(made) \in 1..Len(made)
      BY <1>2, <2>2
    <3>2. made[Len(made)] \in PlanRecords
      BY <1>1, <3>1
    <3>3. CutTo(heard, made[Len(made)], start, dedup)
      BY <2>2 DEF LeftAfter
    <3>4. QED BY <1>2, <2>2, <3>2, <3>3, CutGrows DEF LeftAfter
  <2>3. QED BY <2>1, <2>2
<1>5. QED BY <1>3, <1>4 DEF Chained

(* A plan made where the last cut left off.                                 *)
LEMMA ChainExtends ==
  ASSUME NEW heard, NEW made \in Seq(PlanRecords), NEW plan \in PlanRecords,
         Chained(heard, made), LeftAfter(heard, made, plan.start, plan.needs_dedup)
  PROVE  /\ Chained(heard, Append(made, plan))
         /\ Append(made, plan) \in Seq(PlanRecords) /\ Append(made, plan) # <<>>
         /\ Len(Append(made, plan)) = Len(made) + 1 /\ Append(made, plan)[Len(made) + 1] = plan
<1> DEFINE more == Append(made, plan)
<1>1. /\ more \in Seq(PlanRecords) /\ Len(more) = Len(made) + 1 /\ Len(made) \in Nat
      /\ \A i \in 1..Len(made) : more[i] = made[i]
      /\ more[Len(made) + 1] = plan /\ more # <<>>
      /\ (made = <<>> => Len(made) = 0) /\ (made # <<>> => Len(made) > 0)
  BY AppendProperties, LenProperties, EmptySeq
<1> HIDE DEF more
<1>2. \A i \in 1 .. Len(more) - 1 : Follows(heard, more[i], more[i + 1])
  <2> SUFFICES ASSUME NEW i \in 1 .. Len(more) - 1
               PROVE  Follows(heard, more[i], more[i + 1])
    OBVIOUS
  <2>1. CASE i \in 1 .. Len(made) - 1
    <3>1. more[i] = made[i] /\ more[i + 1] = made[i + 1]
      BY <1>1, <2>1
    <3>2. QED BY <2>1, <3>1 DEF Chained
  <2>2. CASE i = Len(made)
    <3>1. made # <<>> /\ more[i] = made[Len(made)] /\ more[i + 1] = plan
      BY <1>1, <2>2
    <3>2. QED BY <3>1 DEF LeftAfter, Follows
  <2>3. QED BY <1>1, <2>1, <2>2
<1>3. more[1].start = 0 /\ more[1].needs_dedup = FALSE
  <2>1. CASE made = <<>>
    BY <1>1, <2>1 DEF LeftAfter
  <2>2. CASE made # <<>>
    BY <1>1, <2>2 DEF Chained
  <2>3. QED BY <2>1, <2>2
<1>4. QED BY <1>1, <1>2, <1>3 DEF Chained, more
LEMMA PushCuts ==
  ASSUME OwedInv, CutInv, NEW u \in NextUnits, Push(u)
  PROVE  CutInv'
<1> DEFINE pushed == Append(audio, u)
           buf == SubSeq(pushed, base + 1, Len(pushed))
           cut == PlanCut(buf)
           plan == Plan(base, cut.at, needs_dedup)
<1>1. /\ audio \in Texts /\ base \in Nat /\ Len(audio) \in Nat /\ base <= Len(audio)
      /\ needs_dedup \in BOOLEAN /\ plans \in Seq(PlanRecords)
  BY TypesInParts, LenProperties DEF OwedInv, SessionShape, Texts
<1>2. u \in Units
  <2>1. u \in {1, Len(audio) + 1, Quiet}
    BY DEF NextUnits
  <2>2. Len(audio) < MaxAudio
    BY DEF Push
  <2>3. QED BY <1>1, <2>1, <2>2, Numbers DEF Units, Quiet
<1>3. /\ pushed \in Seq(Units) /\ Len(pushed) = Len(audio) + 1 /\ pushed # <<>>
  BY <1>1, <1>2, AppendProperties DEF Texts
<1>4. audio' = pushed /\ phase = "input" /\ phase' = "collect"
  BY DEF Push
<1>5. /\ Chained(audio, plans) /\ LeftAfter(audio, plans, base, needs_dedup)
      /\ Len(audio) - base <= SinglePassMax
  BY <1>4 DEF CutInv, CuttingSoFar
<1>6. Chained(pushed, plans) /\ LeftAfter(pushed, plans, base, needs_dedup)
  BY <1>1, <1>2, <1>5, ChainGrows
<1>7. buf = Rest(pushed, base) /\ Len(buf) = Len(pushed) - base
  <2>1. base <= Len(pushed)
    BY <1>1, <1>3
  <2>2. Len(Rest(pushed, base)) = Len(pushed) - base
    BY <1>1, <1>3, <2>1, RestIs
  <2>3. QED BY <2>2 DEF Rest
<1> HIDE DEF pushed, buf
<1>8. CASE ~CutDue(buf)
  <2>1. UNCHANGED <<base, needs_dedup, plans>>
    BY <1>8 DEF Push, buf, pushed
  <2>2. Len(pushed) - base <= SinglePassMax
    BY <1>1, <1>3, <1>7, <1>8, Numbers DEF CutDue
  <2>3. base < Len(pushed)
    BY <1>1, <1>3
  <2>4. CuttingSoFar'
    BY <1>4, <1>6, <2>1, <2>2, <2>3 DEF CuttingSoFar
  <2>5. QED BY <1>4, <2>4 DEF CutInv
<1>9. CASE CutDue(buf)
  <2>1. /\ plans' = Append(plans, plan) /\ base' = base + Advance(cut)
        /\ needs_dedup' = (cut.kind = "Hard")
    BY <1>9 DEF Push, AddChunk, buf, pushed
  <2>2. Len(pushed) - base > SinglePassMax
    BY <1>7, <1>9 DEF CutDue
  <2>3. cut.at \in 1..SinglePassMax /\ Advance(cut) \in 1..SinglePassMax
    BY CutIs
  <2> HIDE DEF cut
  <2>4. plan \in PlanRecords /\ plan.start = base /\ plan.len = cut.at
        /\ plan.needs_dedup = needs_dedup
    BY <1>1, <2>3 DEF Plan, PlanRecords
  <2> HIDE DEF plan
  <2>5. /\ Chained(pushed, Append(plans, plan)) /\ Append(plans, plan) # <<>>
        /\ Len(Append(plans, plan)) = Len(plans) + 1
        /\ Append(plans, plan)[Len(plans) + 1] = plan
    BY <1>1, <1>6, <2>4, ChainExtends
  <2>6. CutTo(pushed, plan, base', needs_dedup')
    BY <1>7, <2>1, <2>2, <2>4 DEF CutTo, cut
  <2>7. LeftAfter(pushed, plans', base', needs_dedup')
    BY <2>1, <2>5, <2>6 DEF LeftAfter
  <2>8. Len(pushed) - base' <= SinglePassMax /\ base' < Len(pushed)
    BY <1>1, <1>3, <1>5, <2>1, <2>2, <2>3, Numbers
  <2>9. CuttingSoFar'
    BY <1>4, <2>1, <2>5, <2>7, <2>8 DEF CuttingSoFar
  <2>10. QED BY <1>4, <2>9 DEF CutInv
<1>10. QED BY <1>8, <1>9

(* The tail is what is left: the plans are those of the whole recording.    *)
LEMMA FinishCuts ==
  ASSUME OwedInv, CutInv, Finish
  PROVE  CutInv'
<1> DEFINE tail == Plan(base, Len(audio) - base, needs_dedup)
<1>1. /\ audio \in Texts /\ base \in Nat /\ Len(audio) \in Nat /\ base <= Len(audio)
      /\ needs_dedup \in BOOLEAN /\ plans \in Seq(PlanRecords) /\ Len(plans) \in Nat
  BY TypesInParts, LenProperties DEF OwedInv, SessionShape, Texts
<1>2. phase = "input" /\ phase' = "wait" /\ audio' = audio
  BY DEF Finish
<1>3. plans' = Append(plans, tail)
  BY DEF Finish, AddChunk
<1>4. /\ tail \in PlanRecords /\ tail.start = base /\ tail.needs_dedup = needs_dedup
      /\ tail.len = Len(audio) - base
  BY <1>1 DEF Plan, PlanRecords
<1> HIDE DEF tail
<1>5. ASSUME audio # <<>>
      PROVE  Planned(audio, 0, FALSE, plans')
  <2>1. CuttingSoFar
    BY <1>2 DEF CutInv
  <2>2. /\ Chained(audio, plans') /\ plans' \in Seq(PlanRecords) /\ plans' # <<>>
        /\ Len(plans') = Len(plans) + 1 /\ plans'[Len(plans) + 1] = tail
    BY <1>1, <1>3, <1>4, <2>1, ChainExtends DEF CuttingSoFar
  <2>3. IsLast(audio, tail)
    BY <1>1, <1>4, <1>5, <2>1 DEF IsLast, CuttingSoFar
  <2>4. Len(plans') > 0
    BY <1>1, <2>2
  <2>5. QED BY <2>2, <2>3, <2>4 DEF Planned, Chained
<1>6. QED BY <1>2, <1>5 DEF CutInv

(* No other step plans.                                                     *)
LEMMA OthersDoNotCut ==
  ASSUME Collected \/ Abandon \/ TakeResult \/ PollLoading \/ WatchdogFires \/ Deliver
         \/ DeliverLate \/ GiveUp \/ WorkerPanics \/ EngineNext \/ ForwardAnswer
         \/ UNCHANGED rollingVars
  PROVE  /\ UNCHANGED <<sessionVars, plans>>
         /\ \/ phase' \in {phase, "gone"}
            \/ phase = "collect" /\ phase' = "input"
            \/ phase = "wait" /\ phase' = "late"
<1>1. CASE Collected \/ Abandon
  BY <1>1 DEF Collected, Abandon, Exit
<1>2. CASE TakeResult
  BY <1>2 DEF TakeResult, WholeHeard, WholeEmpty, WholeSplit, WholeRetried, WholeFailed,
              HalfAnswered, Reads
<1>3. CASE PollLoading \/ WatchdogFires
  BY <1>3 DEF PollLoading, WatchdogFires, Waiting, frame
<1>4. CASE Deliver \/ DeliverLate \/ GiveUp
  BY <1>4 DEF Deliver, DeliverLate, GiveUp, Exit, frame
<1>5. CASE WorkerPanics
  BY <1>5 DEF WorkerPanics, PanicFinishing, PanicCollecting, Exit, panicFrame
<1>6. CASE EngineNext
  BY <1>6 DEF EngineNext, EngineHears, EngineDeaf, EngineErrs, ManagerSteps, ManagerIdles, workerVars
<1>7. CASE ForwardAnswer
  BY <1>7 DEF ForwardAnswer
<1>8. CASE UNCHANGED rollingVars
  BY <1>8 DEF rollingVars, workerVars
<1>9. QED BY <1>1, <1>2, <1>3, <1>4, <1>5, <1>6, <1>7, <1>8

LEMMA StepCuts ==
  ASSUME OwedInv, CutInv, [RollingNext]_rollingVars
  PROVE  CutInv'
<1>1. CASE Speaks
  BY <1>1, PushCuts DEF Speaks
<1>2. CASE Finish
  BY <1>2, FinishCuts
<1>3. CASE ~Speaks /\ ~Finish
  <2>1. /\ UNCHANGED <<sessionVars, plans>>
        /\ \/ phase' \in {phase, "gone"}
           \/ phase = "collect" /\ phase' = "input"
           \/ phase = "wait" /\ phase' = "late"
    BY <1>3, OthersDoNotCut DEF RollingNext, WorkerRuns, Attended
  <2>2. UNCHANGED <<audio, base, needs_dedup, plans>>
    BY <2>1 DEF sessionVars
  <2>3. CuttingSoFar' <=> CuttingSoFar
    BY <2>2 DEF CuttingSoFar
  <2>4. QED BY <2>1, <2>2, <2>3 DEF CutInv
<1>4. QED BY <1>1, <1>2, <1>3

LEMMA AlwaysCut == RollingSpec => []CutInv
<1>1. RollingInit => CutInv
  <2> SUFFICES ASSUME RollingInit PROVE CutInv
    OBVIOUS
  <2>1. phase = "input" /\ audio = <<>> /\ base = 0 /\ needs_dedup = FALSE /\ plans = <<>>
    BY DEF RollingInit
  <2>2. Chained(audio, plans) /\ LeftAfter(audio, plans, base, needs_dedup)
    <3>1. Len(plans) = 0
      BY <2>1
    <3>2. QED BY <2>1, <3>1 DEF Chained, LeftAfter
  <2>3. Len(audio) - base <= SinglePassMax
    BY <2>1, Numbers
  <2>4. QED BY <2>1, <2>2, <2>3 DEF CutInv, CuttingSoFar
<1>2. OwedInv /\ CutInv /\ [RollingNext]_rollingVars => CutInv'
  BY StepCuts
<1>3. QED BY <1>1, <1>2, AlwaysOwed, PTL DEF RollingSpec

(* The chunks the worker cut while the recording was made are those that    *)
(* planning the whole recording at once gives, wherever quiet falls in it.  *)
THEOREM RollingCutsAsBatch == RollingSpec => []CutAsBatch
<1>1. OwedInv /\ CutInv => CutAsBatch
  <2> SUFFICES ASSUME OwedInv, CutInv, phase \in {"wait", "late"}, audio # <<>>
               PROVE  plans = PlanChunks(audio)
    BY DEF CutAsBatch
  <2>1. Len(audio) \in Nat /\ Len(audio) > 0
    BY TypesInParts, LenProperties, EmptySeq DEF OwedInv, SessionShape, Texts
  <2>2. Planned(audio, 0, FALSE, PlanChunks(audio))
    BY <2>1, PlanChunksPlans
  <2>3. Planned(audio, 0, FALSE, plans)
    BY DEF CutInv
  <2>4. QED BY <2>1, <2>2, <2>3, PlanIsUnique
<1>2. QED BY <1>1, AlwaysOwed, AlwaysCut, PTL
-----------------------------------------------------------------------------
(* The promise to the coordinator, as far as it is one of safety.           *)

Stage == CASE phase \in {"input", "collect"} -> "recording"
           [] phase = "wait" -> "finishing"
           [] phase = "late" -> "late"
           [] phase = "gone" -> "over"
Told == [i \in DOMAIN output |-> Said(output[i])]

(* Nothing is sent before the end, and then a partial answer alone.         *)
AnsweredSoFar ==
  /\ phase \in {"input", "collect", "wait"} => output = <<>>
  /\ phase = "late" => Len(output) = 1 /\ output[1].kind = "Final"

LEMMA StageIs ==
  /\ phase \in {"input", "collect"} => Stage = "recording"
  /\ phase = "wait" => Stage = "finishing"
  /\ phase = "late" => Stage = "late"
  /\ phase = "gone" => Stage = "over"
BY DEF Stage

LEMMA StageIsNext ==
  /\ phase' \in {"input", "collect"} => Stage' = "recording"
  /\ phase' = "wait" => Stage' = "finishing"
  /\ phase' = "late" => Stage' = "late"
  /\ phase' = "gone" => Stage' = "over"
BY DEF Stage

LEMMA ToldOneMore ==
  ASSUME output \in Seq(Sent), NEW x \in Sent, output' = Append(output, x)
  PROVE  Told' = Append(Told, Said(x)) /\ Told' = Told \o <<Said(x)>>
<1> DEFINE all == {Said(o) : o \in Sent}
<1>1. Told \in Seq(all) /\ Len(Told) = Len(output) /\ Said(x) \in all /\ Len(output) \in Nat
  <2>1. DOMAIN output = 1..Len(output) /\ Len(output) \in Nat
    BY LenProperties
  <2>2. \A i \in 1..Len(output) : Said(output[i]) \in all
    BY ElementOfSeq
  <2> HIDE DEF all
  <2>3. Told \in [1..Len(output) -> all]
    BY <2>1, <2>2 DEF Told
  <2>4. Told \in Seq(all)
    BY <2>1, <2>3, IsASeq
  <2>5. QED BY <2>1, <2>3, <2>4, LenProperties DEF all
<1>2. /\ DOMAIN output = 1..Len(output) /\ DOMAIN output' = 1 .. Len(output) + 1
      /\ \A i \in 1..Len(output) : output'[i] = output[i]
      /\ output'[Len(output) + 1] = x
  BY AppendProperties, LenProperties
<1>3. /\ DOMAIN Told' = 1 .. Len(output) + 1
      /\ \A i \in 1..Len(output) : Told'[i] = Told[i]
      /\ Told'[Len(output) + 1] = Said(x)
      /\ Told' = [i \in 1 .. Len(output) + 1 |-> Told'[i]]
  BY <1>1, <1>2 DEF Told
<1> HIDE DEF all
<1>4. /\ Append(Told, Said(x)) \in Seq(all) /\ DOMAIN Append(Told, Said(x)) = 1 .. Len(output) + 1
      /\ \A i \in 1..Len(output) : Append(Told, Said(x))[i] = Told[i]
      /\ Append(Told, Said(x))[Len(output) + 1] = Said(x)
  BY <1>1, AppendProperties, LenProperties
<1>5. Append(Told, Said(x)) = [i \in 1 .. Len(output) + 1 |-> Append(Told, Said(x))[i]]
  BY <1>4, LenProperties
<1>6. \A i \in 1 .. Len(output) + 1 : Told'[i] = Append(Told, Said(x))[i]
  BY <1>1, <1>3, <1>4
<1>7. Told' = Append(Told, Said(x))
  BY <1>3, <1>5, <1>6
<1>8. Append(Told, Said(x)) = Told \o <<Said(x)>>
  BY <1>1, AppendIsConcat
<1>9. QED BY <1>7, <1>8
(* The worker's end, when it sends something with a Final in it, and when   *)
(* it never sent one.                                                       *)
LEMMA ExitAnswered ==
  ASSUME NEW sent \in Seq(Sent), Exit(sent), NEW i \in 1..Len(sent), sent[i].kind = "Final"
  PROVE  output' = sent
<1>1. \E j \in DOMAIN sent : sent[j].kind = "Final"
  BY LenProperties
<1>2. QED BY <1>1 DEF Exit

LEMMA ExitUnanswered ==
  ASSUME output = <<>>, Exit(output)
  PROVE  output' = Append(output, Lost)
<1>1. ~ \E j \in DOMAIN output : output[j].kind = "Final"
  <2>1. DOMAIN output = {}
    OBVIOUS
  <2>2. QED BY <2>1
<1>2. QED BY <1>1 DEF Exit

LEMMA SaidIs ==
  /\ \A text \in Texts, failed \in Nat :
       /\ Said(Final(text, failed, TRUE)) = "partial" /\ Said(Final(text, failed, FALSE)) = "complete"
       /\ Said(Late(text, failed)) = "Late"
       /\ Final(text, failed, TRUE).kind = "Final" /\ Final(text, failed, FALSE).kind = "Final"
  /\ Said(Lost) = "RollingWorkerLost"
BY DEF Said, Final, Late, Lost

(* One answer more is the last of a sequence, with what was there before.   *)
LEMMA LastOf ==
  ASSUME NEW x \in Sent, output \in Seq(Sent)
  PROVE  /\ Append(output, x) \in Seq(Sent) /\ Len(Append(output, x)) = Len(output) + 1
         /\ Len(output) + 1 \in 1..Len(Append(output, x)) /\ Append(output, x)[Len(output) + 1] = x
         /\ \A i \in 1..Len(output) : /\ i \in 1..Len(Append(output, x))
                                      /\ Append(output, x)[i] = output[i]
<1> HIDE DEF Sent
<1>1. QED BY AppendProperties, LenProperties

(* Said and done: the steps of the worker are steps of the promise.         *)
LEMMA AbandonPromised ==
  ASSUME OwedInv, AnsweredSoFar, Abandon \/ PanicCollecting
  PROVE  Promise!Next /\ phase' = "gone"
<1>1. output \in Seq(Sent) /\ phase \in {"input", "collect"} /\ phase' = "gone" /\ Exit(output)
  BY TypesInParts DEF OwedInv, StatusShape, Abandon, PanicCollecting, Exit
<1>2. output' = Append(output, Lost) /\ Lost \in Sent
  BY <1>1, ExitUnanswered, AnswersTyped, EmptyText DEF AnsweredSoFar
<1>3. Told' = Told \o <<"RollingWorkerLost">>
  BY <1>1, <1>2, ToldOneMore, SaidIs
<1>4. Stage = "recording" /\ Stage' = "over"
  BY <1>1, StageIs, StageIsNext
<1>5. Promise!Disappear
  BY <1>3, <1>4 DEF Promise!Disappear, Promise!Ends, Stage, Told
<1>6. QED BY <1>1, <1>5 DEF Promise!Next

LEMMA AnswerPromised ==
  ASSUME OwedInv, AnsweredSoFar, phase = "wait", phase' = "gone",
         NEW text \in Texts, NEW failed \in Nat, NEW partial \in BOOLEAN,
         Exit(Append(output, Final(text, failed, partial)))
  PROVE  Promise!Next
<1> DEFINE x == Final(text, failed, partial)
<1>1. output \in Seq(Sent)
  BY TypesInParts DEF OwedInv, StatusShape
<1>2. x \in Sent /\ x.kind = "Final" /\ Said(x) \in {"complete", "partial"}
  <2>1. CASE partial = TRUE
    BY <2>1, AnswersTyped, SaidIs
  <2>2. CASE partial = FALSE
    BY <2>2, AnswersTyped, SaidIs
  <2>3. QED BY <2>1, <2>2
<1> HIDE DEF x
<1>3. output' = Append(output, x)
  <2>1. Exit(Append(output, x))
    BY DEF x
  <2>2. QED BY <1>1, <1>2, <2>1, LastOf, ExitAnswered
<1>4. Told' = Told \o <<Said(x)>>
  BY <1>1, <1>2, <1>3, ToldOneMore
<1>5. Stage = "finishing" /\ Stage' = "over"
  BY StageIs, StageIsNext
<1>6. Promise!Answer
  BY <1>2, <1>4, <1>5 DEF Promise!Answer, Promise!Ends, Stage, Told
<1>7. QED BY <1>6 DEF Promise!Next

LEMMA FollowUpPromised ==
  ASSUME OwedInv, AnsweredSoFar, phase = "late", phase' = "gone",
         NEW x \in Sent, Said(x) \in {"Late", "partial"},
         Exit(Append(output, x)) \/ Exit(output)
  PROVE  Promise!Next
<1>1. /\ output \in Seq(Sent) /\ Len(output) = 1 /\ output[1].kind = "Final"
      /\ 1 \in 1..Len(output)
  <2>1. output \in Seq(Sent)
    BY TypesInParts DEF OwedInv, StatusShape
  <2>2. Len(output) = 1 /\ output[1].kind = "Final"
    BY DEF AnsweredSoFar
  <2>3. QED BY <2>1, <2>2
<1>2. Stage = "late" /\ Stage' = "over"
  BY StageIs, StageIsNext
<1>3. CASE Exit(Append(output, x))
  <2>1. output' = Append(output, x)
    <3>1. /\ Append(output, x) \in Seq(Sent) /\ 1 \in 1..Len(Append(output, x))
          /\ Append(output, x)[1].kind = "Final"
      BY <1>1, LastOf
    <3>2. QED BY <1>3, <3>1, ExitAnswered
  <2>2. Told' = Told \o <<Said(x)>>
    BY <1>1, <2>1, ToldOneMore
  <2>3. Promise!FollowUp
    BY <1>2, <2>2 DEF Promise!FollowUp, Promise!Ends, Stage, Told
  <2>4. QED BY <2>3 DEF Promise!Next
<1>4. CASE Exit(output)
  <2>1. output' = output
    BY <1>1, <1>4, ExitAnswered
  <2>2. Told' = Told /\ Told = Told \o <<>>
    <3>1. \E S : Told \in Seq(S)
      <4> DEFINE all == {Said(output[i]) : i \in DOMAIN output}
      <4>1. DOMAIN output = 1..Len(output) /\ Len(output) \in Nat
        BY <1>1, LenProperties
      <4>2. Told \in [1..Len(output) -> all]
        BY <4>1 DEF Told
      <4> HIDE DEF all
      <4>3. Told \in Seq(all)
        BY <4>1, <4>2, IsASeq
      <4>4. QED BY <4>3
    <3>2. QED BY <2>1, <3>1, ConcatEmptySeq DEF Told
  <2>3. Promise!FollowUp
    BY <1>2, <2>2 DEF Promise!FollowUp, Promise!Ends, Stage, Told
  <2>4. QED BY <2>3 DEF Promise!Next
<1>5. QED BY <1>3, <1>4

LEMMA FinishPromised ==
  ASSUME Finish
  PROVE  Promise!Next
<1>1. phase = "input" /\ phase' = "wait" /\ output' = output
  BY DEF Finish
<1>2. Stage = "recording" /\ Stage' = "finishing" /\ Told' = Told
  BY <1>1, StageIs, StageIsNext DEF Told
<1>3. Promise!Release
  BY <1>2 DEF Promise!Release, Stage, Told
<1>4. QED BY <1>3 DEF Promise!Next

LEMMA WatchdogPromised ==
  ASSUME OwedInv, AnsweredSoFar, WatchdogFires
  PROVE  Promise!Next /\ AnsweredSoFar'
<1> DEFINE x == Final(Assembled, FailedChunks, TRUE)
<1>1. output \in Seq(Sent) /\ SessionShape
  BY TypesInParts DEF OwedInv, StatusShape
<1>2. /\ phase = "wait" /\ phase' = "late" /\ output' = Append(output, x)
  BY DEF WatchdogFires, Waiting
<1>3. x \in Sent /\ x.kind = "Final" /\ Said(x) = "partial"
  BY <1>1, AssembledTyped, AnswersTyped, SaidIs
<1> HIDE DEF x
<1>4. Told' = Append(Told, "partial")
  BY <1>1, <1>2, <1>3, ToldOneMore
<1>5. Stage = "finishing" /\ Stage' = "late"
  BY <1>2, StageIs, StageIsNext
<1>6. Promise!AnswerPartially
  BY <1>4, <1>5 DEF Promise!AnswerPartially, Stage, Told
<1>7. Len(output) = 0 /\ Len(output') = 1 /\ output'[1] = x
  <2>1. Len(output) = 0
    BY <1>2 DEF AnsweredSoFar
  <2>2. Len(output') = Len(output) + 1 /\ output'[Len(output) + 1] = x
    BY <1>1, <1>2, <1>3, LastOf
  <2>3. QED BY <2>1, <2>2
<1>8. QED BY <1>2, <1>3, <1>6, <1>7 DEF Promise!Next, AnsweredSoFar
(* What sends nothing and moves no stage.                                   *)
LEMMA QuietSteps ==
  ASSUME AnsweredSoFar, UNCHANGED output,
         \/ phase' = phase
         \/ phase \in {"input", "collect"} /\ phase' \in {"input", "collect"}
  PROVE  UNCHANGED <<Stage, Told>> /\ AnsweredSoFar'
<1>1. UNCHANGED Told
  BY DEF Told
<1>2. UNCHANGED Stage
  BY DEF Stage
<1>3. AnsweredSoFar'
  BY DEF AnsweredSoFar
<1>4. QED BY <1>1, <1>2, <1>3

LEMMA StepPromised ==
  ASSUME OwedInv, AnsweredSoFar, [RollingNext]_rollingVars
  PROVE  [Promise!Next]_<<Stage, Told>> /\ AnsweredSoFar'
<1>1. CASE \/ Speaks \/ Collected \/ TakeResult \/ PollLoading \/ EngineNext \/ ForwardAnswer
           \/ UNCHANGED rollingVars
  <2>1. /\ UNCHANGED output
        /\ \/ phase' = phase
           \/ phase \in {"input", "collect"} /\ phase' \in {"input", "collect"}
    <3>1. CASE Speaks
      BY <3>1 DEF Speaks, Push
    <3>2. CASE Collected
      BY <3>2 DEF Collected
    <3>3. CASE TakeResult
      BY <3>3 DEF TakeResult, WholeHeard, WholeEmpty, WholeSplit, WholeRetried, WholeFailed,
                  HalfAnswered, Reads
    <3>4. CASE PollLoading
      BY <3>4 DEF PollLoading
    <3>5. CASE EngineNext
      BY <3>5 DEF EngineNext, EngineHears, EngineDeaf, EngineErrs, ManagerSteps, ManagerIdles,
                  workerVars
    <3>6. CASE ForwardAnswer
      BY <3>6 DEF ForwardAnswer
    <3>7. CASE UNCHANGED rollingVars
      BY <3>7 DEF rollingVars, workerVars
    <3>8. QED BY <1>1, <3>1, <3>2, <3>3, <3>4, <3>5, <3>6, <3>7
  <2>2. QED BY <2>1, QuietSteps
<1>2. CASE Finish
  <2>1. AnsweredSoFar'
    BY <1>2 DEF Finish, AnsweredSoFar
  <2>2. QED BY <1>2, <2>1, FinishPromised
<1>3. CASE Abandon \/ PanicCollecting
  BY <1>3, AbandonPromised DEF AnsweredSoFar
<1>4. CASE WatchdogFires
  BY <1>4, WatchdogPromised
<1>5. Assembled \in Texts /\ FailedChunks \in Nat /\ Len(plans) \in Nat /\ <<>> \in Texts
  <2>1. SessionShape
    BY TypesInParts DEF OwedInv
  <2>2. QED BY <2>1, AssembledTyped, EmptyText, LenProperties DEF SessionShape
<1>6. CASE Deliver
  <2>1. /\ phase = "wait" /\ phase' = "gone"
        /\ Exit(Append(output, Final(Assembled, FailedChunks, FALSE)))
    BY <1>6 DEF Deliver, Exit
  <2>2. Promise!Next
    BY <1>5, <2>1, AnswerPromised
  <2>3. QED BY <2>1, <2>2 DEF AnsweredSoFar
<1>7. CASE DeliverLate \/ GiveUp
  <2>1. phase = "late" /\ phase' = "gone"
    BY <1>7 DEF DeliverLate, GiveUp, Waiting, Exit
  <2>2. Exit(Append(output, Late(Assembled, FailedChunks))) \/ Exit(output)
    BY <1>7 DEF DeliverLate, GiveUp
  <2>3. Late(Assembled, FailedChunks) \in Sent /\ Said(Late(Assembled, FailedChunks)) = "Late"
    BY <1>5, AnswersTyped, SaidIs
  <2>4. Promise!Next
    BY <2>1, <2>2, <2>3, FollowUpPromised
  <2>5. QED BY <2>1, <2>4 DEF AnsweredSoFar
<1>8. CASE PanicFinishing
  <2>1. /\ phase \in {"wait", "late"} /\ phase' = "gone"
        /\ Exit(Append(output, Final(<<>>, Len(plans), TRUE)))
    BY <1>8 DEF PanicFinishing, Exit
  <2>2. CASE phase = "wait"
    BY <1>5, <2>1, <2>2, AnswerPromised DEF AnsweredSoFar
  <2>3. CASE phase = "late"
    <3>1. /\ Final(<<>>, Len(plans), TRUE) \in Sent
          /\ Said(Final(<<>>, Len(plans), TRUE)) = "partial"
      BY <1>5, AnswersTyped, SaidIs
    <3>2. Promise!Next
      BY <2>1, <2>3, <3>1, FollowUpPromised
    <3>3. QED BY <2>1, <3>2 DEF AnsweredSoFar
  <2>4. QED BY <2>1, <2>2, <2>3
<1>9. QED
  BY <1>1, <1>2, <1>3, <1>4, <1>6, <1>7, <1>8
  DEF RollingNext, WorkerRuns, WorkerPanics, Attended

(* The worker does only what is promised of it: it answers a release once,  *)
(* completely or partially, follows up at most once after a partial answer, *)
(* and says so when it is lost without one.                                 *)
THEOREM WorkerKeepsToThePromise ==
  RollingSpec => Promise!Init /\ [][Promise!Next]_<<Stage, Told>>
<1>1. RollingInit => Promise!Init /\ AnsweredSoFar
  <2> SUFFICES ASSUME RollingInit PROVE Promise!Init /\ AnsweredSoFar
    OBVIOUS
  <2>1. phase = "input" /\ output = <<>>
    BY DEF RollingInit
  <2>2. Told = <<>>
    BY <2>1 DEF Told
  <2>3. Stage = "recording"
    BY <2>1, StageIs
  <2>4. QED BY <2>1, <2>2, <2>3 DEF Promise!Init, AnsweredSoFar, Stage, Told
<1>2. OwedInv /\ AnsweredSoFar /\ [RollingNext]_rollingVars
        => [Promise!Next]_<<Stage, Told>> /\ AnsweredSoFar'
  BY StepPromised
<1>3. QED BY <1>1, <1>2, AlwaysOwed, PTL DEF RollingSpec
=============================================================================
