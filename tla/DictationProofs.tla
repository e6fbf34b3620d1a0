--------------------------- MODULE DictationProofs ---------------------------
(***************************************************************************)
(* Safety theorems about Dictation, for every value of its constants, each *)
(* after the invariant it rests on, with one lemma per action or thread:   *)
(*   TypeCorrect        every state is well formed;                        *)
(*   RecordingEnds      a recording has an end to come;                    *)
(*   BusyLeftAlone      no recording cuts a transcription short;           *)
(*   TranscriptionEnds  a transcription has an end to come;                *)
(*   FinalIsItsOwn      the Final accepted is the waiting dictation's;     *)
(*   StreamHeard        streamed samples have a worker to go to;           *)
(*   WordsAreKept       words owed are settled, and the ledger's promise;  *)
(*   DeliveredOnce      words are delivered once, cancelled ones never;    *)
(*   ListenServed       a listen accepted on its own has its own words.    *)
(***************************************************************************)
EXTENDS DictationProperties, SequenceTheorems, TLAPS

-----------------------------------------------------------------------------
(* Helpers of the model keep the shape of what they update.                 *)

LEMMA ExceptAnywhere ==
  ASSUME NEW S, NEW seq \in Seq(S), NEW i, NEW e, i \in DOMAIN seq => e \in S
  PROVE  [seq EXCEPT ![i] = e] \in Seq(S)
<1>1. CASE i \in 1..Len(seq)
  BY <1>1, ExceptSeq, LenProperties
<1>2. CASE i \notin 1..Len(seq)
  <2>1. [seq EXCEPT ![i] = e] = seq
    BY <1>2, LenProperties
  <2>2. QED BY <2>1
<1>3. QED BY <1>1, <1>2

LEMMA AnswerType ==
  ASSUME NEW ls \in Seq(ListenRecord), NEW l, NEW a \in Answers, NEW t \in Nat
  PROVE  Answer(ls, l, a, t) \in Seq(ListenRecord)
<1>1. ASSUME l \in DOMAIN ls
      PROVE  [status |-> a, take |-> t, alone |-> ls[l].alone] \in ListenRecord
  <2>1. ls[l] \in ListenRecord
    BY <1>1, LenProperties, ElementOfSeq
  <2>2. QED BY <2>1 DEF ListenRecord
<1>2. QED BY <1>1, ExceptAnywhere DEF Answer

LEMMA AloneType ==
  ASSUME NEW ls \in Seq(ListenRecord), NEW l, NEW b \in BOOLEAN
  PROVE  [ls EXCEPT ![l].alone = b] \in Seq(ListenRecord)
<1>1. [ls EXCEPT ![l].alone = b] = [ls EXCEPT ![l] = [ls[l] EXCEPT !.alone = b]]
  OBVIOUS
<1>2. l \in DOMAIN ls => [ls[l] EXCEPT !.alone = b] \in ListenRecord
  <2> SUFFICES ASSUME l \in DOMAIN ls PROVE [ls[l] EXCEPT !.alone = b] \in ListenRecord
    OBVIOUS
  <2>1. ls[l] \in ListenRecord
    BY LenProperties, ElementOfSeq
  <2>2. QED BY <2>1 DEF ListenRecord
<1>3. QED BY <1>1, <1>2, ExceptAnywhere

(* Changing the fate of a take, or counting a delivery of it.               *)
LEMMA FateType ==
  ASSUME NEW ts \in Seq(TakeRecord), NEW t, NEW f \in Fates
  PROVE  [ts EXCEPT ![t].fate = f] \in Seq(TakeRecord)
<1>1. [ts EXCEPT ![t].fate = f] = [ts EXCEPT ![t] = [ts[t] EXCEPT !.fate = f]]
  OBVIOUS
<1>2. CASE t \in DOMAIN ts
  <2>1. t \in 1..Len(ts) /\ ts[t] \in TakeRecord
    BY <1>2, LenProperties, ElementOfSeq
  <2>2. [ts[t] EXCEPT !.fate = f] \in TakeRecord
    BY <2>1 DEF TakeRecord
  <2>3. QED BY <1>1, <2>1, <2>2, ExceptSeq
<1>3. CASE t \notin DOMAIN ts
  <2>1. [ts EXCEPT ![t] = [ts[t] EXCEPT !.fate = f]] = ts
    BY <1>3, LenProperties
  <2>2. QED BY <1>1, <2>1
<1>4. QED BY <1>2, <1>3

LEMMA CountType ==
  ASSUME NEW ts \in Seq(TakeRecord), NEW t \in DOMAIN ts
  PROVE  [ts EXCEPT ![t].deliveries = @ + 1] \in Seq(TakeRecord)
<1>1. t \in 1..Len(ts) /\ ts[t] \in TakeRecord
  BY LenProperties, ElementOfSeq
<1>2. [ts[t] EXCEPT !.deliveries = @ + 1] \in TakeRecord
  <2>1. ts[t] \in [fate: Fates, listen: Nat, deliveries: Nat]
    BY <1>1 DEF TakeRecord
  <2>2. ts[t].deliveries + 1 \in Nat
    BY <2>1
  <2> DEFINE n == ts[t].deliveries + 1
  <2> HIDE DEF n
  <2>3. [ts[t] EXCEPT !.deliveries = n] \in [fate: Fates, listen: Nat, deliveries: Nat]
    BY <2>1, <2>2 DEF n
  <2>4. QED BY <2>3 DEF TakeRecord, n
<1>3. [ts EXCEPT ![t].deliveries = @ + 1]
        = [ts EXCEPT ![t] = [ts[t] EXCEPT !.deliveries = @ + 1]]
  OBVIOUS
<1>4. QED BY <1>1, <1>2, <1>3, ExceptSeq

LEMMA ResolveType ==
  ASSUME NEW ts \in Seq(TakeRecord), NEW t, NEW f \in Fates
  PROVE  Resolve(ts, t, f) \in Seq(TakeRecord)
BY FateType DEF Resolve

LEMMA DeliverType ==
  ASSUME NEW ts \in Seq(TakeRecord), NEW t
  PROVE  Deliver(ts, t) \in Seq(TakeRecord)
<1>1. Resolve(ts, t, "settled") \in Seq(TakeRecord)
  BY ResolveType DEF Fates
<1>2. QED BY <1>1, CountType DEF Deliver

(* Every message constructor builds a Message.                              *)
LEMMA MessageType ==
  /\ \A k \in MsgKinds : Plain(k) \in Message
  /\ \A l \in Nat : DaemonListenMsg(l) \in Message
  /\ \A t \in Nat, r \in BOOLEAN : StartedMsg(t, r) \in Message
  /\ \A t \in Nat, f \in BOOLEAN, a \in BOOLEAN : StoppedMsg(t, f, a) \in Message
  /\ \A t \in Nat, f \in BOOLEAN, a \in BOOLEAN : DisconnectedMsg(t, f, a) \in Message
  /\ \A t \in Nat : CancelledMsg(t) \in Message
  /\ \A t \in Nat, e \in Nat, p \in BOOLEAN, o \in Outcomes : FinalMsg(t, e, p, o) \in Message
  /\ \A t \in Nat, e \in Nat, o \in Outcomes : LateMsg(t, e, o) \in Message
  /\ \A t \in Nat, e \in Nat : LostMsg(t, e) \in Message
  /\ \A t \in Nat, l \in Nat, o \in Outcomes : ResultMsg(t, l, o) \in Message
  /\ \A t \in Nat, l \in Nat : CleanupDoneMsg(t, l) \in Message
<1> USE DEF Message, MsgKinds, Outcomes, Blank
<1>1. \A k \in MsgKinds : Plain(k) \in Message
  BY DEF Plain
<1>2. \A l \in Nat : DaemonListenMsg(l) \in Message
  BY DEF DaemonListenMsg
<1>3. \A t \in Nat, r \in BOOLEAN : StartedMsg(t, r) \in Message
  BY DEF StartedMsg
<1>4. \A t \in Nat, f \in BOOLEAN, a \in BOOLEAN : StoppedMsg(t, f, a) \in Message
  BY DEF StoppedMsg
<1>5. \A t \in Nat, f \in BOOLEAN, a \in BOOLEAN : DisconnectedMsg(t, f, a) \in Message
  BY DEF DisconnectedMsg
<1>6. \A t \in Nat : CancelledMsg(t) \in Message
  BY DEF CancelledMsg
<1>7. \A t \in Nat, e \in Nat, p \in BOOLEAN, o \in Outcomes : FinalMsg(t, e, p, o) \in Message
  BY DEF FinalMsg
<1>8. \A t \in Nat, e \in Nat, o \in Outcomes : LateMsg(t, e, o) \in Message
  BY DEF LateMsg
<1>9. \A t \in Nat, e \in Nat : LostMsg(t, e) \in Message
  BY DEF LostMsg
<1>10. \A t \in Nat, l \in Nat, o \in Outcomes : ResultMsg(t, l, o) \in Message
  BY DEF ResultMsg
<1>11. \A t \in Nat, l \in Nat : CleanupDoneMsg(t, l) \in Message
  BY DEF CleanupDoneMsg
<1>12. QED
  BY <1>1, <1>2, <1>3, <1>4, <1>5, <1>6, <1>7, <1>8, <1>9, <1>10, <1>11

-----------------------------------------------------------------------------
(* The parts of a step that many actions share.                             *)

LEMMA ReplyType ==
  ASSUME TypeOK, NEW m \in Message, Reply(m)
  PROVE  inbox' \in Seq(Message)
BY AppendProperties DEF TypeOK, Reply

LEMMA HandledType ==
  ASSUME TypeOK, inbox # <<>>, Handled
  PROVE  msg \in Message /\ inbox' \in Seq(Message)
BY HeadTailProperties DEF TypeOK, Handled, msg

LEMMA TakeCmdType ==
  ASSUME TypeOK, NEW k, TakeCmd(k)
  PROVE  Head(cmds) \in AudioCommand /\ cmds' \in Seq(AudioCommand)
BY HeadTailProperties DEF TypeOK, TakeCmd

LEMMA FaultType ==
  ASSUME TypeOK, NEW f, Fault(f)
  PROVE  budget' \in [inputs: Nat, faults: Nat]
<1>1. budget.faults \in Nat /\ budget.faults > 0
  BY DEF TypeOK, Fault
<1>2. budget.faults - 1 \in Nat
  BY <1>1
<1>3. budget \in [inputs: Nat, faults: Nat] /\ budget' = [budget EXCEPT !.faults = budget.faults - 1]
  BY DEF TypeOK, Fault
<1>4. QED BY <1>2, <1>3

LEMMA CloseMicType ==
  ASSUME TypeOK, NEW f \in Fates, CloseMic(f)
  PROVE  /\ mic' \in [on: BOOLEAN, take: Nat, rolling: BOOLEAN]
         /\ takes' \in Seq(TakeRecord)
<1>1. mic' \in [on: BOOLEAN, take: Nat, rolling: BOOLEAN]
  <2>1. mic' = NoMic
    BY DEF CloseMic
  <2>2. NoMic \in [on: BOOLEAN, take: Nat, rolling: BOOLEAN]
    BY DEF NoMic
  <2>3. QED BY <2>1, <2>2
<1>2. takes' \in Seq(TakeRecord)
  <2>1. takes' = [takes EXCEPT ![mic.take].fate = f]
    BY DEF CloseMic
  <2>2. takes \in Seq(TakeRecord)
    BY DEF TypeOK
  <2>3. QED BY <2>1, <2>2, FateType
<1>3. QED BY <1>1, <1>2

LEMMA WorkerTypes ==
  ASSUME TypeOK, AudioWorkerNext
  PROVE  TypeOK'
<1> USE DEF workerFrame, appVars, localVars, threads
<1>1. CASE OpenMic
  <2>1. cmds' \in Seq(AudioCommand) /\ Head(cmds) \in AudioCommand
    BY <1>1, TakeCmdType DEF OpenMic
  <2>2. Head(cmds).rolling \in BOOLEAN /\ Head(cmds).listen \in Nat
    BY <2>1 DEF AudioCommand
  <2>3. takes \in Seq(TakeRecord) /\ Len(takes) + 1 \in Nat
    BY LenProperties DEF TypeOK
  <2>4. inbox' \in Seq(Message)
    <3>1. StartedMsg(Len(takes) + 1, Head(cmds).rolling) \in Message
      BY <2>2, <2>3, MessageType
    <3>2. QED BY <1>1, <3>1, ReplyType DEF OpenMic
  <2>5. takes' \in Seq(TakeRecord)
    <3> DEFINE e == [fate |-> "capturing", listen |-> Head(cmds).listen, deliveries |-> 0]
    <3>1. e \in TakeRecord
      BY <2>2 DEF TakeRecord, Fates
    <3>2. takes' = Append(takes, e)
      BY <1>1 DEF OpenMic
    <3>3. QED BY <2>3, <3>1, <3>2, AppendProperties
  <2>6. mic' \in [on: BOOLEAN, take: Nat, rolling: BOOLEAN]
    <3>1. mic' = Mic(Len(takes) + 1, Head(cmds).rolling)
      BY <1>1 DEF OpenMic
    <3>2. QED BY <2>2, <2>3, <3>1 DEF Mic
  <2>7. QED BY <1>1, <2>1, <2>4, <2>5, <2>6 DEF OpenMic, TypeOK
<1>2. CASE OpenFails
  <2>1. cmds' \in Seq(AudioCommand)
    BY <1>2, TakeCmdType DEF OpenFails
  <2>2. inbox' \in Seq(Message)
    BY <1>2, ReplyType, MessageType DEF OpenFails, MsgKinds
  <2>3. budget' \in [inputs: Nat, faults: Nat]
    BY <1>2, FaultType DEF OpenFails
  <2>4. QED BY <1>2, <2>1, <2>2, <2>3 DEF OpenFails, TypeOK
<1>3. CASE AckIdle
  <2>1. cmds' \in Seq(AudioCommand)
    BY <1>3, TakeCmdType DEF AckIdle
  <2>2. inbox' \in Seq(Message)
    BY <1>3, ReplyType, MessageType DEF AckIdle, MsgKinds
  <2>3. QED BY <1>3, <2>1, <2>2 DEF AckIdle, TypeOK
<1>4. CASE IgnoreStart
  <2>1. cmds' \in Seq(AudioCommand)
    BY <1>4, TakeCmdType DEF IgnoreStart
  <2>2. QED BY <1>4, <2>1 DEF IgnoreStart, TypeOK
<1>5. CASE StopRecording
  <2>1. cmds' \in Seq(AudioCommand)
    BY <1>5, TakeCmdType DEF StopRecording
  <2>2. inbox' \in Seq(Message)
    BY <1>5, ReplyType, MessageType DEF StopRecording, TypeOK
  <2>3. /\ mic' \in [on: BOOLEAN, take: Nat, rolling: BOOLEAN]
        /\ takes' \in Seq(TakeRecord)
    BY <1>5, CloseMicType DEF StopRecording, Fates
  <2>4. QED BY <1>5, <2>1, <2>2, <2>3 DEF StopRecording, TypeOK
<1>6. CASE CancelRecording
  <2>1. cmds' \in Seq(AudioCommand)
    BY <1>6, TakeCmdType DEF CancelRecording
  <2>2. inbox' \in Seq(Message)
    BY <1>6, ReplyType, MessageType DEF CancelRecording, TypeOK
  <2>3. /\ mic' \in [on: BOOLEAN, take: Nat, rolling: BOOLEAN]
        /\ takes' \in Seq(TakeRecord)
    BY <1>6, CloseMicType DEF CancelRecording, Fates
  <2>4. QED BY <1>6, <2>1, <2>2, <2>3 DEF CancelRecording, TypeOK
<1>7. CASE AutoStop
  <2>1. inbox' \in Seq(Message)
    BY <1>7, ReplyType, MessageType DEF AutoStop, TypeOK
  <2>2. /\ mic' \in [on: BOOLEAN, take: Nat, rolling: BOOLEAN]
        /\ takes' \in Seq(TakeRecord)
    BY <1>7, CloseMicType DEF AutoStop, Fates
  <2>3. QED BY <1>7, <2>1, <2>2 DEF AutoStop, TypeOK
<1>8. CASE DeviceLost
  <2>1. PICK long \in BOOLEAN :
          /\ Reply(DisconnectedMsg(mic.take, long, long /\ ~mic.rolling))
          /\ CloseMic(IF long THEN "captured" ELSE "discarded")
    BY <1>8 DEF DeviceLost
  <2>2. DisconnectedMsg(mic.take, long, long /\ ~mic.rolling) \in Message
    BY MessageType DEF TypeOK
  <2>3. inbox' \in Seq(Message)
    BY <2>1, <2>2, ReplyType
  <2>4. /\ mic' \in [on: BOOLEAN, take: Nat, rolling: BOOLEAN]
        /\ takes' \in Seq(TakeRecord)
    BY <2>1, CloseMicType DEF Fates
  <2>5. budget' \in [inputs: Nat, faults: Nat]
    BY <1>8, FaultType DEF DeviceLost
  <2>6. QED BY <1>8, <2>3, <2>4, <2>5 DEF DeviceLost, TypeOK
<1>9. QED
  BY <1>1, <1>2, <1>3, <1>4, <1>5, <1>6, <1>7, <1>8 DEF AudioWorkerNext

-----------------------------------------------------------------------------
(* The input handlers and the hold-threshold threads.                       *)

(* What start_recording and its siblings leave of the state they share.     *)
CaptureTypes ==
  /\ dictation_state \in DictationStates
  /\ is_recording \in BOOLEAN
  /\ hands_free_active \in BOOLEAN
  /\ pending_listen \in Nat
  /\ listens \in Seq(ListenRecord)
  /\ cmds \in Seq(AudioCommand)
  /\ budget \in [inputs: Nat, faults: Nat]

LEMMA StartRecordingType ==
  ASSUME TypeOK, NEW hf \in BOOLEAN, NEW pl \in Nat, NEW l \in Nat,
         NEW ls \in Seq(ListenRecord), start_recording(hf, pl, l, ls)
  PROVE  CaptureTypes'
<1>1. Append(cmds, StartCmd(rolling_enabled, l)) \in Seq(AudioCommand)
  <2>1. StartCmd(rolling_enabled, l) \in AudioCommand
    BY DEF StartCmd, AudioCommand, TypeOK
  <2>2. QED BY <2>1, AppendProperties DEF TypeOK
<1>2. Answer(ls, pl, "err", 0) \in Seq(ListenRecord)
  BY AnswerType DEF Answers
<1>3. budget' \in [inputs: Nat, faults: Nat]
  <2>1. CASE Fault("missing") BY <2>1, FaultType
  <2>2. CASE ~Fault("missing") BY <2>2 DEF start_recording, TypeOK
  <2>3. QED BY <2>1, <2>2
<1>4. is_recording' \in BOOLEAN /\ hands_free_active' \in BOOLEAN
  <2>1. hands_free_active' = hf \/ hands_free_active' = FALSE
    BY DEF start_recording
  <2>2. is_recording' = TRUE \/ is_recording' = is_recording
    BY DEF start_recording, set_dictation_state
  <2>3. QED BY <2>1, <2>2 DEF TypeOK
<1>5. dictation_state' \in DictationStates
  BY DEF start_recording, set_dictation_state, TypeOK, DictationStates
<1>6. pending_listen' \in Nat
  <2>1. pending_listen' = pl \/ pending_listen' = 0
    BY DEF start_recording
  <2>2. QED BY <2>1
<1>7. listens' \in Seq(ListenRecord)
  <2>1. listens' = ls \/ listens' = Answer(ls, pl, "err", 0)
    BY DEF start_recording
  <2>2. QED BY <1>2, <2>1
<1>8. cmds' \in Seq(AudioCommand)
  <2>1. cmds' = Append(cmds, StartCmd(rolling_enabled, l)) \/ cmds' = cmds
    BY DEF start_recording
  <2>2. QED BY <1>1, <2>1 DEF TypeOK
<1>9. QED
  BY <1>3, <1>4, <1>5, <1>6, <1>7, <1>8 DEF CaptureTypes

LEMMA NoCaptureType == ASSUME TypeOK, NoCapture PROVE CaptureTypes'
BY DEF TypeOK, NoCapture, CaptureTypes

LEMMA SendEndType ==
  ASSUME TypeOK, NEW c \in AudioCommand, SendEnd(c)
  PROVE  CaptureTypes'
BY AppendProperties DEF TypeOK, SendEnd, CaptureTypes

LEMMA HoldFields ==
  ASSUME TypeOK
  PROVE  /\ hold.tracker \in Nat /\ hold.generation \in Nat
         /\ hold.key_down \in BOOLEAN /\ hold.consumed \in BOOLEAN
         /\ hold.other_key \in BOOLEAN
BY DEF TypeOK

Trackers == [tracker: Nat, key_down: BOOLEAN, generation: Nat,
             consumed: BOOLEAN, other_key: BOOLEAN]
Timers == [tracker: Nat, gen: Nat, phase: TimerPhases]

LEMMA GestureTypes ==
  ASSUME TypeOK, inbox' \in Seq(Message), CaptureTypes', hold' \in Trackers,
         timers' \subseteq Timers, UNCHANGED gestureFrame
  PROVE  TypeOK'
BY DEF TypeOK, CaptureTypes, gestureFrame, Trackers, Timers

LEMMA HoldKeyPressedTypes == ASSUME TypeOK, HoldKeyPressed PROVE TypeOK'
<1>1. inbox' \in Seq(Message)
  BY HandledType DEF HoldKeyPressed, Receive
<1>2. hold' \in Trackers
  <2>1. hold \in Trackers
    BY DEF TypeOK, Trackers
  <2>2. hold.generation + 1 \in Nat
    BY HoldFields
  <2>3. hold' = [hold EXCEPT !.key_down = TRUE, !.generation = hold.generation + 1,
                             !.consumed = FALSE, !.other_key = FALSE]
    BY DEF HoldKeyPressed
  <2>4. QED BY <2>1, <2>2, <2>3 DEF Trackers
<1>3. timers' \subseteq Timers
  <2> DEFINE t == [tracker |-> hold.tracker, gen |-> hold.generation + 1, phase |-> "sleep"]
  <2>1. t \in Timers
    BY HoldFields DEF Timers, TimerPhases
  <2>2. timers \subseteq Timers
    BY DEF TypeOK, Timers
  <2>3. timers' = timers \cup {t} \/ timers' = timers
    BY DEF HoldKeyPressed
  <2> HIDE DEF t
  <2>4. QED BY <2>1, <2>2, <2>3
<1>4. CaptureTypes'
  BY NoCaptureType DEF HoldKeyPressed
<1>5. QED BY <1>1, <1>2, <1>3, <1>4, GestureTypes DEF HoldKeyPressed

LEMMA HoldKeyReleasedTypes == ASSUME TypeOK, HoldKeyReleased PROVE TypeOK'
<1>1. inbox' \in Seq(Message)
  BY HandledType DEF HoldKeyReleased, Receive
<1>2. hold' \in Trackers
  BY DEF HoldKeyReleased, TypeOK, Trackers
<1>3. timers' \subseteq Timers
  BY DEF HoldKeyReleased, TypeOK, Timers
<1>4. CaptureTypes'
  <2>1. CASE SendEnd(StopCmd)
    BY <2>1, SendEndType DEF StopCmd, AudioCommand
  <2>2. CASE start_recording(TRUE, pending_listen, 0, listens)
    BY <2>2, StartRecordingType DEF TypeOK
  <2>3. CASE NoCapture
    BY <2>3, NoCaptureType
  <2>4. QED BY <2>1, <2>2, <2>3 DEF HoldKeyReleased
<1>5. QED BY <1>1, <1>2, <1>3, <1>4, GestureTypes DEF HoldKeyReleased

LEMMA OtherKeyDuringHoldTypes == ASSUME TypeOK, OtherKeyDuringHold PROVE TypeOK'
<1>1. inbox' \in Seq(Message)
  BY HandledType DEF OtherKeyDuringHold, Receive
<1>2. hold' \in Trackers
  BY DEF OtherKeyDuringHold, TypeOK, Trackers
<1>3. timers' \subseteq Timers
  BY DEF OtherKeyDuringHold, TypeOK, Timers
<1>4. CaptureTypes'
  BY SendEndType, NoCaptureType DEF OtherKeyDuringHold, CancelCmd, AudioCommand
<1>5. QED BY <1>1, <1>2, <1>3, <1>4, GestureTypes DEF OtherKeyDuringHold

LEMMA CancelRequestedTypes == ASSUME TypeOK, CancelRequested PROVE TypeOK'
<1>1. inbox' \in Seq(Message)
  BY HandledType DEF CancelRequested, Receive
<1>2. hold' \in Trackers
  BY DEF CancelRequested, TypeOK, Trackers
<1>3. timers' \subseteq Timers
  BY DEF CancelRequested, TypeOK, Timers
<1>4. CaptureTypes'
  BY SendEndType, NoCaptureType DEF CancelRequested, CancelCmd, AudioCommand
<1>5. QED BY <1>1, <1>2, <1>3, <1>4, GestureTypes DEF CancelRequested

LEMMA TrayToggleTypes == ASSUME TypeOK, TrayToggleDictation PROVE TypeOK'
<1>1. inbox' \in Seq(Message)
  BY HandledType DEF TrayToggleDictation, Receive
<1>2. hold' \in Trackers
  BY DEF TrayToggleDictation, TypeOK, Trackers
<1>3. timers' \subseteq Timers
  BY DEF TrayToggleDictation, TypeOK, Timers
<1>4. CaptureTypes'
  <2>1. CASE SendEnd(StopCmd)
    BY <2>1, SendEndType DEF StopCmd, AudioCommand
  <2>2. CASE start_recording(TRUE, pending_listen, 0, listens)
    BY <2>2, StartRecordingType DEF TypeOK
  <2>3. CASE NoCapture
    BY <2>3, NoCaptureType
  <2>4. QED BY <2>1, <2>2, <2>3 DEF TrayToggleDictation
<1>5. QED BY <1>1, <1>2, <1>3, <1>4, GestureTypes DEF TrayToggleDictation

LEMMA DaemonListenTypes == ASSUME TypeOK, DaemonListen PROVE TypeOK'
<1>1. inbox' \in Seq(Message) /\ msg.listen \in Nat
  BY HandledType DEF DaemonListen, Receive, Message
<1>2. hold' \in Trackers
  BY DEF DaemonListen, TypeOK, Trackers
<1>3. timers' \subseteq Timers
  BY DEF DaemonListen, TypeOK, Timers
<1>4. CaptureTypes'
  <2>1. CASE dictation_state # "Idle"
    <3>1. Answer(listens, msg.listen, "err", 0) \in Seq(ListenRecord)
      BY AnswerType DEF TypeOK, Answers
    <3>2. QED BY <2>1, <3>1 DEF DaemonListen, TypeOK, CaptureTypes
  <2>2. CASE dictation_state = "Idle"
    <3> DEFINE ls == Answer(listens, pending_listen, "dropped", 0)
    <3>1. ls \in Seq(ListenRecord)
      BY AnswerType DEF TypeOK, Answers
    <3> HIDE DEF ls
    <3>2. [ls EXCEPT ![msg.listen].alone = NothingUnderWay] \in Seq(ListenRecord)
      BY <3>1, AloneType DEF NothingUnderWay
    <3>3. QED BY <1>1, <2>2, <3>2, StartRecordingType DEF DaemonListen, ls
  <2>3. QED BY <2>1, <2>2
<1>5. QED BY <1>1, <1>2, <1>3, <1>4, GestureTypes DEF DaemonListen

LEMMA TimerTypes == ASSUME TypeOK, TimerNext PROVE TypeOK'
<1>1. PICK t \in timers : TimerWakes(t) \/ TimerSeesState(t) \/ TimerStarts(t)
  BY DEF TimerNext
<1>2. timers \subseteq Timers /\ t \in Timers
  BY DEF TypeOK, Timers
<1>3. \A p \in TimerPhases : Advance(t, p) => timers' \subseteq Timers
  BY <1>2 DEF Advance, Timers
<1>4. timers' \subseteq Timers
  BY <1>1, <1>2, <1>3 DEF TimerWakes, TimerSeesState, TimerStarts, TimerPhases
<1>5. CaptureTypes'
  <2>1. CASE TimerStarts(t)
    BY <2>1, StartRecordingType DEF TimerStarts, TypeOK
  <2>2. CASE NoCapture
    BY <2>2, NoCaptureType
  <2>3. QED BY <1>1, <2>1, <2>2 DEF TimerWakes, TimerSeesState
<1>6. UNCHANGED timerFrame
  BY <1>1 DEF TimerWakes, TimerSeesState, TimerStarts
<1>7. QED
  BY <1>4, <1>5, <1>6, GestureTypes DEF TypeOK, timerFrame, gestureFrame, Trackers

-----------------------------------------------------------------------------
(* The coordinator's other handlers.                                        *)

Pendings == [waiting: BOOLEAN, take: Nat, epoch: Nat, listen: Nat]
Rollers == [take: Nat, epoch: Nat, audio: BOOLEAN, phase: RollerPhases]
Jobs == [stage: {"asr", "clean"}, take: Nat, listen: Nat, audio: BOOLEAN]

(* What a handler that leaves the audio worker and the timers alone types.  *)
LEMMA CoordinatorTypes ==
  ASSUME TypeOK, inbox' \in Seq(Message),
         dictation_state' \in DictationStates, is_recording' \in BOOLEAN,
         hands_free_active' \in BOOLEAN, pending_listen' \in Nat,
         hold' \in Trackers, rolling_in' \in Nat, rolling_epoch' \in Nat,
         pending_rolling' \in Pendings, rollers' \subseteq Rollers,
         jobs' \subseteq Jobs, finishers' \in [done: Nat, idle: Nat],
         budget' \in [inputs: Nat, faults: Nat],
         takes' \in Seq(TakeRecord), listens' \in Seq(ListenRecord),
         UNCHANGED replyFrame
  PROVE  TypeOK'
BY DEF TypeOK, replyFrame, Trackers, Pendings, Rollers, Jobs

LEMMA MessageFields ==
  ASSUME NEW m \in Message
  PROVE  /\ m.take \in Nat /\ m.epoch \in Nat /\ m.listen \in Nat
         /\ m.flag \in BOOLEAN /\ m.audio \in BOOLEAN /\ m.out \in Outcomes
BY DEF Message

LEMMA NoPendingType == NoPending \in Pendings
BY DEF NoPending, Pendings

LEMMA AfterDropType ==
  ASSUME TypeOK, NEW ts \in Seq(TakeRecord)
  PROVE  AfterDrop(ts) \in Seq(TakeRecord)
BY ResolveType DEF AfterDrop, Fates

LEMMA SetStateType ==
  ASSUME NEW s \in DictationStates, set_dictation_state(s)
  PROVE  dictation_state' \in DictationStates /\ is_recording' \in BOOLEAN
BY DEF set_dictation_state

LEMMA AbandonTypes ==
  ASSUME TypeOK, NEW ls \in Seq(ListenRecord), AbandonRecording(ls)
  PROVE  /\ rolling_in' \in Nat /\ rolling_epoch' \in Nat
         /\ pending_rolling' \in Pendings /\ pending_listen' \in Nat
         /\ listens' \in Seq(ListenRecord) /\ takes' \in Seq(TakeRecord)
         /\ dictation_state' \in DictationStates /\ is_recording' \in BOOLEAN
<1>1. rolling_in' \in Nat /\ rolling_epoch' \in Nat /\ pending_listen' \in Nat
  BY DEF AbandonRecording, NextEpoch, TypeOK
<1>2. pending_rolling' \in Pendings
  BY NoPendingType DEF AbandonRecording
<1>3. listens' \in Seq(ListenRecord)
  <2>1. Answer(ls, pending_rolling.listen, "dropped", 0) \in Seq(ListenRecord)
    BY AnswerType DEF Answers
  <2>2. QED BY <2>1, AnswerType DEF AbandonRecording, Answers
<1>4. takes' \in Seq(TakeRecord)
  BY AfterDropType DEF AbandonRecording, TypeOK
<1>5. dictation_state' \in DictationStates /\ is_recording' \in BOOLEAN
  BY SetStateType DEF AbandonRecording, DictationStates
<1>6. QED BY <1>1, <1>2, <1>3, <1>4, <1>5

LEMMA StartedTypes == ASSUME TypeOK, Started PROVE TypeOK'
<1>1. msg \in Message /\ inbox' \in Seq(Message)
  BY HandledType DEF Started, Receive
<1>2. msg.take \in Nat /\ msg.audio \in BOOLEAN
  BY <1>1, MessageFields
<1>3. NextEpoch \in Nat
  BY DEF NextEpoch, TypeOK
<1>4. rolling_in' \in Nat
  BY <1>2 DEF Started, SpawnRollingWorker
<1>5. rollers' \subseteq Rollers
  <2> DEFINE r == [take |-> msg.take, epoch |-> NextEpoch, audio |-> msg.audio, phase |-> "live"]
  <2>1. r \in Rollers
    BY <1>2, <1>3 DEF Rollers, RollerPhases
  <2>2. rollers' = rollers \cup {r} \/ rollers' = rollers
    BY DEF Started, SpawnRollingWorker
  <2>3. rollers \subseteq Rollers
    BY DEF TypeOK, Rollers
  <2> HIDE DEF r
  <2>4. QED BY <2>1, <2>2, <2>3
<1>6. rolling_epoch' \in Nat /\ pending_rolling' \in Pendings
  BY <1>3, NoPendingType DEF Started
<1>7. listens' \in Seq(ListenRecord)
  BY AnswerType DEF Started, TypeOK, Answers
<1>8. takes' \in Seq(TakeRecord)
  BY AfterDropType DEF Started, TypeOK
<1>9. QED
  BY <1>1, <1>4, <1>5, <1>6, <1>7, <1>8
  DEF Started, TypeOK, appVars, replyFrame, Pendings, Rollers

LEMMA EndGestureType ==
  ASSUME TypeOK, EndGesture \/ UNCHANGED <<hands_free_active, hold>>
  PROVE  hands_free_active' \in BOOLEAN /\ hold' \in Trackers
<1>1. hands_free_active' \in BOOLEAN
  <2>1. hands_free_active' = FALSE \/ hands_free_active' = hands_free_active
    BY DEF EndGesture
  <2>2. QED BY <2>1 DEF TypeOK
<1>2. hold' \in Trackers
  BY DEF EndGesture, TypeOK, Trackers
<1>3. QED BY <1>1, <1>2

LEMMA StoppedTypes == ASSUME TypeOK, Stopped PROVE TypeOK'
<1>1. msg \in Message /\ inbox' \in Seq(Message)
  BY HandledType DEF Stopped, Receive
<1>2. msg.take \in Nat /\ msg.audio \in BOOLEAN
  BY <1>1, MessageFields
<1>3. hands_free_active' \in BOOLEAN /\ hold' \in Trackers
  BY EndGestureType DEF Stopped
<1>4. dictation_state' \in DictationStates /\ is_recording' \in BOOLEAN
  BY SetStateType DEF Stopped, DictationStates
<1>5. pending_listen' \in Nat /\ rolling_in' \in Nat /\ rolling_epoch' \in Nat
  BY DEF Stopped, TypeOK
<1>6. pending_rolling' \in Pendings
  <2>1. Pending(msg.take, rolling_epoch, pending_listen) \in Pendings
    BY <1>2 DEF Pending, Pendings, TypeOK
  <2>2. \/ pending_rolling' = Pending(msg.take, rolling_epoch, pending_listen)
        \/ pending_rolling' = pending_rolling
    BY DEF Stopped
  <2>3. QED BY <2>1, <2>2 DEF Pendings, TypeOK
<1>7. rollers' \subseteq Rollers
  <2>1. \/ rollers' = {IF r.take = rolling_in /\ r.phase = "live"
                       THEN [r EXCEPT !.phase = "finish"] ELSE r : r \in rollers}
        \/ rollers' = rollers
    BY DEF Stopped
  <2>2. rollers \subseteq Rollers
    BY DEF TypeOK, Rollers
  <2>3. QED BY <2>1, <2>2 DEF Rollers, RollerPhases
<1>8. jobs' \subseteq Jobs
  <2> DEFINE j == [stage |-> "asr", take |-> msg.take, listen |-> pending_listen,
                   audio |-> msg.audio]
  <2>1. j \in Jobs
    BY <1>2 DEF Jobs, TypeOK
  <2>2. jobs' = jobs \cup {j} \/ jobs' = jobs
    BY DEF Stopped
  <2>3. jobs \subseteq Jobs
    BY DEF TypeOK, Jobs
  <2> HIDE DEF j
  <2>4. QED BY <2>1, <2>2, <2>3
<1>9. listens' \in Seq(ListenRecord)
  <2>1. \/ listens' = Answer(listens, pending_rolling.listen, "dropped", 0)
        \/ listens' = Answer(listens, pending_listen, "err", 0)
        \/ listens' = listens
    BY DEF Stopped
  <2>2. listens \in Seq(ListenRecord)
    BY DEF TypeOK
  <2>3. QED BY <2>1, <2>2, AnswerType DEF Answers
<1>10. takes' \in Seq(TakeRecord)
  <2>1. takes' = takes \/ takes' = Resolve(takes, msg.take, "lost")
    BY DEF Stopped
  <2>2. takes \in Seq(TakeRecord)
    BY DEF TypeOK
  <2>3. QED BY <2>1, <2>2, ResolveType DEF Fates
<1>11. budget' \in [inputs: Nat, faults: Nat]
  <2>1. budget' = budget \/ Fault("manager")
    BY DEF Stopped
  <2>2. QED BY <2>1, FaultType DEF TypeOK
<1>12. finishers' \in [done: Nat, idle: Nat]
  BY DEF Stopped, TypeOK
<1>13. UNCHANGED replyFrame
  BY DEF Stopped
<1>14. QED
  BY <1>1, <1>3, <1>4, <1>5, <1>6, <1>7, <1>8, <1>9, <1>10, <1>11, <1>12, <1>13,
     CoordinatorTypes

LEMMA DisconnectedTypes == ASSUME TypeOK, Disconnected PROVE TypeOK'
<1>1. msg \in Message /\ Tail(inbox) \in Seq(Message)
  BY HeadTailProperties DEF Disconnected, Receive, TypeOK, msg
<1>2. hands_free_active' \in BOOLEAN /\ hold' \in Trackers
  BY EndGestureType DEF Disconnected
<1>3. inbox' \in Seq(Message)
  <2>1. StoppedMsg(msg.take, FALSE, msg.audio /\ rolling_in = 0) \in Message
    BY <1>1, MessageFields, MessageType
  <2>2. \/ inbox' = Append(Tail(inbox), StoppedMsg(msg.take, FALSE, msg.audio /\ rolling_in = 0))
        \/ inbox' = Tail(inbox)
    BY DEF Disconnected, Handled
  <2>3. Append(Tail(inbox), StoppedMsg(msg.take, FALSE, msg.audio /\ rolling_in = 0)) \in Seq(Message)
    BY <1>1, <2>1, AppendProperties
  <2>4. QED BY <1>1, <2>2, <2>3
<1>4. dictation_state' \in DictationStates /\ is_recording' \in BOOLEAN
  <2>1. set_dictation_state("Idle") \/ UNCHANGED <<dictation_state, is_recording>>
    BY DEF Disconnected
  <2>2. CASE set_dictation_state("Idle")
    BY <2>2, SetStateType DEF DictationStates
  <2>3. CASE UNCHANGED <<dictation_state, is_recording>>
    BY <2>3 DEF TypeOK
  <2>4. QED BY <2>1, <2>2, <2>3
<1>5. pending_listen' \in Nat /\ rolling_in' \in Nat
  <2>1. /\ pending_listen' = pending_listen \/ pending_listen' = 0
        /\ rolling_in' = rolling_in \/ rolling_in' = 0
    BY DEF Disconnected
  <2>2. pending_listen \in Nat /\ rolling_in \in Nat
    BY Zenon DEF TypeOK
  <2>3. QED BY <2>1, <2>2
<1>6. rolling_epoch' \in Nat
  <2>1. rolling_epoch' = rolling_epoch \/ rolling_epoch' = NextEpoch
    BY DEF Disconnected
  <2>2. rolling_epoch \in Nat
    BY Zenon DEF TypeOK
  <2>3. QED BY <2>1, <2>2 DEF NextEpoch
<1>7. listens' \in Seq(ListenRecord)
  <2>1. listens' = listens \/ listens' = Answer(listens, pending_listen, "err", 0)
    BY DEF Disconnected
  <2>2. listens \in Seq(ListenRecord)
    BY DEF TypeOK
  <2>3. QED BY <2>1, <2>2, AnswerType DEF Answers
<1>8. takes' \in Seq(TakeRecord)
  <2>1. takes' = takes \/ takes' = Resolve(AfterDrop(takes), msg.take, "lost")
    BY DEF Disconnected
  <2>2. takes \in Seq(TakeRecord)
    BY DEF TypeOK
  <2>3. QED BY <2>1, <2>2, AfterDropType, ResolveType DEF Fates
<1>9. QED
  BY <1>2, <1>3, <1>4, <1>5, <1>6, <1>7, <1>8, CoordinatorTypes
  DEF Disconnected, TypeOK, Pendings, Rollers, Jobs

LEMMA CancelledTypes == ASSUME TypeOK, Cancelled \/ AudioError PROVE TypeOK'
<1>1. inbox' \in Seq(Message)
  BY HandledType DEF Cancelled, AudioError, Receive
<1>2. AbandonRecording(listens) /\ listens \in Seq(ListenRecord)
  BY DEF Cancelled, AudioError, TypeOK
<1>3. QED
  BY <1>1, <1>2, AbandonTypes DEF Cancelled, AudioError, replyFrame, TypeOK, Pendings

LEMMA NotRecordingTypes == ASSUME TypeOK, NotRecording PROVE TypeOK'
<1>1. inbox' \in Seq(Message)
  BY HandledType DEF NotRecording, Receive
<1>2. CASE dictation_state = "Recording"
  <2>1. AbandonRecording(listens) /\ listens \in Seq(ListenRecord) /\ hands_free_active' = FALSE
    BY <1>2 DEF NotRecording, TypeOK
  <2>2. QED BY <1>1, <2>1, AbandonTypes DEF NotRecording, replyFrame, TypeOK, Pendings
<1>3. CASE dictation_state # "Recording"
  BY <1>1, <1>3 DEF NotRecording, replyFrame, appVars, history, TypeOK
<1>4. QED BY <1>2, <1>3

-----------------------------------------------------------------------------
(* Delivery, and the threads that finish_with spawns.                       *)

(* What the results of a transcription may change.                          *)
ResultTypes ==
  /\ dictation_state \in DictationStates
  /\ is_recording \in BOOLEAN
  /\ pending_rolling \in Pendings
  /\ jobs \subseteq Jobs
  /\ finishers \in [done: Nat, idle: Nat]
  /\ takes \in Seq(TakeRecord)
  /\ listens \in Seq(ListenRecord)

LEMMA ResultStep ==
  ASSUME TypeOK, inbox' \in Seq(Message), ResultTypes', UNCHANGED resultFrame
  PROVE  TypeOK'
BY DEF TypeOK, ResultTypes, resultFrame, replyFrame, Pendings, Jobs

LEMMA FinalizeTypes ==
  ASSUME TypeOK, NEW t \in Nat, NEW l \in Nat, NEW has \in BOOLEAN,
         finalize_dictation(t, l, has)
  PROVE  /\ dictation_state' \in DictationStates /\ is_recording' \in BOOLEAN
         /\ finishers' \in [done: Nat, idle: Nat]
         /\ takes' \in Seq(TakeRecord) /\ listens' \in Seq(ListenRecord)
<1>1. dictation_state' \in DictationStates /\ is_recording' \in BOOLEAN
  BY SetStateType DEF finalize_dictation, DictationStates
<1>2. finishers' \in [done: Nat, idle: Nat]
  <2>1. finishers \in [done: Nat, idle: Nat] /\ finishers.done + 1 \in Nat
    BY DEF TypeOK
  <2>2. finishers' = [finishers EXCEPT !.done = finishers.done + 1]
    BY DEF finalize_dictation
  <2>3. QED BY <2>1, <2>2
<1>3. takes' \in Seq(TakeRecord)
  <2>1. takes \in Seq(TakeRecord)
    BY DEF TypeOK
  <2>2. takes' = Deliver(takes, t) \/ takes' = Resolve(takes, t, "settled")
    BY DEF finalize_dictation
  <2>3. QED BY <2>1, <2>2, DeliverType, ResolveType DEF Fates
<1>4. listens' \in Seq(ListenRecord)
  BY AnswerType DEF finalize_dictation, TypeOK, Answers
<1>5. QED BY <1>1, <1>2, <1>3, <1>4

LEMMA PipelineTypes ==
  ASSUME TypeOK, NEW t \in Nat, NEW l \in Nat, NEW has \in BOOLEAN,
         run_pipeline(t, l, has)
  PROVE  /\ dictation_state' \in DictationStates /\ is_recording' \in BOOLEAN
         /\ jobs' \subseteq Jobs /\ finishers' \in [done: Nat, idle: Nat]
         /\ takes' \in Seq(TakeRecord) /\ listens' \in Seq(ListenRecord)
<1>1. CASE finalize_dictation(t, l, has) /\ UNCHANGED jobs
  <2>1. /\ dictation_state' \in DictationStates /\ is_recording' \in BOOLEAN
        /\ finishers' \in [done: Nat, idle: Nat]
        /\ takes' \in Seq(TakeRecord) /\ listens' \in Seq(ListenRecord)
    BY <1>1, FinalizeTypes
  <2>2. jobs' \subseteq Jobs
    BY <1>1 DEF TypeOK, Jobs
  <2>3. QED BY <2>1, <2>2
<1>2. CASE /\ jobs' = jobs \cup {[stage |-> "clean", take |-> t, listen |-> l, audio |-> TRUE]}
           /\ UNCHANGED <<dictation_state, is_recording, finishers, listens, takes>>
  <2> DEFINE j == [stage |-> "clean", take |-> t, listen |-> l, audio |-> TRUE]
  <2>1. j \in Jobs
    BY DEF Jobs
  <2>2. jobs' = jobs \cup {j}
    BY <1>2
  <2> HIDE DEF j
  <2>3. jobs' \subseteq Jobs
    BY <2>1, <2>2 DEF TypeOK, Jobs
  <2>4. QED BY <1>2, <2>3 DEF TypeOK
<1>3. QED BY <1>1, <1>2 DEF run_pipeline

LEMMA RollingFinalTypes == ASSUME TypeOK, RollingFinal PROVE TypeOK'
<1>1. msg \in Message /\ inbox' \in Seq(Message) /\ msg.take \in Nat
  BY HandledType, MessageFields DEF RollingFinal, Receive
<1>2. CASE /\ run_pipeline(msg.take, pending_rolling.listen, msg.out = "text")
           /\ pending_rolling' = NoPending
  <2>1. pending_rolling.listen \in Nat /\ (msg.out = "text") \in BOOLEAN
    BY DEF TypeOK
  <2>2. QED
    BY <1>1, <1>2, <2>1, PipelineTypes, NoPendingType, ResultStep
    DEF RollingFinal, ResultTypes
<1>3. CASE /\ takes' = takes \/ takes' = Resolve(takes, msg.take, "lost")
              \/ takes' = Resolve(takes, msg.take, "settled")
           /\ UNCHANGED <<dictation_state, is_recording, finishers, jobs, listens,
                          pending_rolling>>
  <2>1. takes' \in Seq(TakeRecord)
    BY <1>3, ResolveType DEF TypeOK, Fates
  <2>2. QED
    BY <1>1, <1>3, <2>1, ResultStep DEF RollingFinal, ResultTypes, TypeOK, Pendings, Jobs
<1>4. QED BY <1>2, <1>3 DEF RollingFinal

LEMMA RollingLateTypes == ASSUME TypeOK, RollingLate PROVE TypeOK'
<1>1. inbox' \in Seq(Message)
  BY HandledType DEF RollingLate, Receive
<1>2. takes' \in Seq(TakeRecord)
  BY ResolveType DEF RollingLate, TypeOK, Fates
<1>3. QED BY <1>1, <1>2, ResultStep DEF RollingLate, ResultTypes, TypeOK, Pendings, Jobs

LEMMA RollingWorkerLostTypes == ASSUME TypeOK, RollingWorkerLost PROVE TypeOK'
<1>1. inbox' \in Seq(Message)
  BY HandledType DEF RollingWorkerLost, Receive
<1>2. CASE pending_rolling.waiting /\ pending_rolling.epoch = msg.epoch
  <2>1. listens' \in Seq(ListenRecord)
    <3>1. listens' = Answer(listens, pending_rolling.listen, "err", 0)
      BY <1>2 DEF RollingWorkerLost
    <3>2. listens \in Seq(ListenRecord)
      BY DEF TypeOK
    <3>3. QED BY <3>1, <3>2, AnswerType DEF Answers
  <2>2. takes' \in Seq(TakeRecord)
    <3>1. takes' = Resolve(takes, pending_rolling.take, "settled")
      BY <1>2 DEF RollingWorkerLost
    <3>2. takes \in Seq(TakeRecord)
      BY DEF TypeOK
    <3>3. QED BY <3>1, <3>2, ResolveType DEF Fates
  <2>3. dictation_state' \in DictationStates /\ is_recording' \in BOOLEAN
    BY <1>2, SetStateType DEF RollingWorkerLost, DictationStates
  <2>4. pending_rolling' \in Pendings
    BY <1>2, NoPendingType DEF RollingWorkerLost
  <2>5. QED
    BY <1>1, <2>1, <2>2, <2>3, <2>4, ResultStep DEF RollingWorkerLost, ResultTypes, TypeOK, Jobs
<1>3. CASE ~(pending_rolling.waiting /\ pending_rolling.epoch = msg.epoch)
  BY <1>1, <1>3, ResultStep DEF RollingWorkerLost, ResultTypes, TypeOK, Pendings, Jobs, history
<1>4. QED BY <1>2, <1>3

LEMMA TranscribeResultTypes == ASSUME TypeOK, TranscribeResult PROVE TypeOK'
<1>1. /\ msg \in Message /\ inbox' \in Seq(Message)
      /\ msg.take \in Nat /\ msg.listen \in Nat
  BY HandledType, MessageFields DEF TranscribeResult, Receive
<1>2. CASE run_pipeline(msg.take, msg.listen, msg.out = "text")
  <2>1. (msg.out = "text") \in BOOLEAN
    OBVIOUS
  <2>2. QED
    BY <1>1, <1>2, <2>1, PipelineTypes, ResultStep
    DEF TranscribeResult, ResultTypes, TypeOK, Pendings
<1>3. CASE /\ takes' = Resolve(takes, msg.take, "settled")
           /\ listens' = Answer(listens, msg.listen, "err", 0)
           /\ set_dictation_state("Idle")
           /\ UNCHANGED <<jobs, finishers>>
  <2>1. listens' \in Seq(ListenRecord)
    BY <1>3, AnswerType DEF TypeOK, Answers
  <2>2. takes' \in Seq(TakeRecord)
    BY <1>3, ResolveType DEF TypeOK, Fates
  <2>3. dictation_state' \in DictationStates /\ is_recording' \in BOOLEAN
    BY <1>3, SetStateType DEF DictationStates
  <2>4. QED
    BY <1>1, <1>3, <2>1, <2>2, <2>3, ResultStep
    DEF TranscribeResult, ResultTypes, TypeOK, Pendings, Jobs
<1>4. QED BY <1>2, <1>3 DEF TranscribeResult

LEMMA CleanupDoneTypes == ASSUME TypeOK, CleanupDone PROVE TypeOK'
<1>1. /\ msg \in Message /\ inbox' \in Seq(Message)
      /\ msg.take \in Nat /\ msg.listen \in Nat
  BY HandledType, MessageFields DEF CleanupDone, Receive
<1>2. QED
  BY <1>1, FinalizeTypes, ResultStep
  DEF CleanupDone, ResultTypes, TypeOK, Pendings, Jobs

LEMMA FinisherTypes == ASSUME TypeOK, FinisherNext PROVE TypeOK'
<1> USE DEF finishFrame, localVars, envVars, history
<1>1. finishers \in [done: Nat, idle: Nat] /\ finishers.done \in Nat /\ finishers.idle \in Nat
  BY DEF TypeOK
<1>2. CASE FinishIdle
  <2>1. finishers.done - 1 \in Nat /\ finishers.idle + 1 \in Nat
    BY <1>1, <1>2 DEF FinishIdle
  <2>2. finishers' \in [done: Nat, idle: Nat]
    BY <1>2, <2>1 DEF FinishIdle
  <2>3. dictation_state' \in DictationStates
    BY <1>2 DEF FinishIdle, TypeOK, DictationStates
  <2>4. QED BY <1>2, <2>2, <2>3 DEF FinishIdle, TypeOK
<1>3. CASE FinishClear
  <2>1. finishers.idle - 1 \in Nat
    BY <1>1, <1>3 DEF FinishClear
  <2>2. finishers' = [finishers EXCEPT !.idle = finishers.idle - 1]
    BY <1>3 DEF FinishClear
  <2>3. finishers' \in [done: Nat, idle: Nat]
    BY <1>1, <2>1, <2>2
  <2>4. QED BY <1>3, <2>3 DEF FinishClear, TypeOK
<1>4. QED BY <1>2, <1>3 DEF FinisherNext

LEMMA PanicTypes == ASSUME TypeOK, CoordinatorPanic PROVE TypeOK'
<1>1. msg \in Message /\ inbox' \in Seq(Message)
  BY HandledType DEF CoordinatorPanic
<1>2. budget' \in [inputs: Nat, faults: Nat]
  BY FaultType DEF CoordinatorPanic
<1>3. /\ dictation_state' \in DictationStates /\ is_recording' \in BOOLEAN
      /\ hands_free_active' = FALSE /\ pending_listen' = 0
  BY SetStateType DEF CoordinatorPanic, reset_after_panic, DictationStates
<1>4. listens' \in Seq(ListenRecord)
  <2> DEFINE l1 == Answer(listens, msg.listen, "dropped", 0)
             l2 == Answer(l1, pending_rolling.listen, "dropped", 0)
  <2>1. l1 \in Seq(ListenRecord)
    BY AnswerType DEF TypeOK, Answers
  <2> HIDE DEF l1
  <2>2. l2 \in Seq(ListenRecord)
    BY <2>1, AnswerType DEF Answers
  <2> HIDE DEF l2
  <2>3. listens' = Answer(l2, pending_listen, "err", 0)
    BY DEF CoordinatorPanic, l2, l1
  <2>4. QED BY <2>2, <2>3, AnswerType DEF Answers
<1>5. takes' \in Seq(TakeRecord)
  BY AfterDropType, ResolveType DEF CoordinatorPanic, TypeOK, Fates
<1>6. hold' \in Trackers
  BY HoldFields DEF CoordinatorPanic, NewHold, Trackers
<1>7. timers' \subseteq Timers
  <2>1. \A t \in Timers :
          [t EXCEPT !.phase = IF t.phase = "sleep" THEN "held" ELSE t.phase] \in Timers
    BY DEF Timers, TimerPhases
  <2>2. \A u \in timers' : \E t \in timers :
          u = [t EXCEPT !.phase = IF t.phase = "sleep" THEN "held" ELSE t.phase]
    BY DEF CoordinatorPanic
  <2>3. timers \subseteq Timers
    BY DEF TypeOK, Timers
  <2>4. QED BY <2>1, <2>2, <2>3
<1>8. rolling_in' \in Nat /\ rolling_epoch' \in Nat /\ pending_rolling' \in Pendings
  BY NoPendingType DEF CoordinatorPanic
<1>9. QED
  BY <1>1, <1>2, <1>3, <1>4, <1>5, <1>6, <1>7, <1>8
  DEF CoordinatorPanic, TypeOK, Trackers, Timers, Pendings

-----------------------------------------------------------------------------
(* The rolling workers, the waiter threads and the environment.             *)

LEMMA RollerTypes == ASSUME TypeOK, RollerNext \/ RollerFails PROVE TypeOK'
<1> USE DEF threadFrame, appVars, localVars, history
<1>1. PICK r \in rollers :
        \/ RollerFinal(r) \/ RollerLate(r) \/ RollerAbandoned(r)
        \/ RollerPartial(r) \/ RollerPanicsLate(r) \/ RollerDies(r)
  BY DEF RollerNext, RollerFails
<1>2. rollers \subseteq Rollers /\ r \in Rollers
  BY DEF TypeOK, Rollers
<1>3. r.take \in Nat /\ r.epoch \in Nat /\ Texts(r) \subseteq Outcomes
  BY <1>2 DEF Rollers, Texts, Outcomes
<1>4. inbox' \in Seq(Message)
  <2>1. /\ \A o \in Texts(r), p \in BOOLEAN : FinalMsg(r.take, r.epoch, p, o) \in Message
        /\ \A o \in Texts(r) : LateMsg(r.take, r.epoch, o) \in Message
        /\ LostMsg(r.take, r.epoch) \in Message
        /\ FinalMsg(r.take, r.epoch, TRUE, "empty") \in Message
    BY <1>3, MessageType DEF Outcomes
  <2>2. \/ \E m \in Message : Reply(m)
        \/ UNCHANGED inbox
    BY <1>1, <2>1 DEF RollerFinal, RollerLate, RollerAbandoned, RollerPartial,
       RollerPanicsLate, RollerDies
  <2>3. QED BY <2>2, ReplyType DEF TypeOK
<1>5. rollers' \subseteq Rollers
  <2>1. [r EXCEPT !.phase = "late"] \in Rollers
    BY <1>2 DEF Rollers, RollerPhases
  <2>2. \/ rollers' = rollers \ {r}
        \/ rollers' = (rollers \ {r}) \cup {[r EXCEPT !.phase = "late"]}
    BY <1>1 DEF RollerFinal, RollerLate, RollerAbandoned, RollerPartial,
       RollerPanicsLate, RollerDies
  <2>3. QED BY <1>2, <2>1, <2>2
<1>6. budget' \in [inputs: Nat, faults: Nat]
  <2>1. budget' = budget \/ \E f : Fault(f)
    BY <1>1 DEF RollerFinal, RollerLate, RollerAbandoned, RollerPartial,
       RollerPanicsLate, RollerDies
  <2>2. QED BY <2>1, FaultType DEF TypeOK
<1>7. UNCHANGED <<threadFrame, jobs>>
  BY <1>1 DEF RollerFinal, RollerLate, RollerAbandoned, RollerPartial,
       RollerPanicsLate, RollerDies
<1>8. QED BY <1>4, <1>5, <1>6, <1>7 DEF TypeOK, Rollers

LEMMA JobTypes == ASSUME TypeOK, JobNext \/ JobFails PROVE TypeOK'
<1> USE DEF threadFrame, appVars, localVars, history
<1>1. PICK j \in jobs : AsrDone(j) \/ CleanDone(j) \/ AsrFails(j)
  BY DEF JobNext, JobFails
<1>2. j.take \in Nat /\ j.listen \in Nat
  BY DEF TypeOK
<1>3. inbox' \in Seq(Message)
  <2>1. /\ \A o \in Outcomes : ResultMsg(j.take, j.listen, o) \in Message
        /\ CleanupDoneMsg(j.take, j.listen) \in Message
    BY <1>2, MessageType
  <2>2. \E m \in Message : Reply(m)
    BY <1>1, <2>1 DEF AsrDone, CleanDone, AsrFails, Outcomes
  <2>3. QED BY <2>2, ReplyType
<1>4. jobs' = jobs \ {j} /\ UNCHANGED <<threadFrame, rollers>>
  BY <1>1 DEF AsrDone, CleanDone, AsrFails
<1>5. budget' \in [inputs: Nat, faults: Nat]
  <2>1. budget' = budget \/ Fault("engine")
    BY <1>1 DEF AsrDone, CleanDone, AsrFails
  <2>2. QED BY <2>1, FaultType DEF TypeOK
<1>6. QED BY <1>3, <1>4, <1>5 DEF TypeOK

LEMMA EnvTypes == ASSUME TypeOK, EnvNext PROVE TypeOK'
<1> USE DEF inputFrame, appVars, localVars, threads
<1>1. budget' \in [inputs: Nat, faults: Nat]
  <2>1. ASSUME NEW i, Input(i) PROVE budget' \in [inputs: Nat, faults: Nat]
    <3>1. budget.inputs \in Nat /\ budget.inputs > 0
      BY <2>1 DEF TypeOK, Input
    <3>2. budget.inputs - 1 \in Nat
      BY <3>1
    <3>3. /\ budget \in [inputs: Nat, faults: Nat]
          /\ budget' = [budget EXCEPT !.inputs = budget.inputs - 1]
      BY <2>1 DEF TypeOK, Input
    <3>4. QED BY <3>2, <3>3
  <2>2. budget' = budget \/ \E i : Input(i)
    BY DEF EnvNext, PressKey, ReleaseKey, OtherKey, PressEscape, FlowCancel, TrayToggle,
           FlowListen, ToggleRollingSetting
  <2>3. QED BY <2>1, <2>2 DEF TypeOK
<1>2. inbox' \in Seq(Message)
  <2>1. \A k \in MsgKinds : Plain(k) \in Message
    BY MessageType
  <2>2. [Plain("OtherKeyDuringHold") EXCEPT !.flag = TRUE] \in Message
    BY DEF Plain, Blank, Message, MsgKinds, Outcomes
  <2>3. DaemonListenMsg(Len(listens) + 1) \in Message
    BY MessageType, LenProperties DEF TypeOK
  <2>4. (\E m \in Message : Reply(m)) \/ UNCHANGED inbox
    BY <2>1, <2>2, <2>3
    DEF EnvNext, PressKey, ReleaseKey, OtherKey, PressEscape, FlowCancel, TrayToggle,
        FlowListen, ToggleRollingSetting, MsgKinds
  <2>5. QED BY <2>4, ReplyType DEF TypeOK
<1>3. listens' \in Seq(ListenRecord)
  <2>1. [status |-> "waiting", take |-> 0, alone |-> FALSE] \in ListenRecord
    BY DEF ListenRecord, Answers
  <2>2. \/ listens' = listens
        \/ listens' = Append(listens, [status |-> "waiting", take |-> 0, alone |-> FALSE])
    BY DEF EnvNext, PressKey, ReleaseKey, OtherKey, PressEscape, FlowCancel, TrayToggle,
           FlowListen, ToggleRollingSetting
  <2>3. listens \in Seq(ListenRecord)
    BY DEF TypeOK
  <2>4. QED BY <2>1, <2>2, <2>3, AppendProperties
<1>4. rolling_enabled' \in BOOLEAN /\ key_held' \in BOOLEAN /\ UNCHANGED inputFrame
  BY DEF EnvNext, PressKey, ReleaseKey, OtherKey, PressEscape, FlowCancel, TrayToggle,
         FlowListen, ToggleRollingSetting, TypeOK
<1>5. QED BY <1>1, <1>2, <1>3, <1>4 DEF TypeOK

-----------------------------------------------------------------------------
LEMMA TypeStep ==
  ASSUME TypeOK, [Next]_vars
  PROVE  TypeOK'
<1>1. CASE CoordinatorNext
  BY <1>1, HoldKeyPressedTypes, HoldKeyReleasedTypes, OtherKeyDuringHoldTypes,
     CancelRequestedTypes, TrayToggleTypes, DaemonListenTypes, StartedTypes,
     StoppedTypes, DisconnectedTypes, CancelledTypes, NotRecordingTypes,
     RollingFinalTypes, RollingLateTypes, RollingWorkerLostTypes,
     TranscribeResultTypes, CleanupDoneTypes
  DEF CoordinatorNext
<1>2. CASE CoordinatorPanic BY <1>2, PanicTypes
<1>3. CASE TimerNext BY <1>3, TimerTypes
<1>4. CASE FinisherNext BY <1>4, FinisherTypes
<1>5. CASE AudioWorkerNext BY <1>5, WorkerTypes
<1>6. CASE RollerNext \/ RollerFails BY <1>6, RollerTypes
<1>7. CASE JobNext \/ JobFails BY <1>7, JobTypes
<1>8. CASE EnvNext BY <1>8, EnvTypes
<1>9. CASE UNCHANGED vars
  BY <1>9 DEF TypeOK, vars, appVars, localVars, threads, envVars, history
<1>10. QED
  BY <1>1, <1>2, <1>3, <1>4, <1>5, <1>6, <1>7, <1>8, <1>9 DEF Next

(* Every state of a dictating installation is well formed: the messages     *)
(* that cross between the coordinator, the audio worker and the             *)
(* transcription threads have the shapes their handlers read, and every     *)
(* take and listen has one of the fates and answers the code can give it.   *)
THEOREM TypeCorrect == Spec => []TypeOK
<1>1. Init => TypeOK
  <2> SUFFICES ASSUME Init PROVE TypeOK
    OBVIOUS
  <2>1. rolling_enabled \in BOOLEAN /\ budget \in [inputs: Nat, faults: Nat]
    BY DictationAssumption DEF Init
  <2>2. /\ inbox \in Seq(Message) /\ cmds \in Seq(AudioCommand)
        /\ takes \in Seq(TakeRecord) /\ listens \in Seq(ListenRecord)
    BY EmptySeq DEF Init
  <2>3. /\ hold \in Trackers /\ pending_rolling \in Pendings
        /\ mic \in [on: BOOLEAN, take: Nat, rolling: BOOLEAN]
    BY DEF Init, NewHold, NoPending, NoMic, Trackers, Pendings
  <2>4. QED
    BY <2>1, <2>2, <2>3 DEF Init, TypeOK, DictationStates, Trackers, Pendings
<1>2. TypeOK /\ [Next]_vars => TypeOK'
  BY TypeStep
<1>3. QED BY <1>1, <1>2, PTL DEF Spec

-----------------------------------------------------------------------------
(* A message enters a channel at its end and leaves it at its head.         *)
LEMMA HasKindAppend ==
  ASSUME NEW S, NEW q \in Seq(S), NEW e, NEW K
  PROVE  HasKind(Append(q, e), K) <=> HasKind(q, K) \/ e.kind \in K
<1> DEFINE a == Append(q, e)
<1>1. /\ DOMAIN q = 1..Len(q) /\ DOMAIN a = 1..(Len(q) + 1) /\ Len(q) \in Nat
      /\ \A i \in 1..Len(q) : a[i] = q[i]
      /\ a[Len(q) + 1] = e
  <2>1. q \in Seq(S \cup {e}) /\ e \in S \cup {e}
    OBVIOUS
  <2>2. QED BY <2>1, AppendProperties, LenProperties
<1> HIDE DEF a
<1>2. 1..(Len(q) + 1) = (1..Len(q)) \cup {Len(q) + 1}
  BY <1>1
<1>3. HasKind(a, K) <=> HasKind(q, K) \/ e.kind \in K
  BY <1>1, <1>2 DEF HasKind
<1>4. QED BY <1>3 DEF a

LEMMA HasKindTail ==
  ASSUME NEW S, NEW q \in Seq(S), q # <<>>, NEW K, HasKind(q, K), Head(q).kind \notin K
  PROVE  HasKind(Tail(q), K)
<1>1. PICK i \in DOMAIN q : q[i].kind \in K
  BY DEF HasKind
<1>2. i \in 1..Len(q) /\ Len(q) \in Nat
  BY <1>1, LenProperties
<1>3. Head(q) = q[1]
  OBVIOUS
<1>4. i # 1
  BY <1>1, <1>3
<1>5. /\ Len(Tail(q)) = Len(q) - 1
      /\ \A j \in 1..(Len(q) - 1) : Tail(q)[j] = q[j + 1]
  BY HeadTailProperties
<1>6. i - 1 \in 1..(Len(q) - 1) /\ Tail(q)[i - 1] = q[i]
  BY <1>2, <1>4, <1>5
<1>7. DOMAIN Tail(q) = 1..(Len(q) - 1)
  BY <1>5, HeadTailProperties, LenProperties
<1>8. QED BY <1>1, <1>6, <1>7 DEF HasKind

-----------------------------------------------------------------------------
(* Coming out of Recording.  A step that enters no recording and takes no   *)
(* end of one out of the channels keeps the invariant.                      *)
InboxQuiet ==
  \/ inbox' = inbox
  \/ \E m : inbox' = Append(inbox, m)
  \/ inbox # <<>> /\ inbox' = Tail(inbox) /\ msg.kind \notin EndKinds

CmdsQuiet == cmds' = cmds \/ \E c : cmds' = Append(cmds, c)

LEMMA QuietInbox ==
  ASSUME TypeOK, InboxQuiet, HasKind(inbox, EndKinds)
  PROVE  HasKind(inbox', EndKinds)
<1>1. inbox \in Seq(Message)
  BY DEF TypeOK
<1>2. CASE \E m : inbox' = Append(inbox, m)
  BY <1>1, <1>2, HasKindAppend
<1>3. CASE inbox # <<>> /\ inbox' = Tail(inbox) /\ msg.kind \notin EndKinds
  BY <1>1, <1>3, HasKindTail DEF msg
<1>4. CASE inbox' = inbox
  BY <1>4
<1>5. QED BY <1>2, <1>3, <1>4 DEF InboxQuiet

LEMMA QuietCmds ==
  ASSUME TypeOK, CmdsQuiet, HasKind(cmds, {"Start"})
  PROVE  HasKind(cmds', {"Start"})
<1>1. cmds \in Seq(AudioCommand)
  BY DEF TypeOK
<1>2. QED BY <1>1, HasKindAppend DEF CmdsQuiet

LEMMA QuietStep ==
  ASSUME TypeOK, RecordingHasEnd, InboxQuiet, CmdsQuiet, mic' = mic,
         dictation_state' = "Recording" => dictation_state = "Recording"
  PROVE  RecordingHasEnd'
BY QuietInbox, QuietCmds DEF RecordingHasEnd

LEMMA StartStep ==
  ASSUME TypeOK, RecordingHasEnd, InboxQuiet, mic' = mic,
         NEW hf, NEW pl, NEW l \in Nat, NEW ls, start_recording(hf, pl, l, ls)
  PROVE  RecordingHasEnd'
<1>1. CASE cmds' = Append(cmds, StartCmd(rolling_enabled, l))
  <2>1. StartCmd(rolling_enabled, l) \in AudioCommand
    BY DEF TypeOK, StartCmd, AudioCommand
  <2>2. HasKind(cmds', {"Start"})
    BY <1>1, <2>1, HasKindAppend DEF TypeOK, StartCmd
  <2>3. QED BY <2>2 DEF RecordingHasEnd
<1>2. CASE UNCHANGED <<dictation_state, cmds>>
  BY <1>2, QuietStep DEF CmdsQuiet
<1>3. QED BY <1>1, <1>2 DEF start_recording

LEMMA HandlersEnd ==
  ASSUME TypeOK, RecordingHasEnd, CoordinatorNext
  PROVE  RecordingHasEnd'
<1> USE DEF Receive, Handled
<1>1. CASE HoldKeyPressed
  <2>1. InboxQuiet /\ CmdsQuiet /\ mic' = mic
    BY <1>1 DEF HoldKeyPressed, NoCapture, gestureFrame, InboxQuiet, CmdsQuiet, EndKinds
  <2>2. QED BY <1>1, <2>1, QuietStep DEF HoldKeyPressed, NoCapture
<1>2. CASE HoldKeyReleased
  <2>1. InboxQuiet /\ mic' = mic
    BY <1>2 DEF HoldKeyReleased, gestureFrame, InboxQuiet, EndKinds
  <2>2. CASE start_recording(TRUE, pending_listen, 0, listens)
    BY <2>1, <2>2, StartStep
  <2>3. CASE SendEnd(StopCmd) \/ NoCapture
    <3>1. CmdsQuiet /\ dictation_state' = dictation_state
      BY <2>3 DEF SendEnd, NoCapture, CmdsQuiet, StopCmd, AudioCommand
    <3>2. QED BY <2>1, <3>1, QuietStep
  <2>4. QED BY <1>2, <2>2, <2>3 DEF HoldKeyReleased
<1>3. CASE OtherKeyDuringHold
  <2>1. InboxQuiet /\ mic' = mic
    BY <1>3 DEF OtherKeyDuringHold, gestureFrame, InboxQuiet, EndKinds
  <2>2. SendEnd(CancelCmd) \/ NoCapture
    BY <1>3 DEF OtherKeyDuringHold
  <2>3. CmdsQuiet /\ dictation_state' = dictation_state
    BY <2>2 DEF SendEnd, NoCapture, CmdsQuiet, CancelCmd, AudioCommand
  <2>4. QED BY <2>1, <2>3, QuietStep
<1>4. CASE CancelRequested
  <2>1. InboxQuiet /\ mic' = mic
    BY <1>4 DEF CancelRequested, gestureFrame, InboxQuiet, EndKinds
  <2>2. SendEnd(CancelCmd) \/ NoCapture
    BY <1>4 DEF CancelRequested
  <2>3. CmdsQuiet /\ dictation_state' = dictation_state
    BY <2>2 DEF SendEnd, NoCapture, CmdsQuiet, CancelCmd, AudioCommand
  <2>4. QED BY <2>1, <2>3, QuietStep
<1>5. CASE TrayToggleDictation
  <2>1. InboxQuiet /\ mic' = mic
    BY <1>5 DEF TrayToggleDictation, gestureFrame, InboxQuiet, EndKinds
  <2>2. CASE start_recording(TRUE, pending_listen, 0, listens)
    BY <2>1, <2>2, StartStep
  <2>3. CASE SendEnd(StopCmd) \/ NoCapture
    <3>1. CmdsQuiet /\ dictation_state' = dictation_state
      BY <2>3 DEF SendEnd, NoCapture, CmdsQuiet, StopCmd, AudioCommand
    <3>2. QED BY <2>1, <3>1, QuietStep
  <2>4. QED BY <1>5, <2>2, <2>3 DEF TrayToggleDictation
<1>6. CASE DaemonListen
  <2>1. InboxQuiet /\ mic' = mic
    BY <1>6 DEF DaemonListen, gestureFrame, InboxQuiet, EndKinds
  <2>2. CASE dictation_state # "Idle"
    BY <1>6, <2>1, <2>2, QuietStep DEF DaemonListen, CmdsQuiet
  <2>3. CASE dictation_state = "Idle"
    <3>1. msg.listen \in Nat
      BY <1>6, HandledType DEF DaemonListen, Message
    <3>2. QED BY <1>6, <2>1, <2>3, <3>1, StartStep DEF DaemonListen
  <2>4. QED BY <2>2, <2>3
<1>7. CASE Started \/ RollingFinal \/ RollingLate \/ RollingWorkerLost
             \/ TranscribeResult \/ CleanupDone
  <2>1. InboxQuiet /\ CmdsQuiet /\ mic' = mic
    BY <1>7 DEF Started, RollingFinal, RollingLate, RollingWorkerLost, TranscribeResult,
                CleanupDone, resultFrame, replyFrame, InboxQuiet, CmdsQuiet, EndKinds
  <2>2. dictation_state' = "Recording" => dictation_state = "Recording"
    BY <1>7 DEF Started, RollingFinal, RollingLate, RollingWorkerLost, TranscribeResult,
                CleanupDone, appVars, run_pipeline, finalize_dictation, set_dictation_state
  <2>3. QED BY <2>1, <2>2, QuietStep
<1>8. CASE Stopped
  BY <1>8 DEF Stopped, set_dictation_state, RecordingHasEnd
<1>9. CASE Disconnected
  <2>1. CASE inbox' = Append(Tail(inbox), StoppedMsg(msg.take, FALSE, msg.audio /\ rolling_in = 0))
    <3>1. Tail(inbox) \in Seq(Message)
      BY <1>9, HeadTailProperties DEF Disconnected, TypeOK
    <3>2. StoppedMsg(msg.take, FALSE, msg.audio /\ rolling_in = 0).kind \in EndKinds
      BY DEF StoppedMsg, Blank, EndKinds
    <3>3. HasKind(inbox', EndKinds)
      BY <2>1, <3>1, <3>2, HasKindAppend
    <3>4. QED BY <3>3 DEF RecordingHasEnd
  <2>2. CASE set_dictation_state("Idle")
    BY <2>2 DEF set_dictation_state, RecordingHasEnd
  <2>3. QED BY <1>9, <2>1, <2>2 DEF Disconnected
<1>10. CASE Cancelled \/ AudioError
  BY <1>10 DEF Cancelled, AudioError, AbandonRecording, set_dictation_state, RecordingHasEnd
<1>11. CASE NotRecording
  BY <1>11 DEF NotRecording, AbandonRecording, set_dictation_state, RecordingHasEnd, appVars
<1>12. QED
  BY <1>1, <1>2, <1>3, <1>4, <1>5, <1>6, <1>7, <1>8, <1>9, <1>10, <1>11 DEF CoordinatorNext

LEMMA WorkerEnds ==
  ASSUME TypeOK, RecordingHasEnd, AudioWorkerNext
  PROVE  RecordingHasEnd'
<1>1. CASE OpenMic \/ IgnoreStart
  BY <1>1 DEF OpenMic, IgnoreStart, Mic, RecordingHasEnd
<1>2. CASE OpenFails \/ AckIdle \/ StopRecording \/ CancelRecording \/ AutoStop \/ DeviceLost
  <2>1. \E m : m.kind \in EndKinds /\ Reply(m)
    <3>1. /\ Plain("Error").kind \in EndKinds /\ Plain("NotRecording").kind \in EndKinds
          /\ \A t, b, c : /\ StoppedMsg(t, b, c).kind \in EndKinds
                          /\ DisconnectedMsg(t, b, c).kind \in EndKinds
                          /\ CancelledMsg(t).kind \in EndKinds
      BY DEF EndKinds, Blank, Plain, StoppedMsg, DisconnectedMsg, CancelledMsg
    <3>2. QED
      BY <1>2, <3>1 DEF OpenFails, AckIdle, StopRecording, CancelRecording, AutoStop, DeviceLost
  <2>2. HasKind(inbox', EndKinds)
    BY <2>1, HasKindAppend DEF TypeOK, Reply
  <2>3. QED BY <2>2 DEF RecordingHasEnd
<1>3. QED BY <1>1, <1>2 DEF AudioWorkerNext

LEMMA OtherThreadsEnd ==
  ASSUME TypeOK, RecordingHasEnd,
         TimerNext \/ FinisherNext \/ RollerNext \/ RollerFails \/ JobNext \/ JobFails \/ EnvNext
  PROVE  RecordingHasEnd'
<1> USE DEF threadFrame, inputFrame, finishFrame, appVars, localVars
<1>1. CASE TimerNext
  <2>1. PICK t \in timers : TimerWakes(t) \/ TimerSeesState(t) \/ TimerStarts(t)
    BY <1>1 DEF TimerNext
  <2>2. InboxQuiet /\ mic' = mic
    BY <2>1 DEF TimerWakes, TimerSeesState, TimerStarts, timerFrame, InboxQuiet
  <2>3. CASE TimerStarts(t)
    BY <2>2, <2>3, StartStep DEF TimerStarts
  <2>4. CASE NoCapture
    BY <2>2, <2>4, QuietStep DEF NoCapture, CmdsQuiet
  <2>5. QED BY <2>1, <2>3, <2>4 DEF TimerWakes, TimerSeesState
<1>2. CASE FinisherNext
  BY <1>2, QuietStep DEF FinisherNext, FinishIdle, FinishClear, InboxQuiet, CmdsQuiet
<1>3. CASE RollerNext \/ RollerFails \/ JobNext \/ JobFails \/ EnvNext
  <2>1. InboxQuiet
    BY <1>3 DEF RollerNext, RollerFails, JobNext, JobFails, EnvNext, Reply, InboxQuiet,
       RollerFinal, RollerLate, RollerAbandoned, RollerPartial,
       RollerPanicsLate, RollerDies, AsrDone, CleanDone,
       AsrFails, PressKey, ReleaseKey, OtherKey, PressEscape, FlowCancel, TrayToggle,
       FlowListen, ToggleRollingSetting
  <2>2. UNCHANGED <<cmds, mic, dictation_state>>
    BY <1>3 DEF RollerNext, RollerFails, JobNext, JobFails, EnvNext,
       RollerFinal, RollerLate, RollerAbandoned, RollerPartial,
       RollerPanicsLate, RollerDies, AsrDone, CleanDone,
       AsrFails, PressKey, ReleaseKey, OtherKey, PressEscape, FlowCancel, TrayToggle,
       FlowListen, ToggleRollingSetting
  <2>3. QED BY <2>1, <2>2, QuietStep DEF CmdsQuiet
<1>4. QED BY <1>1, <1>2, <1>3

(* While the state says Recording there is always something left that ends  *)
(* it: an open microphone, a Start on its way to the audio worker, or the   *)
(* worker's word on its way back.  Whatever is pressed, fails or panics, in *)
(* any number, `dictation_state` does not latch on Recording.               *)
THEOREM RecordingEnds == Spec => []RecordingHasEnd
<1>1. Init => RecordingHasEnd
  BY DEF Init, RecordingHasEnd
<1>2. TypeOK /\ RecordingHasEnd /\ [Next]_vars => RecordingHasEnd'
  <2> SUFFICES ASSUME TypeOK, RecordingHasEnd, [Next]_vars PROVE RecordingHasEnd'
    OBVIOUS
  <2>1. CASE CoordinatorNext BY <2>1, HandlersEnd
  <2>2. CASE CoordinatorPanic
    BY <2>2 DEF CoordinatorPanic, reset_after_panic, set_dictation_state, RecordingHasEnd
  <2>3. CASE AudioWorkerNext BY <2>3, WorkerEnds
  <2>4. CASE UNCHANGED vars
    BY <2>4, QuietStep DEF vars, appVars, InboxQuiet, CmdsQuiet
  <2>5. QED BY <2>1, <2>2, <2>3, <2>4, OtherThreadsEnd DEF Next
<1>3. QED BY <1>1, <1>2, TypeCorrect, PTL DEF Spec

-----------------------------------------------------------------------------
(* Without the hold key nothing starts a recording but the tray and the     *)
(* daemon, and those look at the state first.                               *)
NoHold ==
  /\ ~key_held /\ timers = {}
  /\ ~HasKind(inbox, {"HoldKeyPressed", "HoldKeyReleased"})

(* A message of other kinds leaves the inbox without those it did not have. *)
LEMMA StaysWithout ==
  ASSUME TypeOK, NEW K, ~HasKind(inbox, K),
         \/ inbox' = inbox
         \/ inbox # <<>> /\ inbox' = Tail(inbox)
         \/ \E m : m.kind \notin K /\ inbox' = Append(inbox, m)
         \/ \E m : m.kind \notin K /\ inbox # <<>> /\ inbox' = Append(Tail(inbox), m)
  PROVE  ~HasKind(inbox', K)
<1>1. inbox \in Seq(Message)
  BY DEF TypeOK
<1>2. inbox # <<>> => Tail(inbox) \in Seq(Message) /\ ~HasKind(Tail(inbox), K)
  <2> SUFFICES ASSUME inbox # <<>>
               PROVE  Tail(inbox) \in Seq(Message) /\ ~HasKind(Tail(inbox), K)
    OBVIOUS
  <2>1. Tail(inbox) \in Seq(Message) /\ Len(Tail(inbox)) = Len(inbox) - 1
        /\ \A i \in 1..(Len(inbox) - 1) : Tail(inbox)[i] = inbox[i + 1]
    BY <1>1, HeadTailProperties
  <2>2. DOMAIN inbox = 1..Len(inbox) /\ DOMAIN Tail(inbox) = 1..(Len(inbox) - 1)
        /\ Len(inbox) \in Nat
    BY <1>1, <2>1, LenProperties
  <2>3. \A i \in 1..(Len(inbox) - 1) : i + 1 \in 1..Len(inbox)
    BY <2>2
  <2>4. QED BY <2>1, <2>2, <2>3 DEF HasKind
<1>3. QED BY <1>1, <1>2, HasKindAppend

-----------------------------------------------------------------------------
(* What each thread does to the inbox.                                      *)
Sends(K) == \E m : m.kind \in K /\ inbox' = Append(inbox, m)

InputMsgKinds == {"HoldKeyPressed", "HoldKeyReleased", "OtherKeyDuringHold",
                  "CancelRequested", "TrayToggleDictation", "DaemonListen"}
ReplyKinds == {"Started"} \cup EndKinds
RollerKinds == {"Final", "Late", "RollingWorkerLost"}
ResultKinds == {"TranscribeResult", "CleanupDone"}

LEMMA WorkerReplies ==
  ASSUME AudioWorkerNext
  PROVE  inbox' = inbox \/ Sends(ReplyKinds)
<1>1. /\ Plain("Error").kind \in ReplyKinds /\ Plain("NotRecording").kind \in ReplyKinds
      /\ \A t, b, c : /\ StoppedMsg(t, b, c).kind \in ReplyKinds
                      /\ DisconnectedMsg(t, b, c).kind \in ReplyKinds
                      /\ CancelledMsg(t).kind \in ReplyKinds
                      /\ StartedMsg(t, b).kind \in ReplyKinds
  BY DEF ReplyKinds, EndKinds, Blank, Plain, StoppedMsg, DisconnectedMsg, CancelledMsg,
         StartedMsg
<1>2. QED
  BY <1>1 DEF AudioWorkerNext, OpenMic, OpenFails, AckIdle, IgnoreStart, StopRecording,
     CancelRecording, AutoStop, DeviceLost, Reply, Sends

LEMMA RollerReplies ==
  ASSUME RollerNext \/ RollerFails
  PROVE  inbox' = inbox \/ Sends(RollerKinds)
<1>1. \A t, e, p, o : /\ FinalMsg(t, e, p, o).kind \in RollerKinds
                     /\ LateMsg(t, e, o).kind \in RollerKinds
                     /\ LostMsg(t, e).kind \in RollerKinds
  BY DEF RollerKinds, Blank, FinalMsg, LateMsg, LostMsg
<1>2. QED
  BY <1>1 DEF RollerNext, RollerFails, RollerFinal, RollerPartial, RollerLate,
     RollerPanicsLate, RollerAbandoned, RollerDies, Reply, Sends

LEMMA JobReplies ==
  ASSUME JobNext \/ JobFails
  PROVE  Sends(ResultKinds)
<1>1. \A t, l, o : /\ ResultMsg(t, l, o).kind \in ResultKinds
                  /\ CleanupDoneMsg(t, l).kind \in ResultKinds
  BY DEF ResultKinds, Blank, ResultMsg, CleanupDoneMsg
<1>2. QED
  BY <1>1 DEF JobNext, JobFails, AsrDone, CleanDone, AsrFails, Reply, Sends

LEMMA EnvReplies ==
  ASSUME EnvNext
  PROVE  inbox' = inbox \/ Sends(InputMsgKinds)
<1> USE DEF Sends, InputMsgKinds
<1>1. CASE UNCHANGED inbox
  BY <1>1
<1>2. ASSUME NEW k \in InputMsgKinds, Reply(Plain(k))
      PROVE  Sends(InputMsgKinds)
  <2>1. Plain(k).kind = k
    BY DEF Plain, Blank
  <2>2. QED BY <1>2, <2>1 DEF Reply
<1>3. ASSUME Reply([Plain("OtherKeyDuringHold") EXCEPT !.flag = TRUE])
      PROVE  Sends(InputMsgKinds)
  <2> DEFINE m == [Plain("OtherKeyDuringHold") EXCEPT !.flag = TRUE]
  <2>1. m.kind = "OtherKeyDuringHold" /\ Reply(m)
    BY <1>3 DEF Plain, Blank
  <2> HIDE DEF m
  <2>2. QED BY <2>1 DEF Reply
<1>4. ASSUME NEW l, Reply(DaemonListenMsg(l))
      PROVE  Sends(InputMsgKinds)
  <2>1. DaemonListenMsg(l).kind = "DaemonListen"
    BY DEF DaemonListenMsg, Blank
  <2>2. QED BY <1>4, <2>1 DEF Reply
<1>5. \/ \E k \in InputMsgKinds : Reply(Plain(k))
      \/ Reply([Plain("OtherKeyDuringHold") EXCEPT !.flag = TRUE])
      \/ \E l : Reply(DaemonListenMsg(l))
      \/ UNCHANGED inbox
  BY DEF EnvNext, PressKey, ReleaseKey, OtherKey, PressEscape, FlowCancel, TrayToggle,
     FlowListen, ToggleRollingSetting
<1> HIDE DEF Sends, InputMsgKinds
<1>6. QED BY <1>1, <1>2, <1>3, <1>4, <1>5

(* The coordinator takes the head; of a device it lost it may send itself a *)
(* Stopped.                                                                 *)
LEMMA HandlerInbox ==
  ASSUME TypeOK, CoordinatorNext
  PROVE  /\ inbox # <<>> /\ msg \in Message /\ Tail(inbox) \in Seq(Message)
         /\ \/ inbox' = Tail(inbox)
            \/ /\ Disconnected
               /\ inbox' = Append(Tail(inbox), StoppedMsg(msg.take, FALSE, msg.audio /\ rolling_in = 0))
               /\ StoppedMsg(msg.take, FALSE, msg.audio /\ rolling_in = 0) \in Message
<1> USE DEF Receive, Handled
<1>1. inbox # <<>>
  BY DEF CoordinatorNext, HoldKeyPressed, HoldKeyReleased, OtherKeyDuringHold,
     CancelRequested, TrayToggleDictation, DaemonListen, Started, Stopped, Disconnected,
     Cancelled, NotRecording, AudioError, RollingFinal, RollingLate, RollingWorkerLost,
     TranscribeResult, CleanupDone
<1>2. msg \in Message /\ Tail(inbox) \in Seq(Message)
  BY <1>1, HeadTailProperties DEF TypeOK, msg
<1>3. StoppedMsg(msg.take, FALSE, msg.audio /\ rolling_in = 0) \in Message
  BY <1>2, MessageFields, MessageType
<1>4. \/ inbox' = Tail(inbox)
      \/ Disconnected /\ inbox' = Append(Tail(inbox), StoppedMsg(msg.take, FALSE, msg.audio /\ rolling_in = 0))
  <2>1. CASE Disconnected
    BY <2>1 DEF Disconnected
  <2>2. CASE ~Disconnected
    BY <2>2 DEF CoordinatorNext, HoldKeyPressed, HoldKeyReleased, OtherKeyDuringHold,
     CancelRequested, TrayToggleDictation, DaemonListen, Started, Stopped,
     Cancelled, NotRecording, AudioError, RollingFinal, RollingLate, RollingWorkerLost,
     TranscribeResult, CleanupDone
  <2>3. QED BY <2>1, <2>2
<1>5. QED BY <1>1, <1>2, <1>3, <1>4

LEMMA HeadKind ==
  ASSUME TypeOK, inbox # <<>>, NEW K, msg.kind \in K
  PROVE  HasKind(inbox, K)
<1>1. inbox \in Seq(Message)
  BY DEF TypeOK
<1>2. 1 \in DOMAIN inbox /\ msg = inbox[1]
  BY <1>1, HeadTailProperties, LenProperties DEF msg
<1>3. QED BY <1>2 DEF HasKind

(* One lemma for every handler: what it finds at the head, and that it      *)
(* leaves alone what belongs to the other threads.                          *)
LEMMA HandlerFrame ==
  ASSUME CoordinatorNext
  PROVE  mic' = mic /\ key_held' = key_held /\ rolling_enabled' = rolling_enabled
BY DEF CoordinatorNext, HoldKeyPressed, HoldKeyReleased, OtherKeyDuringHold,
     CancelRequested, TrayToggleDictation, DaemonListen, Started, Stopped, Disconnected,
     Cancelled, NotRecording, AudioError, RollingFinal, RollingLate, RollingWorkerLost,
     TranscribeResult, CleanupDone, gestureFrame, replyFrame, resultFrame

LEMMA WorkerFrame ==
  ASSUME AudioWorkerNext
  PROVE  /\ UNCHANGED <<dictation_state, is_recording, hands_free_active, pending_listen>>
         /\ UNCHANGED <<hold, rolling_in, rolling_epoch, pending_rolling>>
         /\ UNCHANGED <<timers, rollers, jobs, finishers>>
         /\ UNCHANGED <<rolling_enabled, key_held, listens>>
BY DEF AudioWorkerNext, OpenMic, OpenFails, AckIdle, IgnoreStart, StopRecording,
       CancelRecording, AutoStop, DeviceLost, workerFrame, appVars, localVars, threads

LEMMA RollerFrame ==
  ASSUME RollerNext \/ RollerFails
  PROVE  /\ UNCHANGED <<dictation_state, is_recording, hands_free_active, pending_listen>>
         /\ UNCHANGED <<hold, rolling_in, rolling_epoch, pending_rolling>>
         /\ UNCHANGED <<cmds, mic, timers, jobs, finishers>>
         /\ UNCHANGED <<rolling_enabled, key_held, takes, listens>>
<1> USE DEF threadFrame, appVars, localVars, history
<1>1. CASE RollerNext
  BY <1>1 DEF RollerNext, RollerFinal, RollerLate, RollerAbandoned
<1>2. CASE RollerFails
  BY <1>2 DEF RollerFails, RollerPartial, RollerPanicsLate, RollerDies
<1>3. QED BY <1>1, <1>2

LEMMA JobFrame ==
  ASSUME JobNext \/ JobFails
  PROVE  /\ UNCHANGED <<dictation_state, is_recording, hands_free_active, pending_listen>>
         /\ UNCHANGED <<hold, rolling_in, rolling_epoch, pending_rolling>>
         /\ UNCHANGED <<cmds, mic, timers, rollers, finishers>>
         /\ UNCHANGED <<rolling_enabled, key_held, takes, listens>>
BY DEF JobNext, JobFails, AsrDone, CleanDone, AsrFails, threadFrame, appVars, localVars, history

LEMMA EnvFrame ==
  ASSUME EnvNext
  PROVE  /\ UNCHANGED <<dictation_state, is_recording, hands_free_active, pending_listen>>
         /\ UNCHANGED <<hold, rolling_in, rolling_epoch, pending_rolling>>
         /\ UNCHANGED <<cmds, mic, timers, rollers, jobs, finishers, takes>>
BY DEF EnvNext, PressKey, ReleaseKey, OtherKey, PressEscape, FlowCancel, TrayToggle,
       FlowListen, ToggleRollingSetting, inputFrame, appVars, localVars, threads

LEMMA FinisherFrame ==
  ASSUME FinisherNext
  PROVE  /\ UNCHANGED <<hands_free_active, pending_listen>>
         /\ UNCHANGED <<hold, rolling_in, rolling_epoch, pending_rolling>>
         /\ UNCHANGED <<inbox, cmds, mic, timers, rollers, jobs>>
         /\ UNCHANGED <<rolling_enabled, key_held, takes, listens>>
BY DEF FinisherNext, FinishIdle, FinishClear, finishFrame, localVars, envVars, history

LEMMA TimerFrame ==
  ASSUME TimerNext
  PROVE  /\ UNCHANGED <<hold, rolling_in, rolling_epoch, pending_rolling>>
         /\ UNCHANGED <<inbox, mic, rollers, jobs, finishers>>
         /\ UNCHANGED <<rolling_enabled, key_held, takes>>
BY DEF TimerNext, TimerWakes, TimerSeesState, TimerStarts, timerFrame

LEMMA StutterFrame ==
  ASSUME UNCHANGED vars
  PROVE  /\ UNCHANGED <<dictation_state, is_recording, hands_free_active, pending_listen>>
         /\ UNCHANGED <<hold, rolling_in, rolling_epoch, pending_rolling>>
         /\ UNCHANGED <<inbox, cmds, mic, timers, rollers, jobs, finishers>>
         /\ UNCHANGED <<rolling_enabled, key_held, takes, listens>>
BY DEF vars, appVars, localVars, threads, envVars, history

LEMMA NoHoldInit == Init => NoHold
<1> SUFFICES ASSUME Init PROVE NoHold
  OBVIOUS
<1>1. inbox = <<>> /\ ~key_held /\ timers = {}
  BY DEF Init
<1>2. QED BY <1>1 DEF NoHold, HasKind

LEMMA NoHoldStep ==
  ASSUME TypeOK, NoHold, "hold" \notin Inputs, [Next]_vars
  PROVE  NoHold'
<1> DEFINE K == {"HoldKeyPressed", "HoldKeyReleased"}
<1> USE DEF NoHold
<1>1. CASE CoordinatorNext
  <2>1. msg.kind \notin K /\ ~HasKind(inbox, K)
    BY <1>1, HandlerInbox, HeadKind
  <2>2. timers' = timers
    BY <1>1, <2>1 DEF CoordinatorNext, HoldKeyPressed, Receive, HoldKeyReleased,
     OtherKeyDuringHold, CancelRequested, TrayToggleDictation, DaemonListen, Started, Stopped,
     Disconnected, Cancelled, NotRecording, AudioError, RollingFinal, RollingLate,
     RollingWorkerLost, TranscribeResult, CleanupDone, gestureFrame, replyFrame, resultFrame
  <2>3. StoppedMsg(msg.take, FALSE, msg.audio /\ rolling_in = 0).kind \notin K
    BY DEF StoppedMsg, Blank
  <2>4. ~HasKind(inbox', K)
    BY <1>1, <2>1, <2>3, HandlerInbox, StaysWithout
  <2>5. QED BY <1>1, <2>2, <2>4, HandlerFrame
<1>2. CASE CoordinatorPanic
  BY <1>2, StaysWithout DEF CoordinatorPanic, Handled
<1>3. CASE TimerNext
  BY <1>3 DEF TimerNext
<1>4. CASE FinisherNext
  BY <1>4, FinisherFrame
<1>5. CASE AudioWorkerNext
  <2>1. ~HasKind(inbox', K)
    BY <1>5, WorkerReplies, StaysWithout DEF Sends, ReplyKinds, EndKinds
  <2>2. QED BY <1>5, <2>1, WorkerFrame
<1>6. CASE RollerNext \/ RollerFails
  <2>1. ~HasKind(inbox', K)
    BY <1>6, RollerReplies, StaysWithout DEF Sends, RollerKinds
  <2>2. QED BY <1>6, <2>1, RollerFrame
<1>7. CASE JobNext \/ JobFails
  <2>1. ~HasKind(inbox', K)
    BY <1>7, JobReplies, StaysWithout DEF Sends, ResultKinds
  <2>2. QED BY <1>7, <2>1, JobFrame
<1>8. CASE EnvNext
  <2>1. PressEscape \/ FlowCancel \/ TrayToggle \/ FlowListen \/ ToggleRollingSetting
    BY <1>8 DEF EnvNext, PressKey, ReleaseKey, OtherKey, Input
  <2>2. \/ inbox' = inbox
        \/ Reply(Plain("CancelRequested")) \/ Reply(Plain("TrayToggleDictation"))
        \/ \E l : Reply(DaemonListenMsg(l))
    BY <2>1 DEF PressEscape, FlowCancel, TrayToggle, FlowListen, ToggleRollingSetting
  <2>3. /\ Plain("CancelRequested").kind \notin K /\ Plain("TrayToggleDictation").kind \notin K
        /\ \A l : DaemonListenMsg(l).kind \notin K
    BY DEF Plain, Blank, DaemonListenMsg
  <2>4. ~HasKind(inbox', K)
    BY <2>2, <2>3, StaysWithout DEF Reply
  <2>5. QED
    BY <2>1, <2>4 DEF PressEscape, FlowCancel, TrayToggle, FlowListen, ToggleRollingSetting,
       inputFrame, threads
<1>9. CASE UNCHANGED vars
  BY <1>9, StutterFrame
<1>10. QED
  BY <1>1, <1>2, <1>3, <1>4, <1>5, <1>6, <1>7, <1>8, <1>9 DEF Next

LEMMA OnlyIdleStarts ==
  ASSUME TypeOK, NoHold, Next, dictation_state \in {"Transcribing", "Done"}
  PROVE  dictation_state' # "Recording"
<1>1. CASE CoordinatorNext
  <2>1. msg.kind \notin {"HoldKeyPressed", "HoldKeyReleased"}
    BY <1>1, HandlerInbox, HeadKind DEF NoHold
  <2>2. QED
    BY <1>1, <2>1 DEF CoordinatorNext, HoldKeyPressed, HoldKeyReleased, Receive,
     OtherKeyDuringHold, CancelRequested, TrayToggleDictation, DaemonListen, Started, Stopped,
     Disconnected, Cancelled, NotRecording, AudioError, RollingFinal, RollingLate,
     RollingWorkerLost, TranscribeResult, CleanupDone, NoCapture, SendEnd, appVars,
     AbandonRecording, set_dictation_state, run_pipeline, finalize_dictation
<1>2. CASE CoordinatorPanic
  BY <1>2 DEF CoordinatorPanic, reset_after_panic, set_dictation_state
<1>3. CASE TimerNext
  BY <1>3 DEF TimerNext, NoHold
<1>4. CASE FinisherNext
  BY <1>4 DEF FinisherNext, FinishIdle, FinishClear
<1>5. CASE AudioWorkerNext
  BY <1>5, WorkerFrame
<1>6. CASE RollerNext \/ RollerFails \/ JobNext \/ JobFails
  BY <1>6, RollerFrame, JobFrame
<1>7. CASE EnvNext
  BY <1>7, EnvFrame
<1>8. QED
  BY <1>1, <1>2, <1>3, <1>4, <1>5, <1>6, <1>7 DEF Next

(* Where the hold key is not used, nothing pressed, called or failing cuts  *)
(* a transcription or a paste short with a new recording.  (A hold may: its *)
(* threshold thread reads the state in one step and starts in another.)     *)
THEOREM BusyLeftAlone ==
  "hold" \notin Inputs => (Spec => BusyIsNotInterrupted)
<1> SUFFICES ASSUME "hold" \notin Inputs PROVE Spec => BusyIsNotInterrupted
  OBVIOUS
<1>1. TypeOK /\ NoHold /\ [Next]_vars => NoHold'
  BY NoHoldStep
<1>2. TypeOK /\ NoHold /\ [Next]_vars =>
        [(dictation_state \in {"Transcribing", "Done"} => dictation_state' # "Recording")]_vars
  BY OnlyIdleStarts
<1>3. QED BY <1>1, <1>2, NoHoldInit, TypeCorrect, PTL DEF Spec, BusyIsNotInterrupted

(* The places of a sequence after an append and after a removal.            *)
LEMMA AppendAt ==
  ASSUME NEW S, NEW q \in Seq(S), NEW e
  PROVE  /\ Len(q) \in Nat /\ DOMAIN q = 1..Len(q)
         /\ DOMAIN Append(q, e) = 1..(Len(q) + 1)
         /\ \A i \in 1..Len(q) : Append(q, e)[i] = q[i]
         /\ Append(q, e)[Len(q) + 1] = e
<1>1. q \in Seq(S \cup {e}) /\ e \in S \cup {e}
  OBVIOUS
<1>2. QED BY <1>1, AppendProperties, LenProperties

LEMMA TailAt ==
  ASSUME NEW S, NEW q \in Seq(S), q # <<>>
  PROVE  /\ Len(q) \in Nat \ {0} /\ DOMAIN q = 1..Len(q)
         /\ Tail(q) \in Seq(S) /\ Head(q) = q[1]
         /\ DOMAIN Tail(q) = 1..(Len(q) - 1)
         /\ \A i \in 1..(Len(q) - 1) : Tail(q)[i] = q[i + 1]
<1>1. Tail(q) \in Seq(S) /\ Len(Tail(q)) = Len(q) - 1
      /\ \A i \in 1..(Len(q) - 1) : Tail(q)[i] = q[i + 1]
  BY HeadTailProperties
<1>2. DOMAIN Tail(q) = 1..Len(Tail(q))
  BY <1>1, LenProperties
<1>3. Len(q) \in Nat /\ DOMAIN q = 1..Len(q) /\ Len(q) # 0
  BY LenProperties, EmptySeq
<1>4. Head(q) = q[1]
  OBVIOUS
<1>5. QED BY <1>1, <1>2, <1>3, <1>4

-----------------------------------------------------------------------------
(* The worker whose sender the coordinator holds is live, with the epoch of *)
(* the recording.                                                           *)
LiveWorker ==
  rolling_in # 0 =>
    \E r \in rollers : r.take = rolling_in /\ r.phase = "live" /\ r.epoch = rolling_epoch

(* What ends a recording the coordinator has lost sight of.                 *)
LoudKinds == {"Stopped", "Disconnected", "Cancelled", "Error"}

(* Every recording announced is still on, or its end follows in the queue.  *)
StartedEnds ==
  \A i \in DOMAIN inbox :
    inbox[i].kind = "Started" =>
      mic.on \/ \E k \in DOMAIN inbox : k > i /\ inbox[k].kind \in LoudKinds

LEMMA LiveWorkerStep ==
  ASSUME TypeOK, LiveWorker, "early" \notin Faults, [Next]_vars
  PROVE  LiveWorker'
<1> USE DEF LiveWorker
<1>1. CASE UNCHANGED <<rolling_in, rolling_epoch, rollers>>
  BY <1>1
<1>2. CASE rolling_in' = 0
  BY <1>2
<1>3. CASE CoordinatorNext
  <2>1. CASE Started
    <3> DEFINE r == [take |-> msg.take, epoch |-> NextEpoch, audio |-> msg.audio,
                     phase |-> "live"]
    <3>1. rolling_in' # 0 => r \in rollers' /\ rolling_in' = r.take
      BY <2>1 DEF Started, SpawnRollingWorker
    <3>2. rolling_epoch' = r.epoch /\ r.phase = "live"
      BY <2>1 DEF Started
    <3> HIDE DEF r
    <3>3. QED BY <3>1, <3>2
  <2>2. CASE ~Started
    <3>1. rolling_in' = 0 \/ UNCHANGED <<rolling_in, rolling_epoch, rollers>>
      BY <1>3, <2>2 DEF CoordinatorNext, HoldKeyPressed, HoldKeyReleased,
       OtherKeyDuringHold, CancelRequested, TrayToggleDictation, DaemonListen, Stopped,
       Disconnected, Cancelled, NotRecording, AudioError, RollingFinal, RollingLate,
       RollingWorkerLost, TranscribeResult, CleanupDone, gestureFrame, resultFrame,
       AbandonRecording
    <3>2. QED BY <1>1, <1>2, <3>1
  <2>3. QED BY <2>1, <2>2
<1>4. CASE CoordinatorPanic
  BY <1>2, <1>4 DEF CoordinatorPanic
<1>5. CASE RollerNext \/ RollerFails
  <2>1. UNCHANGED <<rolling_in, rolling_epoch>>
    BY <1>5, RollerFrame
  <2>2. ASSUME NEW r \in rollers, r.phase = "live", r.take = rolling_in
        PROVE  r \in rollers'
    BY <1>5, <2>2 DEF RollerNext, RollerFails, RollerFinal, RollerPartial, RollerLate,
       RollerPanicsLate, RollerAbandoned, RollerDies, Fault
  <2>3. QED BY <2>1, <2>2
<1>6. CASE TimerNext \/ FinisherNext \/ AudioWorkerNext \/ JobNext \/ JobFails \/ EnvNext
           \/ UNCHANGED vars
  BY <1>1, <1>6, TimerFrame, FinisherFrame, WorkerFrame, JobFrame, EnvFrame, StutterFrame
<1>7. QED BY <1>3, <1>4, <1>5, <1>6 DEF Next

(* StartedEnds survives an append, of a Started only with the microphone    *)
(* open, and a removal.                                                     *)
LEMMA StartedEndsAppend ==
  ASSUME NEW q \in Seq(Message), NEW m, NEW on \in BOOLEAN, NEW on1 \in BOOLEAN,
         \A i \in DOMAIN q : q[i].kind = "Started" =>
           on \/ \E k \in DOMAIN q : k > i /\ q[k].kind \in LoudKinds,
         m.kind = "Started" => on1,
         on => on1 \/ m.kind \in LoudKinds
  PROVE  \A i \in DOMAIN Append(q, m) : Append(q, m)[i].kind = "Started" =>
           on1 \/ \E k \in DOMAIN Append(q, m) :
                     k > i /\ Append(q, m)[k].kind \in LoudKinds
<1> DEFINE a == Append(q, m)
<1>1. /\ Len(q) \in Nat /\ DOMAIN q = 1..Len(q) /\ DOMAIN a = 1..(Len(q) + 1)
      /\ \A i \in 1..Len(q) : a[i] = q[i]
      /\ a[Len(q) + 1] = m
  BY AppendAt
<1> HIDE DEF a
<1> SUFFICES ASSUME NEW i \in DOMAIN a, a[i].kind = "Started", ~on1
             PROVE  \E k \in DOMAIN a : k > i /\ a[k].kind \in LoudKinds
  BY DEF a
<1>2. i \in 1..Len(q) /\ a[i] = q[i]
  BY <1>1
<1>3. CASE on
  <2>1. Len(q) + 1 \in DOMAIN a /\ Len(q) + 1 > i
    BY <1>1, <1>2
  <2>2. QED BY <1>1, <1>3, <2>1
<1>4. CASE ~on
  <2>1. PICK k \in DOMAIN q : k > i /\ q[k].kind \in LoudKinds
    BY <1>1, <1>2, <1>4
  <2>2. k \in DOMAIN a /\ a[k] = q[k]
    BY <1>1, <2>1
  <2>3. QED BY <2>1, <2>2
<1>5. QED BY <1>3, <1>4

LEMMA StartedEndsTail ==
  ASSUME TypeOK, StartedEnds, inbox # <<>>
  PROVE  \A i \in DOMAIN Tail(inbox) : Tail(inbox)[i].kind = "Started" =>
           mic.on \/ \E k \in DOMAIN Tail(inbox) :
                        k > i /\ Tail(inbox)[k].kind \in LoudKinds
<1> DEFINE a == Tail(inbox)
<1>1. /\ Len(inbox) \in Nat \ {0} /\ DOMAIN inbox = 1..Len(inbox)
      /\ DOMAIN a = 1..(Len(inbox) - 1)
      /\ \A i \in 1..(Len(inbox) - 1) : a[i] = inbox[i + 1]
  BY TailAt DEF TypeOK
<1> HIDE DEF a
<1> SUFFICES ASSUME NEW i \in DOMAIN a, a[i].kind = "Started", ~mic.on
             PROVE  \E k \in DOMAIN a : k > i /\ a[k].kind \in LoudKinds
  BY DEF a
<1>2. i + 1 \in DOMAIN inbox /\ inbox[i + 1].kind = "Started" /\ i \in Nat
  BY <1>1
<1>3. PICK k \in DOMAIN inbox : k > i + 1 /\ inbox[k].kind \in LoudKinds
  BY <1>2 DEF StartedEnds
<1>4. k - 1 \in DOMAIN a /\ k - 1 > i /\ a[k - 1] = inbox[k]
  BY <1>1, <1>2, <1>3
<1>5. QED BY <1>3, <1>4

(* The audio worker's replies: a Started with the microphone opening, an    *)
(* end with it closing.                                                     *)
SendsInStep(m) ==
  /\ inbox' = Append(inbox, m)
  /\ m.kind = "Started" => mic'.on
  /\ mic.on => mic'.on \/ m.kind \in LoudKinds

LEMMA WorkerStartedEnds ==
  ASSUME TypeOK, AudioWorkerNext
  PROVE  /\ mic'.on \in BOOLEAN
         /\ (inbox' = inbox /\ mic' = mic) \/ \E m : SendsInStep(m)
<1>1. mic'.on \in BOOLEAN
  <2>1. TypeOK'
    BY WorkerTypes
  <2>2. QED BY <2>1 DEF TypeOK
<1>2. CASE IgnoreStart
  BY <1>1, <1>2 DEF IgnoreStart
<1>3. CASE OpenMic
  <2>1. \A t, r : StartedMsg(t, r).kind = "Started" /\ Mic(t, r).on
    BY DEF StartedMsg, Blank, Mic
  <2>2. QED BY <1>1, <1>3, <2>1 DEF OpenMic, Reply, SendsInStep
<1>4. CASE OpenFails \/ AckIdle
  <2>1. Plain("Error").kind = "Error" /\ Plain("NotRecording").kind = "NotRecording"
    BY DEF Plain, Blank
  <2>2. QED BY <1>1, <1>4, <2>1 DEF OpenFails, AckIdle, Reply, SendsInStep
<1>5. CASE StopRecording \/ CancelRecording \/ AutoStop \/ DeviceLost
  <2>1. \A t, b, c : /\ StoppedMsg(t, b, c).kind \in LoudKinds
                    /\ DisconnectedMsg(t, b, c).kind \in LoudKinds
                    /\ CancelledMsg(t).kind \in LoudKinds
    BY DEF StoppedMsg, DisconnectedMsg, CancelledMsg, Blank, LoudKinds
  <2>2. PICK m : m.kind \in LoudKinds /\ Reply(m)
    BY <1>5, <2>1 DEF StopRecording, CancelRecording, AutoStop, DeviceLost
  <2>3. SendsInStep(m)
    BY <2>2 DEF SendsInStep, Reply, LoudKinds
  <2>4. QED BY <1>1, <2>3
<1>6. QED BY <1>2, <1>3, <1>4, <1>5 DEF AudioWorkerNext

LEMMA StartedEndsStep ==
  ASSUME TypeOK, StartedEnds, [Next]_vars
  PROVE  StartedEnds'
<1>1. mic.on \in BOOLEAN /\ inbox \in Seq(Message)
  BY DEF TypeOK
<1>2. ASSUME mic' = mic, NEW K, "Started" \notin K, inbox' = inbox \/ Sends(K)
      PROVE  StartedEnds'
  <2>1. CASE inbox' = inbox
    BY <1>2, <2>1 DEF StartedEnds
  <2>2. CASE Sends(K)
    <3>1. PICK m : m.kind \in K /\ inbox' = Append(inbox, m)
      BY <2>2 DEF Sends
    <3>2. m.kind # "Started"
      BY <1>2, <3>1
    <3>3. QED BY <1>1, <1>2, <3>1, <3>2, StartedEndsAppend DEF StartedEnds
  <2>3. QED BY <1>2, <2>1, <2>2
<1>3. CASE CoordinatorNext
  <2>1. inbox # <<>> /\ Tail(inbox) \in Seq(Message) /\ mic' = mic
    BY <1>3, HandlerInbox, HandlerFrame
  <2>2. CASE inbox' = Tail(inbox)
    BY <2>1, <2>2, StartedEndsTail DEF StartedEnds
  <2>3. CASE inbox' = Append(Tail(inbox), StoppedMsg(msg.take, FALSE, msg.audio /\ rolling_in = 0))
    <3>1. StoppedMsg(msg.take, FALSE, msg.audio /\ rolling_in = 0).kind # "Started"
      BY DEF StoppedMsg, Blank
    <3>2. QED
      BY <1>1, <2>1, <2>3, <3>1, StartedEndsTail, StartedEndsAppend DEF StartedEnds
  <2>4. QED BY <1>3, <2>2, <2>3, HandlerInbox
<1>4. CASE CoordinatorPanic
  <2>1. inbox # <<>> /\ inbox' = Tail(inbox) /\ mic' = mic
    BY <1>4 DEF CoordinatorPanic, Handled
  <2>2. QED BY <2>1, StartedEndsTail DEF StartedEnds
<1>5. CASE AudioWorkerNext
  <2>1. CASE inbox' = inbox /\ mic' = mic
    BY <2>1 DEF StartedEnds
  <2>2. CASE \E m : SendsInStep(m)
    <3>1. PICK m : SendsInStep(m)
      BY <2>2
    <3>2. mic'.on \in BOOLEAN
      BY <1>5, WorkerStartedEnds
    <3>3. QED BY <1>1, <3>1, <3>2, StartedEndsAppend DEF StartedEnds, SendsInStep
  <2>3. QED BY <1>5, <2>1, <2>2, WorkerStartedEnds
<1>6. CASE RollerNext \/ RollerFails
  BY <1>2, <1>6, RollerReplies, RollerFrame DEF RollerKinds
<1>7. CASE JobNext \/ JobFails
  BY <1>2, <1>7, JobReplies, JobFrame DEF ResultKinds
<1>8. CASE EnvNext
  BY <1>2, <1>8, EnvReplies, EnvFrame DEF InputMsgKinds
<1>9. CASE TimerNext \/ FinisherNext \/ UNCHANGED vars
  BY <1>9, TimerFrame, FinisherFrame, StutterFrame DEF StartedEnds
<1>10. QED
  BY <1>3, <1>4, <1>5, <1>6, <1>7, <1>8, <1>9 DEF Next

-----------------------------------------------------------------------------
(* What is left to end a transcription.                                     *)
EndOwed ==
  \/ FinalOnItsWay
  \/ jobs # {} \/ HasKind(inbox, ResultKinds)
  \/ AnotherEndComes

(* A step that takes none of it away.                                       *)
LEMMA KeepsEnd ==
  ASSUME TypeOK, EndOwed,
         inbox' = inbox \/ (\E m : inbox' = Append(inbox, m))
           \/ /\ inbox # <<>> /\ inbox' = Tail(inbox)
              /\ msg.kind \notin ResultKinds \cup LoudKinds
              /\ ~(/\ pending_rolling.waiting /\ msg.kind \in {"Final", "RollingWorkerLost"}
                   /\ msg.epoch = pending_rolling.epoch),
         CmdsQuiet, mic' = mic, pending_rolling' = pending_rolling,
         \A r \in rollers : r.phase = "finish" => r \in rollers',
         jobs \subseteq jobs'
  PROVE  EndOwed'
<1>1. inbox \in Seq(Message) /\ cmds \in Seq(AudioCommand)
  BY DEF TypeOK
<1>2. ASSUME NEW K \in SUBSET (ResultKinds \cup LoudKinds), HasKind(inbox, K)
      PROVE  HasKind(inbox', K)
  <2>1. CASE inbox' = inbox
    BY <1>2, <2>1
  <2>2. CASE \E m : inbox' = Append(inbox, m)
    BY <1>1, <1>2, <2>2, HasKindAppend
  <2>3. CASE inbox # <<>> /\ inbox' = Tail(inbox) /\ msg.kind \notin K
    BY <1>1, <1>2, <2>3, HasKindTail DEF msg
  <2>4. QED BY <1>2, <2>1, <2>2, <2>3
<1>3. ASSUME FinalOnItsWay PROVE FinalOnItsWay'
  <2>1. pending_rolling'.waiting /\ pending_rolling'.epoch = pending_rolling.epoch
    BY <1>3 DEF FinalOnItsWay
  <2>2. CASE \E r \in rollers : r.phase = "finish" /\ r.epoch = pending_rolling.epoch
    BY <2>1, <2>2 DEF FinalOnItsWay
  <2>3. CASE \E i \in DOMAIN inbox : /\ inbox[i].kind \in {"Final", "RollingWorkerLost"}
                                     /\ inbox[i].epoch = pending_rolling.epoch
    <3>1. PICK i \in DOMAIN inbox : /\ inbox[i].kind \in {"Final", "RollingWorkerLost"}
                                    /\ inbox[i].epoch = pending_rolling.epoch
      BY <2>3
    <3>2. CASE inbox' = inbox
      BY <2>1, <3>1, <3>2 DEF FinalOnItsWay
    <3>3. CASE \E m : inbox' = Append(inbox, m)
      <4>1. i \in DOMAIN inbox' /\ inbox'[i] = inbox[i]
        BY <1>1, <3>1, <3>3, AppendAt
      <4>2. QED BY <2>1, <3>1, <4>1 DEF FinalOnItsWay
    <3>4. CASE inbox # <<>> /\ inbox' = Tail(inbox) /\ i # 1
      <4>1. i - 1 \in DOMAIN inbox' /\ inbox'[i - 1] = inbox[i]
        BY <1>1, <3>1, <3>4, TailAt
      <4>2. QED BY <2>1, <3>1, <4>1 DEF FinalOnItsWay
    <3>5. inbox # <<>> => msg = inbox[1]
      BY <1>1, TailAt DEF msg
    <3>6. QED BY <1>3, <3>1, <3>2, <3>3, <3>4, <3>5 DEF FinalOnItsWay
  <2>4. QED BY <1>3, <2>2, <2>3 DEF FinalOnItsWay
<1>4. AnotherEndComes => AnotherEndComes'
  <2>1. HasKind(cmds, {"Start"}) => HasKind(cmds', {"Start"})
    BY QuietCmds
  <2>2. HasKind(inbox, LoudKinds) => HasKind(inbox', LoudKinds)
    BY <1>2
  <2>3. QED BY <2>1, <2>2 DEF AnotherEndComes, LoudKinds
<1>5. HasKind(inbox, ResultKinds) => HasKind(inbox', ResultKinds)
  BY <1>2
<1>6. QED BY <1>3, <1>4, <1>5 DEF EndOwed

LEMMA HandlerKeepsEnd ==
  ASSUME TypeOK, LiveWorker, StartedEnds, TranscribingHasEnd, CoordinatorNext,
         dictation_state' = "Transcribing"
  PROVE  EndOwed'
<1> USE DEF Receive, Handled
<1>1. inbox \in Seq(Message) /\ msg \in Message
  BY HandlerInbox DEF TypeOK
<1>2. dictation_state = "Transcribing" => EndOwed
  BY DEF TranscribingHasEnd, EndOwed, ResultKinds
<1>3. CASE HoldKeyPressed \/ HoldKeyReleased \/ OtherKeyDuringHold \/ CancelRequested
             \/ TrayToggleDictation \/ DaemonListen
  <2>1. dictation_state = "Transcribing"
    BY <1>3 DEF HoldKeyPressed, HoldKeyReleased, OtherKeyDuringHold, CancelRequested,
       TrayToggleDictation, DaemonListen, NoCapture, SendEnd, start_recording,
       set_dictation_state
  <2>2. /\ inbox # <<>> /\ inbox' = Tail(inbox) /\ msg.kind \in InputMsgKinds
        /\ UNCHANGED <<mic, pending_rolling, rollers, jobs>>
    BY <1>3 DEF HoldKeyPressed, HoldKeyReleased, OtherKeyDuringHold, CancelRequested,
       TrayToggleDictation, DaemonListen, gestureFrame, InputMsgKinds
  <2>3. CmdsQuiet
    BY <1>3 DEF HoldKeyPressed, HoldKeyReleased, OtherKeyDuringHold, CancelRequested,
       TrayToggleDictation, DaemonListen, NoCapture, SendEnd, start_recording, CmdsQuiet
  <2>4. QED BY <1>2, <2>1, <2>2, <2>3, KeepsEnd DEF InputMsgKinds, ResultKinds, LoudKinds
<1>4. CASE Started
  <2>1. inbox # <<>> /\ inbox' = Tail(inbox) /\ msg.kind = "Started" /\ mic' = mic
    BY <1>4, HandlerFrame DEF Started
  <2>2. msg = inbox[1] /\ 1 \in DOMAIN inbox
    BY <1>1, <2>1, TailAt DEF msg
  <2>3. mic.on \/ \E k \in DOMAIN inbox : inbox[k].kind \in LoudKinds
    BY <2>1, <2>2 DEF StartedEnds
  <2>4. mic.on \/ HasKind(inbox', LoudKinds)
    BY <1>1, <2>1, <2>3, HasKindTail DEF HasKind, LoudKinds, msg
  <2>5. QED BY <2>1, <2>4 DEF EndOwed, AnotherEndComes, LoudKinds
<1>5. CASE Stopped
  <2>1. CASE rolling_in # 0
    <3>1. /\ pending_rolling' = Pending(msg.take, rolling_epoch, pending_listen)
          /\ rollers' = {IF r.take = rolling_in /\ r.phase = "live"
                         THEN [r EXCEPT !.phase = "finish"] ELSE r : r \in rollers}
      BY <1>5, <2>1 DEF Stopped
    <3>2. PICK r \in rollers : r.take = rolling_in /\ r.phase = "live" /\ r.epoch = rolling_epoch
      BY <2>1 DEF LiveWorker
    <3> DEFINE s == [r EXCEPT !.phase = "finish"]
    <3>3. s.phase = "finish" /\ s.epoch = rolling_epoch
      BY <3>2 DEF TypeOK
    <3>4. s \in rollers'
      BY <3>1, <3>2
    <3> HIDE DEF s
    <3>5. pending_rolling'.waiting /\ pending_rolling'.epoch = rolling_epoch
      BY <3>1 DEF Pending
    <3>6. FinalOnItsWay'
      BY <3>3, <3>4, <3>5 DEF FinalOnItsWay
    <3>7. QED BY <3>6 DEF EndOwed
  <2>2. CASE rolling_in = 0
    <3>1. jobs' # {}
      BY <1>5, <2>2 DEF Stopped, set_dictation_state
    <3>2. QED BY <3>1 DEF EndOwed
  <2>3. QED BY <2>1, <2>2
<1>6. CASE Disconnected
  <2>1. inbox' = Append(Tail(inbox), StoppedMsg(msg.take, FALSE, msg.audio /\ rolling_in = 0))
    BY <1>6 DEF Disconnected, set_dictation_state
  <2>2. StoppedMsg(msg.take, FALSE, msg.audio /\ rolling_in = 0).kind = "Stopped"
    BY DEF StoppedMsg, Blank
  <2>3. HasKind(inbox', LoudKinds)
    BY <1>6, <2>1, <2>2, HandlerInbox, HasKindAppend DEF LoudKinds
  <2>4. QED BY <2>3 DEF EndOwed, AnotherEndComes, LoudKinds
<1>7. CASE Cancelled \/ AudioError
  BY <1>7 DEF Cancelled, AudioError, AbandonRecording, set_dictation_state
<1>8. CASE NotRecording
  <2>1. /\ dictation_state = "Transcribing" /\ inbox # <<>> /\ inbox' = Tail(inbox)
        /\ msg.kind = "NotRecording"
        /\ UNCHANGED <<mic, cmds, pending_rolling, rollers, jobs>>
    BY <1>8 DEF NotRecording, AbandonRecording, set_dictation_state, appVars, replyFrame
  <2>2. QED BY <1>2, <2>1, KeepsEnd DEF CmdsQuiet, ResultKinds, LoudKinds
<1>9. CASE RollingFinal \/ RollingLate \/ RollingWorkerLost
  <2>1. /\ inbox # <<>> /\ inbox' = Tail(inbox) /\ msg.kind \in RollerKinds
        /\ UNCHANGED <<mic, cmds, rollers>>
    BY <1>9 DEF RollingFinal, RollingLate, RollingWorkerLost, RollerKinds, resultFrame,
       replyFrame
  <2>2. CASE jobs' # {}
    BY <2>2 DEF EndOwed
  <2>3. CASE jobs' = {}
    <3>1. CASE RollingFinal
      <4>1. /\ route_rolling_final(pending_rolling, msg.epoch, msg.out = "text") # "Pipeline"
            /\ UNCHANGED <<dictation_state, jobs, pending_rolling>>
        BY <2>3, <3>1 DEF RollingFinal, run_pipeline, finalize_dictation, set_dictation_state
      <4>2. ~(pending_rolling.waiting /\ pending_rolling.epoch = msg.epoch)
        BY <4>1 DEF route_rolling_final
      <4>3. QED
        BY <1>2, <2>1, <4>1, <4>2, KeepsEnd DEF CmdsQuiet, ResultKinds, LoudKinds, RollerKinds
    <3>2. CASE RollingLate
      <4>1. UNCHANGED <<dictation_state, jobs, pending_rolling>> /\ msg.kind = "Late"
        BY <3>2 DEF RollingLate
      <4>2. QED
        BY <1>2, <2>1, <4>1, KeepsEnd DEF CmdsQuiet, ResultKinds, LoudKinds
    <3>3. CASE RollingWorkerLost
      <4>1. /\ ~(pending_rolling.waiting /\ pending_rolling.epoch = msg.epoch)
            /\ UNCHANGED <<dictation_state, jobs, pending_rolling>>
        BY <3>3 DEF RollingWorkerLost, set_dictation_state
      <4>2. QED
        BY <1>2, <2>1, <4>1, KeepsEnd DEF CmdsQuiet, ResultKinds, LoudKinds, RollerKinds
    <3>4. QED BY <1>9, <3>1, <3>2, <3>3
  <2>4. QED BY <2>2, <2>3
<1>10. CASE TranscribeResult \/ CleanupDone
  <2>1. jobs' # {}
    BY <1>10 DEF TranscribeResult, CleanupDone, run_pipeline, finalize_dictation,
       set_dictation_state, resultFrame
  <2>2. QED BY <2>1 DEF EndOwed
<1>11. QED
  BY <1>3, <1>4, <1>5, <1>6, <1>7, <1>8, <1>9, <1>10 DEF CoordinatorNext

LEMMA WorkerKeepsEnd ==
  ASSUME TypeOK, EndOwed, AudioWorkerNext
  PROVE  EndOwed'
<1>1. inbox \in Seq(Message) /\ cmds \in Seq(AudioCommand)
  BY DEF TypeOK
<1>2. CASE OpenMic \/ IgnoreStart
  BY <1>2 DEF OpenMic, IgnoreStart, Mic, EndOwed, AnotherEndComes
<1>3. CASE OpenFails \/ StopRecording \/ CancelRecording \/ AutoStop \/ DeviceLost
  <2>1. /\ Plain("Error").kind \in LoudKinds
        /\ \A t, b, c : /\ StoppedMsg(t, b, c).kind \in LoudKinds
                        /\ DisconnectedMsg(t, b, c).kind \in LoudKinds
                        /\ CancelledMsg(t).kind \in LoudKinds
    BY DEF Plain, StoppedMsg, DisconnectedMsg, CancelledMsg, Blank, LoudKinds
  <2>2. \E m : m.kind \in LoudKinds /\ Reply(m)
    BY <1>3, <2>1 DEF OpenFails, StopRecording, CancelRecording, AutoStop, DeviceLost
  <2>3. HasKind(inbox', LoudKinds)
    BY <1>1, <2>2, HasKindAppend DEF Reply
  <2>4. QED BY <2>3 DEF EndOwed, AnotherEndComes, LoudKinds
<1>4. CASE AckIdle
  <2>1. UNCHANGED <<mic, rollers, jobs, pending_rolling>> /\ (\E m : inbox' = Append(inbox, m))
    BY <1>4, WorkerFrame DEF AckIdle, Reply
  <2>2. HasKind(cmds, {"Start"}) => HasKind(cmds', {"Start"})
    BY <1>1, <1>4, HasKindTail DEF AckIdle, TakeCmd
  <2>3. CASE FinalOnItsWay \/ jobs # {} \/ HasKind(inbox, ResultKinds)
    <3>1. \A i \in DOMAIN inbox : i \in DOMAIN inbox' /\ inbox'[i] = inbox[i]
      BY <1>1, <2>1, AppendAt
    <3>2. QED BY <2>1, <2>3, <3>1 DEF EndOwed, FinalOnItsWay, HasKind
  <2>4. CASE AnotherEndComes
    BY <1>1, <2>1, <2>2, <2>4, HasKindAppend DEF EndOwed, AnotherEndComes
  <2>5. QED BY <2>3, <2>4 DEF EndOwed
<1>5. QED BY <1>2, <1>3, <1>4 DEF AudioWorkerNext

LEMMA RollerKeepsEnd ==
  ASSUME TypeOK, EndOwed, RollerNext \/ RollerFails
  PROVE  EndOwed'
<1>1. inbox \in Seq(Message)
  BY DEF TypeOK
<1>2. UNCHANGED <<mic, cmds, jobs, pending_rolling>>
  BY RollerFrame
<1>3. inbox' = inbox \/ \E m : inbox' = Append(inbox, m)
  BY RollerReplies DEF Sends
<1>4. CASE \A r \in rollers : r.phase = "finish" => r \in rollers'
  BY <1>2, <1>3, <1>4, KeepsEnd DEF CmdsQuiet
<1>5. CASE \E r \in rollers : r.phase = "finish" /\ r \notin rollers'
  <2>1. PICK r \in rollers : RollerFinal(r) \/ RollerPartial(r) \/ RollerLate(r)
               \/ RollerPanicsLate(r) \/ RollerAbandoned(r) \/ RollerDies(r)
    BY DEF RollerNext, RollerFails
  <2>2. /\ r.phase = "finish" /\ \A s \in rollers : s # r => s \in rollers'
        /\ \E m : /\ m.kind \in {"Final", "RollingWorkerLost"} /\ m.epoch = r.epoch
                 /\ Reply(m)
    <3>1. \A t, e, p, o : /\ FinalMsg(t, e, p, o).kind = "Final" /\ FinalMsg(t, e, p, o).epoch = e
                         /\ LostMsg(t, e).kind = "RollingWorkerLost" /\ LostMsg(t, e).epoch = e
      BY DEF FinalMsg, LostMsg, Blank
    <3>2. r.phase = "finish" /\ \A s \in rollers : s # r => s \in rollers'
      BY <1>5, <2>1 DEF RollerFinal, RollerPartial, RollerLate, RollerPanicsLate,
         RollerAbandoned, RollerDies
    <3>3. RollerFinal(r) \/ RollerPartial(r) \/ RollerDies(r)
      BY <2>1, <3>2 DEF RollerLate, RollerPanicsLate, RollerAbandoned
    <3>4. \E m : /\ m.kind \in {"Final", "RollingWorkerLost"} /\ m.epoch = r.epoch
                 /\ Reply(m)
      <4>1. CASE RollerDies(r)
        BY <3>1, <4>1 DEF RollerDies
      <4>2. CASE RollerFinal(r) \/ RollerPartial(r)
        <5>1. \E p, o : Reply(FinalMsg(r.take, r.epoch, p, o))
          BY <4>2 DEF RollerFinal, RollerPartial
        <5>2. QED BY <3>1, <5>1
      <4>3. QED BY <3>3, <4>1, <4>2
    <3>5. QED BY <3>2, <3>4
  <2>3. PICK m : /\ m.kind \in {"Final", "RollingWorkerLost"} /\ m.epoch = r.epoch
                 /\ inbox' = Append(inbox, m)
    BY <2>2 DEF Reply
  <2>4. /\ \A i \in DOMAIN inbox : i \in DOMAIN inbox' /\ inbox'[i] = inbox[i]
        /\ Len(inbox) + 1 \in DOMAIN inbox' /\ inbox'[Len(inbox) + 1] = m
    BY <1>1, <2>3, AppendAt
  <2>5. FinalOnItsWay => FinalOnItsWay'
    <3>1. CASE pending_rolling.epoch = r.epoch
      BY <1>2, <2>3, <2>4, <3>1 DEF FinalOnItsWay
    <3>2. CASE pending_rolling.epoch # r.epoch
      BY <1>2, <2>2, <2>4, <3>2 DEF FinalOnItsWay
    <3>3. QED BY <3>1, <3>2
  <2>6. \A K : HasKind(inbox, K) => HasKind(inbox', K)
    BY <2>4 DEF HasKind
  <2>7. QED BY <1>2, <2>5, <2>6 DEF EndOwed, AnotherEndComes
<1>6. QED BY <1>4, <1>5

LEMMA JobKeepsEnd ==
  ASSUME TypeOK, JobNext \/ JobFails
  PROVE  EndOwed'
<1>1. PICK m : m.kind \in ResultKinds /\ inbox' = Append(inbox, m)
  BY JobReplies DEF Sends
<1>2. inbox \in Seq(Message)
  BY DEF TypeOK
<1>3. HasKind(inbox', ResultKinds)
  BY <1>1, <1>2, HasKindAppend
<1>4. QED BY <1>3 DEF EndOwed

EndInv == LiveWorker /\ StartedEnds /\ TranscribingHasEnd

LEMMA EndInvStep ==
  ASSUME TypeOK, EndInv, "early" \notin Faults, [Next]_vars
  PROVE  EndInv'
<1> USE DEF EndInv
<1>1. LiveWorker' /\ StartedEnds'
  BY LiveWorkerStep, StartedEndsStep
<1>2. dictation_state = "Transcribing" => EndOwed
  BY DEF TranscribingHasEnd, EndOwed, ResultKinds
<1> SUFFICES ASSUME dictation_state' = "Transcribing" PROVE EndOwed'
  BY <1>1 DEF TranscribingHasEnd, EndOwed, ResultKinds
<1>3. CASE CoordinatorNext
  BY <1>3, HandlerKeepsEnd
<1>4. CASE CoordinatorPanic
  BY <1>4 DEF CoordinatorPanic, reset_after_panic, set_dictation_state
<1>5. CASE TimerNext
  <2>1. dictation_state = "Transcribing" /\ CmdsQuiet
    BY <1>5 DEF TimerNext, TimerWakes, TimerSeesState, TimerStarts, NoCapture,
       start_recording, set_dictation_state, CmdsQuiet
  <2>2. QED BY <1>2, <1>5, <2>1, TimerFrame, KeepsEnd
<1>6. CASE FinisherNext
  <2>1. dictation_state = "Transcribing"
    BY <1>6 DEF FinisherNext, FinishIdle, FinishClear
  <2>2. QED BY <1>2, <1>6, <2>1, FinisherFrame, KeepsEnd DEF CmdsQuiet
<1>7. CASE AudioWorkerNext
  BY <1>2, <1>7, WorkerKeepsEnd, WorkerFrame
<1>8. CASE RollerNext \/ RollerFails
  BY <1>2, <1>8, RollerKeepsEnd, RollerFrame
<1>9. CASE JobNext \/ JobFails
  BY <1>9, JobKeepsEnd
<1>10. CASE EnvNext
  <2>1. inbox' = inbox \/ \E m : inbox' = Append(inbox, m)
    BY <1>10, EnvReplies DEF Sends
  <2>2. QED BY <1>2, <1>10, <2>1, EnvFrame, KeepsEnd DEF CmdsQuiet
<1>11. CASE UNCHANGED vars
  BY <1>2, <1>11, StutterFrame, KeepsEnd DEF CmdsQuiet
<1>12. QED
  BY <1>3, <1>4, <1>5, <1>6, <1>7, <1>8, <1>9, <1>10, <1>11 DEF Next

(* While the state says Transcribing, something still comes that ends it:   *)
(* a worker's answer with the epoch the coordinator waits for, a job, a     *)
(* result, or the end of a recording begun since.  So whatever is pressed,  *)
(* however often devices, models and the coordinator itself fail, unless a  *)
(* rolling worker dies while its recording is under way.                    *)
THEOREM TranscriptionEnds ==
  "early" \notin Faults => (Spec => []TranscribingHasEnd)
<1> SUFFICES ASSUME "early" \notin Faults PROVE Spec => []TranscribingHasEnd
  OBVIOUS
<1>1. Init => EndInv
  <2> SUFFICES ASSUME Init PROVE EndInv
    OBVIOUS
  <2>1. inbox = <<>> /\ rolling_in = 0 /\ dictation_state = "Idle"
    BY DEF Init
  <2>2. QED BY <2>1 DEF EndInv, LiveWorker, StartedEnds, TranscribingHasEnd
<1>2. TypeOK /\ EndInv /\ [Next]_vars => EndInv'
  BY EndInvStep
<1>3. EndInv => TranscribingHasEnd
  BY DEF EndInv
<1>4. QED BY <1>1, <1>2, <1>3, TypeCorrect, PTL DEF Spec

-----------------------------------------------------------------------------
(* The audio worker answers in order: an end follows the Started of its own *)
(* recording with no other reply between them, or that Started has been     *)
(* handled and nothing else since.                                          *)
Quiet(q, a, b) == \A j \in DOMAIN q : a < j /\ j < b => q[j].kind \notin ReplyKinds

Ours(rin, t) ==
  /\ rin \in {0, t}
  /\ "panic" \notin Faults /\ "config" \notin Inputs => rin = IF InitRolling THEN t ELSE 0

Heralded(q, rin, t, i) ==
  \/ \E k \in DOMAIN q : k < i /\ q[k].kind = "Started" /\ q[k].take = t /\ Quiet(q, k, i)
  \/ Quiet(q, 0, i) /\ Ours(rin, t)

HeraldedAll(q, rin) ==
  \A i \in DOMAIN q :
    q[i].kind \in {"Stopped", "Cancelled"} => Heralded(q, rin, q[i].take, i)

HeraldedMic(q, rin, mc) == mc.on => Heralded(q, rin, mc.take, Len(q) + 1)

(* The setting is as it was at launch.                                      *)
SettingKept == "config" \notin Inputs => rolling_enabled = InitRolling

NoneLost == ~HasKind(inbox, {"Disconnected"})

Fifo ==
  /\ HeraldedAll(inbox, rolling_in)
  /\ HeraldedMic(inbox, rolling_in, mic)
  /\ SettingKept
  /\ NoneLost

LEMMA HeraldAppend ==
  ASSUME NEW q \in Seq(Message), NEW m, NEW rin, NEW t, NEW i \in 1..(Len(q) + 1),
         Heralded(q, rin, t, i)
  PROVE  /\ Heralded(Append(q, m), rin, t, i)
         /\ i = Len(q) + 1 /\ m.kind \notin ReplyKinds
              => Heralded(Append(q, m), rin, t, i + 1)
<1> DEFINE a == Append(q, m)
<1>1. /\ Len(q) \in Nat /\ DOMAIN q = 1..Len(q) /\ DOMAIN a = 1..(Len(q) + 1)
      /\ \A j \in 1..Len(q) : a[j] = q[j]
      /\ a[Len(q) + 1] = m
  BY AppendAt
<1> HIDE DEF a
<1>2. ASSUME NEW k \in 0..Len(q), Quiet(q, k, i)
      PROVE  /\ Quiet(a, k, i)
             /\ i = Len(q) + 1 /\ m.kind \notin ReplyKinds => Quiet(a, k, i + 1)
  BY <1>1, <1>2 DEF Quiet
<1>3. CASE Quiet(q, 0, i) /\ Ours(rin, t)
  BY <1>1, <1>2, <1>3 DEF Heralded, a
<1>4. CASE \E k \in DOMAIN q : /\ k < i /\ q[k].kind = "Started" /\ q[k].take = t
                               /\ Quiet(q, k, i)
  <2>1. PICK k \in DOMAIN q : /\ k < i /\ q[k].kind = "Started" /\ q[k].take = t
                              /\ Quiet(q, k, i)
    BY <1>4
  <2>2. /\ k \in DOMAIN a /\ k < i /\ k < i + 1 /\ a[k] = q[k]
        /\ Quiet(a, k, i)
        /\ i = Len(q) + 1 /\ m.kind \notin ReplyKinds => Quiet(a, k, i + 1)
    BY <1>1, <1>2, <2>1
  <2>3. QED BY <2>1, <2>2 DEF Heralded, a
<1>5. QED BY <1>3, <1>4 DEF Heralded

LEMMA HeraldTail ==
  ASSUME NEW q \in Seq(Message), q # <<>>, NEW rin, NEW rin1, NEW t,
         NEW i \in 2..(Len(q) + 1), Heralded(q, rin, t, i),
         Head(q).kind = "Started" => Ours(rin1, Head(q).take),
         Head(q).kind \notin ReplyKinds => rin1 = rin \/ Ours(rin1, t)
  PROVE  Heralded(Tail(q), rin1, t, i - 1)
<1> DEFINE a == Tail(q)
<1>1. /\ Len(q) \in Nat \ {0} /\ DOMAIN q = 1..Len(q) /\ DOMAIN a = 1..(Len(q) - 1)
      /\ Head(q) = q[1]
      /\ \A j \in 1..(Len(q) - 1) : a[j] = q[j + 1]
  BY TailAt
<1> HIDE DEF a
<1>2. ASSUME NEW k \in 1..Len(q), Quiet(q, k, i)
      PROVE  Quiet(a, k - 1, i - 1)
  <2> SUFFICES ASSUME NEW j \in DOMAIN a, k - 1 < j, j < i - 1
               PROVE  a[j].kind \notin ReplyKinds
    BY DEF Quiet
  <2>1. j + 1 \in DOMAIN q /\ k < j + 1 /\ j + 1 < i /\ a[j] = q[j + 1]
    BY <1>1
  <2>2. QED BY <1>2, <2>1 DEF Quiet
<1>3. CASE Quiet(q, 0, i) /\ Ours(rin, t)
  <2>1. Head(q).kind \notin ReplyKinds /\ Quiet(q, 1, i)
    BY <1>1, <1>3 DEF Quiet
  <2>2. Quiet(a, 0, i - 1) /\ Ours(rin1, t)
    BY <1>1, <1>2, <1>3, <2>1
  <2>3. QED BY <2>2 DEF Heralded, a
<1>4. CASE \E k \in DOMAIN q : /\ k < i /\ q[k].kind = "Started" /\ q[k].take = t
                               /\ Quiet(q, k, i)
  <2>1. PICK k \in DOMAIN q : /\ k < i /\ q[k].kind = "Started" /\ q[k].take = t
                              /\ Quiet(q, k, i)
    BY <1>4
  <2>2. Quiet(a, k - 1, i - 1)
    BY <1>1, <1>2, <2>1
  <2>3. CASE k = 1
    BY <1>1, <2>1, <2>2, <2>3 DEF Heralded, a
  <2>4. CASE k # 1
    <3>1. k - 1 \in DOMAIN a /\ k - 1 < i - 1 /\ a[k - 1] = q[k]
      BY <1>1, <2>1, <2>4
    <3>2. QED BY <2>1, <2>2, <3>1 DEF Heralded, a
  <2>5. QED BY <2>3, <2>4
<1>5. QED BY <1>3, <1>4 DEF Heralded

(* Through an append and a removal.                                         *)
LEMMA HeraldedAppend ==
  ASSUME NEW q \in Seq(Message), NEW m, NEW rin, NEW mc, HeraldedAll(q, rin),
         HeraldedMic(q, rin, mc),
         m.kind \in {"Stopped", "Cancelled"} => mc.on /\ m.take = mc.take
  PROVE  /\ HeraldedAll(Append(q, m), rin)
         /\ m.kind \notin ReplyKinds => HeraldedMic(Append(q, m), rin, mc)
<1> DEFINE a == Append(q, m)
<1>1. /\ Len(q) \in Nat /\ DOMAIN q = 1..Len(q) /\ DOMAIN a = 1..(Len(q) + 1)
      /\ \A j \in 1..Len(q) : a[j] = q[j]
      /\ a[Len(q) + 1] = m
  BY AppendAt
<1>2. Len(a) = Len(q) + 1
  <2>1. q \in Seq(Message \cup {m}) /\ m \in Message \cup {m}
    OBVIOUS
  <2>2. QED BY <2>1, AppendProperties
<1>3. HeraldedAll(a, rin)
  <2> SUFFICES ASSUME NEW i \in DOMAIN a, a[i].kind \in {"Stopped", "Cancelled"}
               PROVE  Heralded(a, rin, a[i].take, i)
    BY DEF HeraldedAll
  <2>1. CASE i \in 1..Len(q)
    <3>1. i \in 1..(Len(q) + 1) /\ a[i] = q[i] /\ i \in DOMAIN q
      BY <1>1, <2>1
    <3>2. Heralded(q, rin, q[i].take, i)
      BY <3>1 DEF HeraldedAll
    <3>3. QED BY <3>1, <3>2, HeraldAppend
  <2>2. CASE i = Len(q) + 1
    <3>1. a[i] = m /\ i \in 1..(Len(q) + 1)
      BY <1>1, <2>2
    <3>2. Heralded(q, rin, m.take, i)
      BY <2>2, <3>1 DEF HeraldedMic
    <3>3. QED BY <3>1, <3>2, HeraldAppend
  <2>3. i \in 1..Len(q) \/ i = Len(q) + 1
    BY <1>1
  <2>4. QED BY <2>1, <2>2, <2>3
<1>4. ASSUME m.kind \notin ReplyKinds, mc.on PROVE Heralded(a, rin, mc.take, Len(a) + 1)
  <2>1. Len(q) + 1 \in 1..(Len(q) + 1) /\ Heralded(q, rin, mc.take, Len(q) + 1)
    BY <1>1, <1>4 DEF HeraldedMic
  <2>2. Heralded(a, rin, mc.take, (Len(q) + 1) + 1)
    BY <1>4, <2>1, HeraldAppend
  <2>3. QED BY <1>2, <2>2
<1>5. QED BY <1>3, <1>4 DEF HeraldedMic

LEMMA HeraldedTail ==
  ASSUME NEW q \in Seq(Message), q # <<>>, NEW rin, NEW rin1, NEW mc, HeraldedAll(q, rin),
         HeraldedMic(q, rin, mc),
         Head(q).kind = "Started" => Ours(rin1, Head(q).take),
         Head(q).kind \notin ReplyKinds => rin1 = rin \/ \A t : Ours(rin1, t)
  PROVE  HeraldedAll(Tail(q), rin1) /\ HeraldedMic(Tail(q), rin1, mc)
<1> DEFINE a == Tail(q)
<1>1. /\ Len(q) \in Nat \ {0} /\ DOMAIN q = 1..Len(q) /\ DOMAIN a = 1..(Len(q) - 1)
      /\ \A j \in 1..(Len(q) - 1) : a[j] = q[j + 1]
  BY TailAt
<1>2. Len(a) = Len(q) - 1
  BY HeadTailProperties
<1>3. HeraldedAll(a, rin1)
  <2> SUFFICES ASSUME NEW i \in DOMAIN a, a[i].kind \in {"Stopped", "Cancelled"}
               PROVE  Heralded(a, rin1, a[i].take, i)
    BY DEF HeraldedAll
  <2>1. i + 1 \in DOMAIN q /\ i + 1 \in 2..(Len(q) + 1) /\ a[i] = q[i + 1] /\ (i + 1) - 1 = i
    BY <1>1
  <2>2. Heralded(q, rin, q[i + 1].take, i + 1)
    BY <2>1 DEF HeraldedAll
  <2>3. Heralded(a, rin1, a[i].take, (i + 1) - 1)
    BY <2>1, <2>2, HeraldTail
  <2>4. QED BY <2>1, <2>3
<1>4. ASSUME mc.on PROVE Heralded(a, rin1, mc.take, Len(a) + 1)
  <2>1. Len(q) + 1 \in 2..(Len(q) + 1) /\ Heralded(q, rin, mc.take, Len(q) + 1)
    BY <1>1, <1>4 DEF HeraldedMic
  <2>2. Heralded(a, rin1, mc.take, (Len(q) + 1) - 1)
    BY <2>1, HeraldTail
  <2>3. (Len(q) + 1) - 1 = Len(a) + 1
    BY <1>1, <1>2
  <2>4. QED BY <2>2, <2>3
<1>5. QED BY <1>3, <1>4 DEF HeraldedMic

LEMMA HeraldedOpen ==
  ASSUME NEW q \in Seq(Message), NEW m, NEW rin, NEW mc,
         m.kind = "Started", mc.take = m.take
  PROVE  HeraldedMic(Append(q, m), rin, mc)
<1> DEFINE a == Append(q, m)
<1>1. /\ Len(q) \in Nat /\ DOMAIN a = 1..(Len(q) + 1) /\ a[Len(q) + 1] = m
  BY AppendAt
<1>2. Len(a) = Len(q) + 1
  <2>1. q \in Seq(Message \cup {m}) /\ m \in Message \cup {m}
    OBVIOUS
  <2>2. QED BY <2>1, AppendProperties
<1>3. Quiet(a, Len(q) + 1, Len(a) + 1)
  BY <1>1, <1>2 DEF Quiet
<1>4. QED BY <1>1, <1>2, <1>3 DEF HeraldedMic, Heralded

(* What the audio worker does, when no device is lost.                      *)
LEMMA WorkerInOrder ==
  ASSUME TypeOK, AudioWorkerNext, "lost" \notin Faults
  PROVE  \/ inbox' = inbox /\ mic' = mic
         \/ \E m : /\ inbox' = Append(inbox, m)
                  /\ \/ m.kind = "Started" /\ mic'.take = m.take
                     \/ m.kind \in {"NotRecording", "Error"} /\ ~mic'.on
                     \/ /\ m.kind \in {"Stopped", "Cancelled"} /\ ~mic'.on
                        /\ mic.on /\ m.take = mic.take
<1>1. CASE IgnoreStart
  BY <1>1 DEF IgnoreStart
<1>2. CASE OpenMic
  <2>1. \A t, r : /\ StartedMsg(t, r).kind = "Started" /\ StartedMsg(t, r).take = t
                 /\ Mic(t, r).take = t
    BY DEF StartedMsg, Blank, Mic
  <2>2. QED BY <1>2, <2>1 DEF OpenMic, Reply
<1>3. CASE OpenFails \/ AckIdle
  <2>1. Plain("Error").kind = "Error" /\ Plain("NotRecording").kind = "NotRecording"
    BY DEF Plain, Blank
  <2>2. QED BY <1>3, <2>1 DEF OpenFails, AckIdle, Reply
<1>4. CASE StopRecording \/ CancelRecording \/ AutoStop
  <2>1. /\ \A t, b, c : /\ StoppedMsg(t, b, c).kind = "Stopped" /\ StoppedMsg(t, b, c).take = t
                       /\ CancelledMsg(t).kind = "Cancelled" /\ CancelledMsg(t).take = t
    BY DEF StoppedMsg, CancelledMsg, Blank
  <2>2. mic.on /\ mic' = NoMic
    BY <1>4 DEF StopRecording, CancelRecording, AutoStop, CloseMic
  <2>3. PICK m : m.kind \in {"Stopped", "Cancelled"} /\ m.take = mic.take /\ Reply(m)
    <3>1. CASE CancelRecording
      BY <2>1, <3>1 DEF CancelRecording
    <3>2. CASE StopRecording \/ AutoStop
      <4>1. \E b, c : Reply(StoppedMsg(mic.take, b, c))
        BY <3>2 DEF StopRecording, AutoStop
      <4>2. QED BY <2>1, <4>1
    <3>3. QED BY <1>4, <3>1, <3>2
  <2>4. ~mic'.on
    BY <2>2 DEF NoMic
  <2>5. QED BY <2>2, <2>3, <2>4 DEF Reply
<1>5. CASE DeviceLost
  BY <1>5 DEF DeviceLost, Fault
<1>6. QED BY <1>1, <1>2, <1>3, <1>4, <1>5 DEF AudioWorkerNext

LEMMA NoneLostStep ==
  ASSUME TypeOK, NoneLost, "lost" \notin Faults, [Next]_vars
  PROVE  NoneLost'
<1> USE DEF NoneLost
<1>1. CASE CoordinatorNext
  <2>1. StoppedMsg(msg.take, FALSE, msg.audio /\ rolling_in = 0).kind = "Stopped"
    BY DEF StoppedMsg, Blank
  <2>2. QED BY <1>1, <2>1, HandlerInbox, StaysWithout
<1>2. CASE CoordinatorPanic
  BY <1>2, StaysWithout DEF CoordinatorPanic, Handled
<1>3. CASE AudioWorkerNext
  BY <1>3, WorkerInOrder, StaysWithout
<1>4. CASE RollerNext \/ RollerFails
  BY <1>4, RollerReplies, StaysWithout DEF Sends, RollerKinds
<1>5. CASE JobNext \/ JobFails
  BY <1>5, JobReplies, StaysWithout DEF Sends, ResultKinds
<1>6. CASE EnvNext
  BY <1>6, EnvReplies, StaysWithout DEF Sends, InputMsgKinds
<1>7. CASE TimerNext \/ FinisherNext \/ UNCHANGED vars
  BY <1>7, TimerFrame, FinisherFrame, StutterFrame
<1>8. QED
  BY <1>1, <1>2, <1>3, <1>4, <1>5, <1>6, <1>7 DEF Next

LEMMA SettingStep ==
  ASSUME SettingKept, [Next]_vars
  PROVE  SettingKept'
<1>1. CASE EnvNext
  BY <1>1 DEF SettingKept, EnvNext, PressKey, ReleaseKey, OtherKey, PressEscape, FlowCancel,
     TrayToggle, FlowListen, ToggleRollingSetting, Input
<1>2. CASE ~EnvNext
  <2>1. rolling_enabled' = rolling_enabled
    BY <1>2, HandlerFrame, TimerFrame, FinisherFrame, WorkerFrame, RollerFrame, JobFrame,
       StutterFrame DEF Next, CoordinatorPanic
  <2>2. QED BY <2>1 DEF SettingKept
<1>3. QED BY <1>1, <1>2

(* Without a lost device the coordinator only ever takes the head.          *)
LEMMA NoneLostInbox ==
  ASSUME TypeOK, NoneLost, CoordinatorNext
  PROVE  inbox # <<>> /\ inbox' = Tail(inbox) /\ ~Disconnected
<1>1. inbox # <<>> /\ msg.kind # "Disconnected"
  BY HandlerInbox, HeadKind DEF NoneLost
<1>2. ~Disconnected
  BY <1>1 DEF Disconnected, Receive
<1>3. QED BY <1>1, <1>2, HandlerInbox

(* Only a reply of the audio worker changes whose words are streamed.       *)
LEMMA RollingInChanges ==
  ASSUME TypeOK, CoordinatorNext
  PROVE  /\ msg.kind \notin ReplyKinds => rolling_in' = rolling_in
         /\ msg.kind = "Started" =>
              Started /\ rolling_in' = IF rolling_enabled THEN msg.take ELSE 0
<1>1. CASE Started
  BY <1>1 DEF Started, Receive, SpawnRollingWorker, ReplyKinds
<1>2. CASE ~Started
  <2>1. msg.kind # "Started"
    BY <1>2 DEF CoordinatorNext, HoldKeyPressed, HoldKeyReleased, Receive,
     OtherKeyDuringHold, CancelRequested, TrayToggleDictation, DaemonListen, Stopped,
     Disconnected, Cancelled, NotRecording, AudioError, RollingFinal, RollingLate,
     RollingWorkerLost, TranscribeResult, CleanupDone
  <2>2. msg.kind \notin ReplyKinds => rolling_in' = rolling_in
    BY <1>2 DEF CoordinatorNext, HoldKeyPressed, HoldKeyReleased, Receive, ReplyKinds, EndKinds,
     OtherKeyDuringHold, CancelRequested, TrayToggleDictation, DaemonListen, Stopped,
     Disconnected, Cancelled, NotRecording, AudioError, RollingFinal, RollingLate,
     RollingWorkerLost, TranscribeResult, CleanupDone, gestureFrame, resultFrame
  <2>3. QED BY <2>1, <2>2
<1>3. QED BY <1>1, <1>2

LEMMA FifoStep ==
  ASSUME TypeOK, Fifo, "lost" \notin Faults, [Next]_vars
  PROVE  Fifo'
<1> DEFINE H(q, rin, mc) == HeraldedAll(q, rin) /\ HeraldedMic(q, rin, mc)
<1>1. inbox \in Seq(Message) /\ H(inbox, rolling_in, mic)
  BY DEF TypeOK, Fifo
<1>2. NoneLost' /\ SettingKept'
  BY NoneLostStep, SettingStep DEF Fifo
<1> SUFFICES H(inbox', rolling_in', mic')
  BY <1>2 DEF Fifo
<1>3. CASE CoordinatorNext
  <2>1. inbox # <<>> /\ inbox' = Tail(inbox) /\ mic' = mic
    BY <1>3, NoneLostInbox, HandlerFrame DEF Fifo
  <2>2. msg.kind = "Started" => Ours(rolling_in', msg.take)
    BY <1>3, RollingInChanges DEF Ours, Fifo, SettingKept
  <2>3. msg.kind \notin ReplyKinds => rolling_in' = rolling_in
    BY <1>3, RollingInChanges
  <2>4. QED BY <1>1, <2>1, <2>2, <2>3, HeraldedTail DEF msg
<1>4. CASE CoordinatorPanic
  <2>1. inbox # <<>> /\ inbox' = Tail(inbox) /\ mic' = mic /\ rolling_in' = 0 /\ "panic" \in Faults
    BY <1>4 DEF CoordinatorPanic, Handled, Fault
  <2>2. \A t : Ours(rolling_in', t)
    BY <2>1 DEF Ours
  <2>3. QED BY <1>1, <2>1, <2>2, HeraldedTail
<1>5. CASE AudioWorkerNext
  <2>1. rolling_in' = rolling_in
    BY <1>5, WorkerFrame
  <2>2. CASE inbox' = inbox /\ mic' = mic
    BY <1>1, <2>1, <2>2
  <2>3. ASSUME NEW m, inbox' = Append(inbox, m),
               \/ m.kind = "Started" /\ mic'.take = m.take
               \/ m.kind \in {"NotRecording", "Error"} /\ ~mic'.on
               \/ /\ m.kind \in {"Stopped", "Cancelled"} /\ ~mic'.on
                  /\ mic.on /\ m.take = mic.take
        PROVE  H(inbox', rolling_in', mic')
    <3>1. HeraldedAll(inbox', rolling_in')
      BY <1>1, <2>1, <2>3, HeraldedAppend
    <3>2. CASE m.kind = "Started" /\ mic'.take = m.take
      BY <1>1, <2>3, <3>1, <3>2, HeraldedOpen
    <3>3. CASE ~mic'.on
      BY <3>1, <3>3 DEF HeraldedMic
    <3>4. QED BY <2>3, <3>2, <3>3
  <2>4. QED BY <1>5, <2>2, <2>3, WorkerInOrder
<1>6. ASSUME NEW K, K \cap ReplyKinds = {}, inbox' = inbox \/ Sends(K),
             UNCHANGED <<mic, rolling_in>>
      PROVE  H(inbox', rolling_in', mic')
  <2>1. CASE inbox' = inbox
    BY <1>1, <1>6, <2>1
  <2>2. CASE Sends(K)
    <3>1. PICK m : m.kind \in K /\ inbox' = Append(inbox, m)
      BY <2>2 DEF Sends
    <3>2. m.kind \notin ReplyKinds
      BY <1>6, <3>1
    <3>3. QED BY <1>1, <1>6, <3>1, <3>2, HeraldedAppend DEF ReplyKinds, EndKinds
  <2>3. QED BY <1>6, <2>1, <2>2
<1> HIDE DEF H
<1>7. CASE RollerNext \/ RollerFails
  BY <1>6, <1>7, RollerReplies, RollerFrame DEF RollerKinds, ReplyKinds, EndKinds
<1>8. CASE JobNext \/ JobFails
  BY <1>6, <1>8, JobReplies, JobFrame DEF ResultKinds, ReplyKinds, EndKinds
<1>9. CASE EnvNext
  BY <1>6, <1>9, EnvReplies, EnvFrame DEF InputMsgKinds, ReplyKinds, EndKinds
<1>10. CASE TimerNext \/ FinisherNext \/ UNCHANGED vars
  BY <1>1, <1>10, TimerFrame, FinisherFrame, StutterFrame
<1>11. QED
  BY <1>3, <1>4, <1>5, <1>7, <1>8, <1>9, <1>10 DEF Next

LEMMA FifoInit == Init => Fifo
<1> SUFFICES ASSUME Init PROVE Fifo
  OBVIOUS
<1>1. inbox = <<>> /\ ~mic.on /\ rolling_enabled = InitRolling
  BY DEF Init, NoMic
<1>2. DOMAIN inbox = {}
  BY <1>1
<1>3. QED
  BY <1>1, <1>2 DEF Fifo, HeraldedAll, HeraldedMic, SettingKept, NoneLost, HasKind

-----------------------------------------------------------------------------
(* What carries a take and an epoch: a rolling worker, or its Final.        *)
Bearers == rollers \cup {inbox[i] : i \in {k \in DOMAIN inbox : inbox[k].kind = "Final"}}

OwnEpochs ==
  /\ \A x \in Bearers :
       /\ x.epoch <= rolling_epoch
       /\ rolling_in # 0 /\ x.epoch = rolling_epoch => x.take = rolling_in
       /\ pending_rolling.waiting /\ x.epoch = pending_rolling.epoch
            => x.take = pending_rolling.take
  /\ pending_rolling.waiting => pending_rolling.epoch <= rolling_epoch

(* Every tag there is was there before.                                     *)
NoNewTags == \A y \in Bearers' : \E x \in Bearers : x.take = y.take /\ x.epoch = y.epoch

LEMMA BearerEpoch ==
  ASSUME TypeOK, NEW x \in Bearers
  PROVE  x.epoch \in Nat
<1>1. CASE x \in rollers
  BY <1>1 DEF TypeOK
<1>2. CASE x \notin rollers
  <2>1. PICK i \in DOMAIN inbox : x = inbox[i]
    BY <1>2 DEF Bearers
  <2>2. x \in Message
    BY <2>1, ElementOfSeq, LenProperties DEF TypeOK
  <2>3. QED BY <2>2, MessageFields
<1>3. QED BY <1>1, <1>2

(* Messages that leave, and messages that are no Final, bring no tag.       *)
LEMMA OldTags ==
  ASSUME TypeOK, rollers' \subseteq rollers,
         \/ inbox' = inbox
         \/ inbox # <<>> /\ inbox' = Tail(inbox)
         \/ \E m : /\ inbox' = Append(inbox, m)
                   /\ m.kind = "Final" =>
                        \E r \in rollers : r.take = m.take /\ r.epoch = m.epoch
  PROVE  NoNewTags
<1>1. inbox \in Seq(Message)
  BY DEF TypeOK
<1> SUFFICES ASSUME NEW y \in Bearers'
             PROVE  \E x \in Bearers : x.take = y.take /\ x.epoch = y.epoch
  BY DEF NoNewTags
<1>2. CASE y \in rollers'
  BY <1>2 DEF Bearers
<1>3. CASE y \notin rollers'
  <2>1. PICK i \in DOMAIN inbox' : y = inbox'[i] /\ y.kind = "Final"
    BY <1>3 DEF Bearers
  <2>2. CASE inbox' = inbox
    BY <2>1, <2>2 DEF Bearers
  <2>3. CASE inbox # <<>> /\ inbox' = Tail(inbox)
    <3>1. i + 1 \in DOMAIN inbox /\ inbox[i + 1] = y
      BY <1>1, <2>1, <2>3, TailAt
    <3>2. QED BY <2>1, <3>1 DEF Bearers
  <2>4. CASE \E m : /\ inbox' = Append(inbox, m)
                    /\ m.kind = "Final" =>
                         \E r \in rollers : r.take = m.take /\ r.epoch = m.epoch
    <3>1. PICK m : /\ inbox' = Append(inbox, m)
                   /\ m.kind = "Final" =>
                        \E r \in rollers : r.take = m.take /\ r.epoch = m.epoch
      BY <2>4
    <3>2. (i \in DOMAIN inbox /\ inbox[i] = y) \/ y = m
      BY <1>1, <2>1, <3>1, AppendAt
    <3>3. QED BY <2>1, <3>1, <3>2 DEF Bearers
  <2>5. QED BY <2>2, <2>3, <2>4
<1>4. QED BY <1>2, <1>3

LEMMA OwnEpochsKeep ==
  ASSUME TypeOK, OwnEpochs, NoNewTags, rolling_epoch' \in Nat,
         \/ UNCHANGED <<rolling_in, rolling_epoch, pending_rolling>>
         \/ UNCHANGED <<rolling_in, rolling_epoch>> /\ pending_rolling' = NoPending
         \/ /\ rolling_in' = 0 /\ rolling_epoch' >= rolling_epoch
            /\ pending_rolling' = NoPending
         \/ /\ rolling_in' = 0 /\ rolling_epoch' = rolling_epoch
            /\ rolling_in # 0
            /\ pending_rolling'.epoch = rolling_epoch
            /\ pending_rolling'.take = rolling_in
  PROVE  OwnEpochs'
<1>1. rolling_epoch \in Nat /\ rolling_epoch' >= rolling_epoch /\ ~NoPending.waiting
  BY DEF TypeOK, NoPending
<1>2. pending_rolling'.waiting => pending_rolling'.epoch <= rolling_epoch'
  BY <1>1 DEF OwnEpochs
<1>3. ASSUME NEW y \in Bearers'
      PROVE  /\ y.epoch <= rolling_epoch'
             /\ rolling_in' # 0 /\ y.epoch = rolling_epoch' => y.take = rolling_in'
             /\ pending_rolling'.waiting /\ y.epoch = pending_rolling'.epoch
                  => y.take = pending_rolling'.take
  <2>1. PICK x \in Bearers : x.take = y.take /\ x.epoch = y.epoch
    BY DEF NoNewTags
  <2>2. x.epoch \in Nat
    BY BearerEpoch
  <2>3. QED BY <1>1, <2>1, <2>2 DEF OwnEpochs
<1>4. QED BY <1>2, <1>3 DEF OwnEpochs

LEMMA StartedEpochs ==
  ASSUME TypeOK, OwnEpochs, Started
  PROVE  OwnEpochs'
<1> DEFINE n == [take |-> msg.take, epoch |-> NextEpoch, audio |-> msg.audio, phase |-> "live"]
<1>1. inbox # <<>> /\ inbox' = Tail(inbox) /\ inbox \in Seq(Message)
  BY DEF Started, Receive, Handled, TypeOK
<1>2. rolling_epoch' = rolling_epoch + 1 /\ rolling_epoch \in Nat /\ ~pending_rolling'.waiting
  BY DEF Started, NextEpoch, NoPending, TypeOK
<1>3. /\ rolling_in' # 0 => rolling_in' = msg.take
      /\ rollers' \subseteq rollers \cup {n}
  BY DEF Started, SpawnRollingWorker
<1>4. n.epoch = rolling_epoch' /\ n.take = msg.take
  BY <1>2 DEF NextEpoch
<1> HIDE DEF n
<1>5. ASSUME NEW y \in Bearers'
      PROVE  y = n \/ \E x \in Bearers : x = y
  <2>1. CASE y \in rollers'
    BY <1>3, <2>1 DEF Bearers
  <2>2. CASE y \notin rollers'
    <3>1. PICK i \in DOMAIN inbox' : y = inbox'[i] /\ y.kind = "Final"
      BY <2>2 DEF Bearers
    <3>2. i + 1 \in DOMAIN inbox /\ inbox[i + 1] = y
      BY <1>1, <3>1, TailAt
    <3>3. QED BY <3>1, <3>2 DEF Bearers
  <2>3. QED BY <2>1, <2>2
<1>6. ASSUME NEW y \in Bearers'
      PROVE  y.epoch <= rolling_epoch' /\ (rolling_in' # 0 /\ y.epoch = rolling_epoch' => y.take = rolling_in')
  <2>1. CASE y = n
    BY <1>2, <1>3, <1>4, <2>1
  <2>2. CASE y \in Bearers
    <3>1. y.epoch \in Nat /\ y.epoch <= rolling_epoch
      BY <2>2, BearerEpoch DEF OwnEpochs
    <3>2. QED BY <1>2, <3>1
  <2>3. QED BY <1>5, <2>1, <2>2
<1>7. QED BY <1>2, <1>6 DEF OwnEpochs

LEMMA RollerTags ==
  ASSUME TypeOK, RollerNext \/ RollerFails
  PROVE  NoNewTags
<1>1. PICK r \in rollers : RollerFinal(r) \/ RollerPartial(r) \/ RollerLate(r)
               \/ RollerPanicsLate(r) \/ RollerAbandoned(r) \/ RollerDies(r)
  BY DEF RollerNext, RollerFails
<1>2. \/ inbox' = inbox
      \/ \E m : /\ inbox' = Append(inbox, m)
                /\ m.kind = "Final" => r.take = m.take /\ r.epoch = m.epoch
  <2>1. \A t, e, p, o : /\ FinalMsg(t, e, p, o).take = t /\ FinalMsg(t, e, p, o).epoch = e
                        /\ LateMsg(t, e, o).kind = "Late"
                        /\ LostMsg(t, e).kind = "RollingWorkerLost"
    BY DEF FinalMsg, LateMsg, LostMsg, Blank
  <2>2. CASE RollerFinal(r) \/ RollerPartial(r) \/ RollerPanicsLate(r)
    <3>1. \E p, o : Reply(FinalMsg(r.take, r.epoch, p, o))
      BY <2>2 DEF RollerFinal, RollerPartial, RollerPanicsLate
    <3>2. QED BY <2>1, <3>1 DEF Reply
  <2>3. CASE RollerLate(r) \/ RollerAbandoned(r) \/ RollerDies(r)
    BY <2>1, <2>3 DEF RollerLate, RollerAbandoned, RollerDies, Reply
  <2>4. QED BY <1>1, <2>2, <2>3
<1>3. CASE rollers' \subseteq rollers
  BY <1>2, <1>3, OldTags
<1>4. CASE ~(rollers' \subseteq rollers)
  <2>1. RollerPartial(r) /\ rollers' = (rollers \ {r}) \cup {[r EXCEPT !.phase = "late"]}
    BY <1>1, <1>4 DEF RollerFinal, RollerPartial, RollerLate, RollerPanicsLate,
       RollerAbandoned, RollerDies
  <2> DEFINE s == [r EXCEPT !.phase = "late"]
  <2>2. s.take = r.take /\ s.epoch = r.epoch /\ rollers' = (rollers \ {r}) \cup {s}
    BY <2>1 DEF TypeOK
  <2> HIDE DEF s
  <2> SUFFICES ASSUME NEW y \in Bearers'
               PROVE  \E x \in Bearers : x.take = y.take /\ x.epoch = y.epoch
    BY DEF NoNewTags
  <2>3. CASE y \in rollers'
    BY <2>2, <2>3 DEF Bearers
  <2>4. CASE y \notin rollers'
    <3>1. PICK i \in DOMAIN inbox' : y = inbox'[i] /\ y.kind = "Final"
      BY <2>4 DEF Bearers
    <3>2. inbox \in Seq(Message)
      BY DEF TypeOK
    <3>3. (i \in DOMAIN inbox /\ inbox[i] = y) \/ (r.take = y.take /\ r.epoch = y.epoch)
      BY <1>2, <3>1, <3>2, AppendAt
    <3>4. QED BY <3>1, <3>3 DEF Bearers
  <2>5. QED BY <2>3, <2>4
<1>5. QED BY <1>3, <1>4

(* A Stopped that finds a rolling worker is the Stopped of its take.        *)
LEMMA StoppedIsItsOwn ==
  ASSUME TypeOK, Fifo, Stopped
  PROVE  Ours(rolling_in, msg.take)
<1>1. inbox \in Seq(Message) /\ inbox # <<>> /\ msg.kind = "Stopped"
  BY DEF Stopped, Receive, TypeOK
<1>2. 1 \in DOMAIN inbox /\ msg = inbox[1] /\ DOMAIN inbox \subseteq Nat \ {0}
  BY <1>1, TailAt DEF msg
<1>3. Heralded(inbox, rolling_in, msg.take, 1)
  BY <1>1, <1>2 DEF Fifo, HeraldedAll
<1>4. QED BY <1>2, <1>3 DEF Heralded

LEMMA HandlerEpochs ==
  ASSUME TypeOK, Fifo, OwnEpochs, CoordinatorNext
  PROVE  OwnEpochs'
<1>1. inbox # <<>> /\ inbox' = Tail(inbox) /\ ~Disconnected
  BY NoneLostInbox DEF Fifo
<1>2. rolling_epoch \in Nat
  BY DEF TypeOK
<1>3. CASE Started
  BY <1>3, StartedEpochs
<1>4. CASE Stopped
  <2>1. CASE rolling_in # 0
    <3>1. rolling_in = msg.take
      BY <1>4, <2>1, StoppedIsItsOwn DEF Ours
    <3>2. /\ pending_rolling' = Pending(msg.take, rolling_epoch, pending_listen)
          /\ rolling_in' = 0 /\ rolling_epoch' = rolling_epoch
          /\ rollers' = {IF r.take = rolling_in /\ r.phase = "live"
                         THEN [r EXCEPT !.phase = "finish"] ELSE r : r \in rollers}
      BY <1>4, <2>1 DEF Stopped
    <3>3. NoNewTags
      <4> SUFFICES ASSUME NEW y \in Bearers'
                   PROVE  \E x \in Bearers : x.take = y.take /\ x.epoch = y.epoch
        BY DEF NoNewTags
      <4>1. CASE y \in rollers'
        <5>1. PICK r \in rollers : y = IF r.take = rolling_in /\ r.phase = "live"
                                       THEN [r EXCEPT !.phase = "finish"] ELSE r
          BY <3>2, <4>1
        <5>2. y.take = r.take /\ y.epoch = r.epoch
          BY <5>1 DEF TypeOK
        <5>3. QED BY <5>2 DEF Bearers
      <4>2. CASE y \notin rollers'
        <5>1. PICK i \in DOMAIN inbox' : y = inbox'[i] /\ y.kind = "Final"
          BY <4>2 DEF Bearers
        <5>2. i + 1 \in DOMAIN inbox /\ inbox[i + 1] = y
          BY <1>1, <5>1, TailAt DEF TypeOK
        <5>3. QED BY <5>1, <5>2 DEF Bearers
      <4>3. QED BY <4>1, <4>2
    <3>4. pending_rolling'.epoch = rolling_epoch /\ pending_rolling'.take = rolling_in
      BY <3>1, <3>2 DEF Pending
    <3>5. QED BY <1>2, <2>1, <3>2, <3>3, <3>4, OwnEpochsKeep
  <2>2. CASE rolling_in = 0
    <3>1. UNCHANGED <<rolling_in, rolling_epoch, pending_rolling, rollers>>
      BY <1>4, <2>2 DEF Stopped
    <3>2. QED BY <1>1, <1>2, <3>1, OldTags, OwnEpochsKeep
  <2>3. QED BY <2>1, <2>2
<1>5. CASE ~Started /\ ~Stopped
  <2>1. rollers' = rollers
    BY <1>1, <1>5 DEF CoordinatorNext, HoldKeyPressed, HoldKeyReleased,
     OtherKeyDuringHold, CancelRequested, TrayToggleDictation, DaemonListen,
     Cancelled, NotRecording, AudioError, RollingFinal, RollingLate,
     RollingWorkerLost, TranscribeResult, CleanupDone, gestureFrame, resultFrame
  <2>2. NoNewTags
    BY <1>1, <2>1, OldTags
  <2>3. \/ UNCHANGED <<rolling_in, rolling_epoch>>
           /\ pending_rolling' \in {pending_rolling, NoPending}
        \/ /\ rolling_in' = 0 /\ rolling_epoch' = rolling_epoch + 1
           /\ pending_rolling' = NoPending
    BY <1>1, <1>5 DEF CoordinatorNext, HoldKeyPressed, HoldKeyReleased,
     OtherKeyDuringHold, CancelRequested, TrayToggleDictation, DaemonListen,
     Cancelled, NotRecording, AudioError, AbandonRecording, NextEpoch, RollingFinal,
     RollingLate, RollingWorkerLost, TranscribeResult, CleanupDone, gestureFrame, resultFrame
  <2>4. QED BY <1>2, <2>2, <2>3, OwnEpochsKeep
<1>6. QED BY <1>3, <1>4, <1>5

LEMMA OwnEpochsStep ==
  ASSUME TypeOK, Fifo, OwnEpochs, "panic" \notin Faults, [Next]_vars
  PROVE  OwnEpochs'
<1>1. rolling_epoch \in Nat
  BY DEF TypeOK
<1>2. CASE CoordinatorNext
  BY <1>2, HandlerEpochs
<1>3. CASE CoordinatorPanic
  BY <1>3 DEF CoordinatorPanic, Fault
<1>4. CASE AudioWorkerNext
  <2>1. inbox' = inbox \/ \E m : inbox' = Append(inbox, m) /\ m.kind # "Final"
    BY <1>4, WorkerReplies DEF Sends, ReplyKinds, EndKinds
  <2>2. QED BY <1>1, <1>4, <2>1, WorkerFrame, OldTags, OwnEpochsKeep
<1>5. CASE RollerNext \/ RollerFails
  BY <1>1, <1>5, RollerTags, RollerFrame, OwnEpochsKeep
<1>6. CASE JobNext \/ JobFails
  <2>1. \E m : inbox' = Append(inbox, m) /\ m.kind # "Final"
    BY <1>6, JobReplies DEF Sends, ResultKinds
  <2>2. QED BY <1>1, <1>6, <2>1, JobFrame, OldTags, OwnEpochsKeep
<1>7. CASE EnvNext
  <2>1. inbox' = inbox \/ \E m : inbox' = Append(inbox, m) /\ m.kind # "Final"
    BY <1>7, EnvReplies DEF Sends, InputMsgKinds
  <2>2. QED BY <1>1, <1>7, <2>1, EnvFrame, OldTags, OwnEpochsKeep
<1>8. CASE TimerNext \/ FinisherNext \/ UNCHANGED vars
  BY <1>1, <1>8, TimerFrame, FinisherFrame, StutterFrame, OldTags, OwnEpochsKeep
<1>9. QED
  BY <1>2, <1>3, <1>4, <1>5, <1>6, <1>7, <1>8 DEF Next

(* The Final that the waiting dictation accepts is made from its own audio, *)
(* as long as neither the device is lost nor the coordinator panics: the    *)
(* Stopped that makes it wait is the one of the take whose worker is live,  *)
(* and no epoch is given twice.                                             *)
THEOREM FinalIsItsOwn ==
  "lost" \notin Faults /\ "panic" \notin Faults => (Spec => []PendingFinalIsItsOwn)
<1> SUFFICES ASSUME "lost" \notin Faults, "panic" \notin Faults
             PROVE  Spec => []PendingFinalIsItsOwn
  OBVIOUS
<1>1. Init => Fifo /\ OwnEpochs
  <2> SUFFICES ASSUME Init PROVE OwnEpochs
    BY FifoInit
  <2>1. inbox = <<>> /\ rollers = {} /\ ~pending_rolling.waiting
    BY DEF Init, NoPending
  <2>2. DOMAIN inbox = {}
    BY <2>1
  <2>3. QED BY <2>1, <2>2 DEF OwnEpochs, Bearers
<1>2. TypeOK /\ Fifo /\ OwnEpochs /\ [Next]_vars => Fifo' /\ OwnEpochs'
  BY FifoStep, OwnEpochsStep
<1>3. OwnEpochs => PendingFinalIsItsOwn
  BY DEF OwnEpochs, Bearers, PendingFinalIsItsOwn
<1>4. QED BY <1>1, <1>2, <1>3, TypeCorrect, PTL DEF Spec

-----------------------------------------------------------------------------
(* While the setting is not touched, what is streamed is what is heard.     *)
StreamsAgree ==
  /\ \A i \in DOMAIN cmds : cmds[i].kind = "Start" => cmds[i].rolling = InitRolling
  /\ mic.on => mic.rolling = InitRolling /\ mic.take # 0
  /\ \A i \in DOMAIN inbox :
       /\ inbox[i].kind = "Started" => inbox[i].audio = InitRolling
       /\ inbox[i].kind = "Stopped" => inbox[i].audio # InitRolling /\ inbox[i].take # 0
  /\ \A r \in rollers : r.audio = InitRolling

InboxAgrees(q) ==
  \A i \in DOMAIN q :
    /\ q[i].kind = "Started" => q[i].audio = InitRolling
    /\ q[i].kind = "Stopped" => q[i].audio # InitRolling /\ q[i].take # 0

CmdsAgree(c) == \A i \in DOMAIN c : c[i].kind = "Start" => c[i].rolling = InitRolling

LEMMA InboxAgreesStep ==
  ASSUME NEW q \in Seq(Message), InboxAgrees(q)
  PROVE  /\ q # <<>> => InboxAgrees(Tail(q))
         /\ \A m : /\ m.kind = "Started" => m.audio = InitRolling
                   /\ m.kind = "Stopped" => m.audio # InitRolling /\ m.take # 0
              => InboxAgrees(Append(q, m))
<1>1. ASSUME q # <<>> PROVE InboxAgrees(Tail(q))
  <2> DEFINE a == Tail(q)
  <2>1. /\ \A i \in DOMAIN a : i + 1 \in DOMAIN q /\ a[i] = q[i + 1]
    BY <1>1, TailAt
  <2> HIDE DEF a
  <2>2. InboxAgrees(a)
    BY <2>1 DEF InboxAgrees
  <2>3. QED BY <2>2 DEF a
<1>2. ASSUME NEW m, m.kind = "Started" => m.audio = InitRolling,
             m.kind = "Stopped" => m.audio # InitRolling /\ m.take # 0
      PROVE  InboxAgrees(Append(q, m))
  <2> DEFINE a == Append(q, m)
  <2>1. \A i \in DOMAIN a : (i \in DOMAIN q /\ a[i] = q[i]) \/ a[i] = m
    BY AppendAt
  <2> HIDE DEF a
  <2>2. InboxAgrees(a)
    BY <1>2, <2>1 DEF InboxAgrees
  <2>3. QED BY <2>2 DEF a
<1>3. QED BY <1>1, <1>2

LEMMA CmdsAgreeStep ==
  ASSUME NEW c \in Seq(AudioCommand), CmdsAgree(c)
  PROVE  /\ c # <<>> => CmdsAgree(Tail(c)) /\ (Head(c).kind = "Start" => Head(c).rolling = InitRolling)
         /\ \A m : (m.kind = "Start" => m.rolling = InitRolling) => CmdsAgree(Append(c, m))
<1>1. ASSUME c # <<>>
      PROVE  CmdsAgree(Tail(c)) /\ (Head(c).kind = "Start" => Head(c).rolling = InitRolling)
  <2> DEFINE a == Tail(c)
  <2>1. /\ \A i \in DOMAIN a : i + 1 \in DOMAIN c /\ a[i] = c[i + 1]
        /\ 1 \in DOMAIN c /\ Head(c) = c[1]
    BY <1>1, TailAt
  <2> HIDE DEF a
  <2>2. CmdsAgree(a)
    BY <2>1 DEF CmdsAgree
  <2>3. QED BY <2>1, <2>2 DEF a, CmdsAgree
<1>2. ASSUME NEW m, m.kind = "Start" => m.rolling = InitRolling
      PROVE  CmdsAgree(Append(c, m))
  <2> DEFINE a == Append(c, m)
  <2>1. \A i \in DOMAIN a : (i \in DOMAIN c /\ a[i] = c[i]) \/ a[i] = m
    BY AppendAt
  <2> HIDE DEF a
  <2>2. CmdsAgree(a)
    BY <1>2, <2>1 DEF CmdsAgree
  <2>3. QED BY <2>2 DEF a
<1>3. QED BY <1>1, <1>2

(* A command of the coordinator or of a timer.                              *)
LEMMA CommandsSent ==
  ASSUME CoordinatorNext \/ TimerNext
  PROVE  \/ cmds' = cmds
         \/ \E m : m.kind \in {"Stop", "Cancel"} /\ cmds' = Append(cmds, m)
         \/ \E m : m.kind = "Start" /\ m.rolling = rolling_enabled /\ cmds' = Append(cmds, m)
<1>1. /\ StopCmd.kind = "Stop" /\ CancelCmd.kind = "Cancel"
      /\ \A r, l : StartCmd(r, l).kind = "Start" /\ StartCmd(r, l).rolling = r
  BY DEF StopCmd, CancelCmd, StartCmd
<1>2. \/ UNCHANGED cmds \/ cmds' = Append(cmds, StopCmd) \/ cmds' = Append(cmds, CancelCmd)
      \/ \E l : cmds' = Append(cmds, StartCmd(rolling_enabled, l))
  <2>1. CASE CoordinatorNext
    BY <2>1 DEF CoordinatorNext, HoldKeyPressed, HoldKeyReleased, OtherKeyDuringHold,
     CancelRequested, TrayToggleDictation, DaemonListen, Started, Stopped, Disconnected,
     Cancelled, NotRecording, AudioError, RollingFinal, RollingLate, RollingWorkerLost,
     TranscribeResult, CleanupDone, replyFrame, resultFrame, start_recording, SendEnd, NoCapture
  <2>2. CASE TimerNext
    BY <2>2 DEF TimerNext, TimerWakes, TimerSeesState, TimerStarts, start_recording, NoCapture
  <2>3. QED BY <2>1, <2>2
<1>3. QED BY <1>1, <1>2

LEMMA AgreeParts ==
  StreamsAgree <=> /\ CmdsAgree(cmds) /\ InboxAgrees(inbox)
                   /\ mic.on => mic.rolling = InitRolling /\ mic.take # 0
                   /\ \A r \in rollers : r.audio = InitRolling
BY DEF StreamsAgree, CmdsAgree, InboxAgrees

LEMMA WorkerAgrees ==
  ASSUME TypeOK, StreamsAgree, "lost" \notin Faults, AudioWorkerNext
  PROVE  StreamsAgree'
<1>1. inbox \in Seq(Message) /\ cmds \in Seq(AudioCommand) /\ InitRolling \in BOOLEAN
  BY DictationAssumption DEF TypeOK
<1>2. CmdsAgree(cmds) /\ InboxAgrees(inbox) /\ \A r \in rollers' : r.audio = InitRolling
  BY WorkerFrame, AgreeParts
<1>3. CmdsAgree(cmds')
  <2>1. cmds' = cmds \/ (cmds # <<>> /\ cmds' = Tail(cmds))
    <3>1. cmds' = cmds \/ \E k : TakeCmd(k)
      BY DEF AudioWorkerNext, OpenMic, OpenFails, AckIdle, IgnoreStart, StopRecording,
         CancelRecording, AutoStop, DeviceLost
    <3>2. QED BY <3>1 DEF TakeCmd
  <2>2. QED BY <1>1, <1>2, <2>1, CmdsAgreeStep
<1>4. CASE OpenMic
  <2> DEFINE t == Len(takes) + 1
             r == Head(cmds).rolling
  <2>1. r = InitRolling /\ t # 0
    BY <1>1, <1>2, <1>4, CmdsAgreeStep, LenProperties DEF OpenMic, TakeCmd, TypeOK
  <2>2. StartedMsg(t, r).kind = "Started" /\ StartedMsg(t, r).audio = r
    BY DEF StartedMsg, Blank
  <2>3. Mic(t, r).rolling = r /\ Mic(t, r).take = t
    BY DEF Mic
  <2>4. inbox' = Append(inbox, StartedMsg(t, r)) /\ mic' = Mic(t, r)
    BY <1>4 DEF OpenMic, Reply
  <2> HIDE DEF t, r
  <2>5. InboxAgrees(inbox')
    BY <1>1, <1>2, <2>1, <2>2, <2>4, InboxAgreesStep
  <2>6. QED BY <1>2, <1>3, <2>1, <2>3, <2>4, <2>5 DEF StreamsAgree, CmdsAgree, InboxAgrees
<1>5. CASE IgnoreStart
  BY <1>2, <1>3, <1>5, AgreeParts DEF IgnoreStart, StreamsAgree, CmdsAgree
<1>6. CASE OpenFails \/ AckIdle
  <2>1. Plain("Error").kind = "Error" /\ Plain("NotRecording").kind = "NotRecording"
    BY DEF Plain, Blank
  <2>2. InboxAgrees(inbox') /\ mic' = mic
    BY <1>1, <1>2, <1>6, <2>1, InboxAgreesStep DEF OpenFails, AckIdle, Reply
  <2>3. QED BY <1>2, <1>3, <2>2 DEF StreamsAgree, CmdsAgree, InboxAgrees
<1>7. CASE StopRecording \/ CancelRecording \/ AutoStop
  <2>1. ~mic'.on
    <3>1. mic' = NoMic
      BY <1>7 DEF StopRecording, CancelRecording, AutoStop, CloseMic
    <3>2. QED BY <3>1 DEF NoMic
  <2>2. InboxAgrees(inbox')
    <3>1. CASE CancelRecording
      <4>1. CancelledMsg(mic.take).kind = "Cancelled"
        BY DEF CancelledMsg, Blank
      <4>2. QED BY <1>1, <1>2, <3>1, <4>1, InboxAgreesStep DEF CancelRecording, Reply
    <3>2. CASE StopRecording \/ AutoStop
      <4> DEFINE s == ~mic.rolling
      <4>1. s # InitRolling /\ mic.take # 0
        BY <1>1, <3>2 DEF StopRecording, AutoStop, StreamsAgree, TypeOK
      <4> HIDE DEF s
      <4>2. PICK b : inbox' = Append(inbox, StoppedMsg(mic.take, b, s))
        BY <3>2 DEF StopRecording, AutoStop, Reply, s
      <4>3. /\ StoppedMsg(mic.take, b, s).kind = "Stopped"
            /\ StoppedMsg(mic.take, b, s).audio = s /\ StoppedMsg(mic.take, b, s).take = mic.take
        BY DEF StoppedMsg, Blank
      <4>4. QED BY <1>1, <1>2, <4>1, <4>2, <4>3, InboxAgreesStep
    <3>3. QED BY <1>7, <3>1, <3>2
  <2>3. QED BY <1>2, <1>3, <2>1, <2>2 DEF StreamsAgree, CmdsAgree, InboxAgrees
<1>8. CASE DeviceLost
  BY <1>8 DEF DeviceLost, Fault
<1>9. QED BY <1>4, <1>5, <1>6, <1>7, <1>8 DEF AudioWorkerNext

LEMMA StreamsAgreeStep ==
  ASSUME TypeOK, Fifo, StreamsAgree, "lost" \notin Faults, "config" \notin Inputs, [Next]_vars
  PROVE  StreamsAgree'
<1>1. inbox \in Seq(Message) /\ cmds \in Seq(AudioCommand)
  BY DEF TypeOK
<1>2. CmdsAgree(cmds) /\ InboxAgrees(inbox) /\ rolling_enabled = InitRolling
  BY AgreeParts DEF Fifo, SettingKept
<1>3. ASSUME inbox' = inbox \/ \E m : /\ m.kind \notin {"Started", "Stopped"}
                                      /\ inbox' = Append(inbox, m)
      PROVE  InboxAgrees(inbox')
  BY <1>1, <1>2, <1>3, InboxAgreesStep
<1>4. ASSUME CoordinatorNext \/ TimerNext PROVE CmdsAgree(cmds')
  BY <1>1, <1>2, <1>4, CommandsSent, CmdsAgreeStep
<1>5. CASE CoordinatorNext
  <2>1. inbox # <<>> /\ inbox' = Tail(inbox) /\ mic' = mic
    BY <1>5, NoneLostInbox, HandlerFrame DEF Fifo
  <2>2. InboxAgrees(inbox')
    BY <1>1, <1>2, <2>1, InboxAgreesStep
  <2>3. \A r \in rollers' : r.audio = InitRolling
    <3>1. CASE Started
      <4> DEFINE n == [take |-> msg.take, epoch |-> NextEpoch, audio |-> msg.audio,
                       phase |-> "live"]
      <4>1. msg.kind = "Started" /\ 1 \in DOMAIN inbox /\ msg = inbox[1]
        BY <1>1, <3>1, TailAt DEF Started, Receive, msg
      <4>2. n.audio = InitRolling
        BY <1>2, <4>1 DEF InboxAgrees
      <4>3. rollers' \subseteq rollers \cup {n}
        BY <3>1 DEF Started, SpawnRollingWorker
      <4> HIDE DEF n
      <4>4. QED BY <4>2, <4>3 DEF StreamsAgree
    <3>2. CASE ~Started
      <4>1. \/ rollers' = rollers
            \/ rollers' = {IF r.take = rolling_in /\ r.phase = "live"
                           THEN [r EXCEPT !.phase = "finish"] ELSE r : r \in rollers}
        BY <1>5, <3>2 DEF CoordinatorNext, HoldKeyPressed, HoldKeyReleased,
         OtherKeyDuringHold, CancelRequested, TrayToggleDictation, DaemonListen, Stopped,
         Disconnected, Cancelled, NotRecording, AudioError, RollingFinal, RollingLate,
         RollingWorkerLost, TranscribeResult, CleanupDone, gestureFrame, resultFrame
      <4>2. \A r \in rollers : [r EXCEPT !.phase = "finish"].audio = r.audio
        BY DEF TypeOK
      <4>3. ASSUME NEW r \in rollers' PROVE r.audio = InitRolling
        <5>1. CASE rollers' = rollers
          BY <5>1 DEF StreamsAgree
        <5>2. CASE rollers' # rollers
          <6>1. PICK s \in rollers : r = IF s.take = rolling_in /\ s.phase = "live"
                                         THEN [s EXCEPT !.phase = "finish"] ELSE s
            BY <4>1, <5>2
          <6>2. r.audio = s.audio
            BY <4>2, <6>1
          <6>3. QED BY <6>2 DEF StreamsAgree
        <5>3. QED BY <5>1, <5>2
      <4>4. QED BY <4>3
    <3>3. QED BY <3>1, <3>2
  <2>4. QED BY <1>4, <1>5, <2>1, <2>2, <2>3 DEF StreamsAgree, CmdsAgree, InboxAgrees
<1>6. CASE CoordinatorPanic
  <2>1. inbox # <<>> /\ inbox' = Tail(inbox) /\ UNCHANGED <<mic, cmds, rollers>>
    BY <1>6 DEF CoordinatorPanic, Handled
  <2>2. InboxAgrees(inbox')
    BY <1>1, <1>2, <2>1, InboxAgreesStep
  <2>3. QED BY <2>1, <2>2 DEF StreamsAgree, InboxAgrees
<1>7. CASE AudioWorkerNext
  BY <1>7, WorkerAgrees
<1>8. CASE RollerNext \/ RollerFails
  <2>1. InboxAgrees(inbox')
    BY <1>3, <1>8, RollerReplies DEF Sends, RollerKinds
  <2>2. \A r \in rollers' : \E s \in rollers : s.audio = r.audio
    <3>1. \A r \in rollers : [r EXCEPT !.phase = "late"].audio = r.audio
      BY DEF TypeOK
    <3>2. QED
      BY <1>8, <3>1 DEF RollerNext, RollerFails, RollerFinal, RollerPartial, RollerLate,
         RollerPanicsLate, RollerAbandoned, RollerDies
  <2>3. QED BY <1>8, <2>1, <2>2, RollerFrame DEF StreamsAgree, InboxAgrees
<1>9. CASE JobNext \/ JobFails
  <2>1. InboxAgrees(inbox')
    BY <1>3, <1>9, JobReplies DEF Sends, ResultKinds
  <2>2. QED BY <1>9, <2>1, JobFrame DEF StreamsAgree, InboxAgrees
<1>10. CASE EnvNext
  <2>1. InboxAgrees(inbox')
    BY <1>3, <1>10, EnvReplies DEF Sends, InputMsgKinds
  <2>2. QED BY <1>10, <2>1, EnvFrame DEF StreamsAgree, InboxAgrees
<1>11. CASE TimerNext
  BY <1>4, <1>11, TimerFrame DEF StreamsAgree, CmdsAgree
<1>12. CASE FinisherNext \/ UNCHANGED vars
  BY <1>12, FinisherFrame, StutterFrame DEF StreamsAgree
<1>13. QED
  BY <1>5, <1>6, <1>7, <1>8, <1>9, <1>10, <1>11, <1>12 DEF Next

LEMMA StreamsAgreeInit == Init => StreamsAgree
<1> SUFFICES ASSUME Init PROVE StreamsAgree
  OBVIOUS
<1>1. inbox = <<>> /\ cmds = <<>> /\ rollers = {} /\ ~mic.on
  BY DEF Init, NoMic
<1>2. DOMAIN inbox = {} /\ DOMAIN cmds = {}
  BY <1>1
<1>3. QED BY <1>1, <1>2 DEF StreamsAgree

(* A streamed recording under way has its worker, as long as neither the    *)
(* device is lost nor the coordinator panics nor the setting is changed.    *)
THEOREM StreamHeard ==
  "lost" \notin Faults /\ "panic" \notin Faults /\ "config" \notin Inputs =>
    (Spec => []StreamIsHeard)
<1> SUFFICES ASSUME "lost" \notin Faults, "panic" \notin Faults, "config" \notin Inputs
             PROVE  Spec => []StreamIsHeard
  OBVIOUS
<1>1. TypeOK /\ Fifo /\ StreamsAgree /\ [Next]_vars => Fifo' /\ StreamsAgree'
  BY FifoStep, StreamsAgreeStep
<1>2. TypeOK /\ Fifo /\ StreamsAgree => StreamIsHeard
  <2> SUFFICES ASSUME TypeOK, Fifo, StreamsAgree, mic.on, mic.rolling,
                      ~HasKind(inbox, ReplyKinds)
               PROVE  rolling_in = mic.take
    BY DEF StreamIsHeard, ReplyKinds
  <2>1. Heralded(inbox, rolling_in, mic.take, Len(inbox) + 1)
    BY DEF Fifo, HeraldedMic
  <2>2. Ours(rolling_in, mic.take)
    BY <2>1 DEF Heralded, HasKind, ReplyKinds
  <2>3. InitRolling
    BY DEF StreamsAgree
  <2>4. QED BY <2>2, <2>3 DEF Ours
<1>3. QED BY <1>1, <1>2, FifoInit, StreamsAgreeInit, TypeCorrect, PTL DEF Spec

-----------------------------------------------------------------------------
(* What a handler makes of the takes: only words owed change their fate,    *)
(* and they are settled or lost.                                            *)
Resolved == {"settled", "lost"}

OwedResolved(ts, us) ==
  /\ Len(us) = Len(ts)
  /\ \A t \in DOMAIN ts : \/ us[t].fate = ts[t].fate
                          \/ ts[t].fate = "captured" /\ us[t].fate \in Resolved

LEMMA FateLen ==
  ASSUME NEW us \in Seq(TakeRecord), NEW t, NEW f
  PROVE  /\ Len([us EXCEPT ![t].fate = f]) = Len(us)
         /\ DOMAIN [us EXCEPT ![t].fate = f] = DOMAIN us
         /\ \A s \in DOMAIN us :
              [us EXCEPT ![t].fate = f][s].fate = IF s = t THEN f ELSE us[s].fate
<1> DEFINE v == [us EXCEPT ![t].fate = f]
           e == [us[t] EXCEPT !.fate = f]
<1>1. v = [us EXCEPT ![t] = e]
  OBVIOUS
<1>2. CASE t \in DOMAIN us
  <2>1. us \in Seq(TakeRecord \cup {e}) /\ e \in TakeRecord \cup {e}
    OBVIOUS
  <2>2. t \in 1..Len(us) /\ DOMAIN us = 1..Len(us)
    BY <1>2, LenProperties
  <2>3. Len(v) = Len(us)
    BY <1>1, <2>1, <2>2, ExceptSeq
  <2>4. us[t] \in TakeRecord
    BY <2>2, ElementOfSeq
  <2>5. e.fate = f
    BY <2>4 DEF TakeRecord
  <2>6. QED BY <1>1, <2>3, <2>5
<1>3. CASE t \notin DOMAIN us
  <2>1. v = us
    BY <1>1, <1>3, LenProperties
  <2> HIDE DEF v
  <2>2. QED BY <1>3, <2>1 DEF v
<1>4. QED BY <1>2, <1>3

LEMMA ResolveOwed ==
  ASSUME NEW ts \in Seq(TakeRecord), NEW us \in Seq(TakeRecord), OwedResolved(ts, us),
         NEW t, NEW f \in Resolved
  PROVE  OwedResolved(ts, Resolve(us, t, f))
<1>1. DOMAIN ts = 1..Len(ts) /\ DOMAIN us = 1..Len(us)
  BY LenProperties
<1>2. CASE t \in DOMAIN us /\ us[t].fate = "captured"
  <2> DEFINE v == [us EXCEPT ![t].fate = f]
  <2>1. /\ Len(v) = Len(us)
        /\ \A s \in DOMAIN us : v[s].fate = IF s = t THEN f ELSE us[s].fate
    BY FateLen
  <2> HIDE DEF v
  <2>2. Resolve(us, t, f) = v
    BY <1>2 DEF Resolve, v
  <2>3. QED BY <1>1, <1>2, <2>1, <2>2 DEF OwedResolved
<1>3. CASE ~(t \in DOMAIN us /\ us[t].fate = "captured")
  BY <1>3 DEF Resolve
<1>4. QED BY <1>2, <1>3

LEMMA CountFates ==
  ASSUME NEW us \in Seq(TakeRecord), NEW t \in DOMAIN us
  PROVE  /\ Len([us EXCEPT ![t].deliveries = @ + 1]) = Len(us)
         /\ \A s \in DOMAIN us : [us EXCEPT ![t].deliveries = @ + 1][s].fate = us[s].fate
<1> DEFINE v == [us EXCEPT ![t].deliveries = @ + 1]
           e == [us[t] EXCEPT !.deliveries = @ + 1]
<1>1. v = [us EXCEPT ![t] = e]
  OBVIOUS
<1>2. DOMAIN us = 1..Len(us) /\ t \in 1..Len(us) /\ us[t] \in TakeRecord
  BY LenProperties, ElementOfSeq
<1>3. e \in TakeRecord
  <2>1. us[t] \in [fate: Fates, listen: Nat, deliveries: Nat]
    BY <1>2 DEF TakeRecord
  <2>2. us[t].deliveries + 1 \in Nat
    BY <2>1
  <2>3. QED BY <2>1, <2>2 DEF TakeRecord
<1>4. e.fate = us[t].fate
  <2>1. us[t] \in [fate: Fates, listen: Nat, deliveries: Nat]
    BY <1>2 DEF TakeRecord
  <2>2. QED BY <2>1
<1>5. Len(v) = Len(us)
  BY <1>1, <1>2, <1>3, ExceptSeq
<1>6. QED BY <1>1, <1>2, <1>4, <1>5

LEMMA DeliverOwed ==
  ASSUME NEW ts \in Seq(TakeRecord), NEW t
  PROVE  OwedResolved(ts, Deliver(ts, t))
<1> DEFINE r == Resolve(ts, t, "settled")
<1>1. OwedResolved(ts, r) /\ r \in Seq(TakeRecord)
  <2>1. OwedResolved(ts, ts)
    BY DEF OwedResolved
  <2>2. "settled" \in Resolved /\ "settled" \in Fates
    BY DEF Resolved, Fates
  <2>3. QED BY <2>1, <2>2, ResolveOwed, ResolveType
<1>2. CASE t \in DOMAIN r
  <2> DEFINE v == [r EXCEPT ![t].deliveries = @ + 1]
  <2>1. Len(v) = Len(r) /\ \A s \in DOMAIN r : v[s].fate = r[s].fate
    BY <1>1, <1>2, CountFates
  <2>2. Deliver(ts, t) = v
    BY <1>2 DEF Deliver
  <2>3. DOMAIN ts = DOMAIN r
    BY <1>1, LenProperties DEF OwedResolved
  <2> HIDE DEF r, v
  <2>4. QED BY <1>1, <2>1, <2>2, <2>3 DEF OwedResolved
<1>3. CASE t \notin DOMAIN r
  BY <1>1, <1>3 DEF Deliver
<1>4. QED BY <1>2, <1>3

LEMMA HandlerTakes ==
  ASSUME TypeOK, CoordinatorNext \/ CoordinatorPanic
  PROVE  OwedResolved(takes, takes')
<1>1. takes \in Seq(TakeRecord) /\ OwedResolved(takes, takes)
  BY DEF TypeOK, OwedResolved
<1>2. \A t : \A f \in Resolved : OwedResolved(takes, Resolve(takes, t, f))
  BY <1>1, ResolveOwed
<1>3. \A t : OwedResolved(takes, Resolve(AfterDrop(takes), t, "lost"))
  BY <1>1, <1>2, ResolveOwed, AfterDropType DEF AfterDrop, Resolved
<1>4. \A t : OwedResolved(takes, Deliver(takes, t))
  BY <1>1, DeliverOwed
<1>5. \/ takes' = takes
      \/ \E t : \E f \in Resolved : takes' = Resolve(takes, t, f)
      \/ \E t : takes' = Resolve(AfterDrop(takes), t, "lost")
      \/ \E t : takes' = Deliver(takes, t)
  <2>1. CASE CoordinatorPanic
    BY <2>1 DEF CoordinatorPanic
  <2>2. CASE HoldKeyPressed \/ HoldKeyReleased \/ OtherKeyDuringHold \/ CancelRequested
               \/ TrayToggleDictation \/ DaemonListen
    BY <2>2 DEF HoldKeyPressed, HoldKeyReleased, OtherKeyDuringHold, CancelRequested,
       TrayToggleDictation, DaemonListen, gestureFrame
  <2>3. CASE Started \/ Cancelled \/ NotRecording \/ AudioError
    <3>1. takes' = takes \/ takes' = Resolve(takes, rolling_in, "lost")
      BY <2>3 DEF Started, Cancelled, NotRecording, AudioError, AbandonRecording, AfterDrop,
         history
    <3>2. QED BY <3>1 DEF Resolved
  <2>4. CASE Stopped
    <3>1. takes' = takes \/ takes' = Resolve(takes, msg.take, "lost")
      BY <2>4 DEF Stopped
    <3>2. QED BY <3>1 DEF Resolved
  <2>5. CASE Disconnected
    <3>1. takes' = takes \/ takes' = Resolve(AfterDrop(takes), msg.take, "lost")
      BY <2>5 DEF Disconnected
    <3>2. QED BY <3>1
  <2>6. CASE RollingFinal \/ RollingLate \/ RollingWorkerLost \/ TranscribeResult
               \/ CleanupDone
    <3>1. \A t, l, b : run_pipeline(t, l, b) \/ finalize_dictation(t, l, b) =>
            takes' = takes \/ takes' = Deliver(takes, t) \/ takes' = Resolve(takes, t, "settled")
      BY DEF run_pipeline, finalize_dictation
    <3>2. \/ takes' = takes \/ \E f \in Resolved : takes' = Resolve(takes, msg.take, f)
          \/ takes' = Resolve(takes, pending_rolling.take, "settled")
          \/ \E t, l, b : run_pipeline(t, l, b) \/ finalize_dictation(t, l, b)
      BY <2>6 DEF RollingFinal, RollingLate, RollingWorkerLost, TranscribeResult, CleanupDone,
         history, Resolved
    <3>3. QED BY <3>1, <3>2 DEF Resolved
  <2>7. QED BY <2>1, <2>2, <2>3, <2>4, <2>5, <2>6 DEF CoordinatorNext
<1>6. QED BY <1>1, <1>2, <1>3, <1>4, <1>5

-----------------------------------------------------------------------------
(* Recordings are announced in the order they were opened, each before it   *)
(* becomes the one whose worker is fed; the one under way is still owed.    *)
InOrder(q, rin, ts) ==
  /\ rin <= Len(ts)
  /\ \A i \in DOMAIN q : q[i].kind = "Started" => q[i].take > rin /\ q[i].take <= Len(ts)
  /\ \A i, j \in DOMAIN q :
       i < j /\ q[i].kind = "Started" /\ q[j].kind = "Started" => q[i].take < q[j].take

Capturing == mic.on => mic.take \in DOMAIN takes /\ takes[mic.take].fate = "capturing"

TakesInOrder == InOrder(inbox, rolling_in, takes) /\ Capturing

LEMMA InOrderAppend ==
  ASSUME NEW q \in Seq(Message), NEW rin \in Nat, NEW ts, NEW us, InOrder(q, rin, ts), NEW m,
         Len(ts) \in Nat, Len(us) \in Nat, Len(ts) <= Len(us),
         m.kind = "Started" => m.take \in (Len(ts) + 1)..Len(us)
  PROVE  InOrder(Append(q, m), rin, us)
<1> DEFINE a == Append(q, m)
<1>1. /\ Len(q) \in Nat /\ DOMAIN q = 1..Len(q) /\ DOMAIN a = 1..(Len(q) + 1)
      /\ \A j \in 1..Len(q) : a[j] = q[j]
      /\ a[Len(q) + 1] = m
  BY AppendAt
<1>2. \A j \in DOMAIN q : q[j] \in Message /\ q[j].take \in Nat
  BY MessageFields, ElementOfSeq, <1>1
<1> HIDE DEF a
<1>3. rin <= Len(us)
  BY DEF InOrder
<1>4. ASSUME NEW i \in DOMAIN a, a[i].kind = "Started"
      PROVE  a[i].take > rin /\ a[i].take <= Len(us)
  <2>1. CASE i \in DOMAIN q
    <3>1. q[i].take > rin /\ q[i].take <= Len(ts) /\ q[i].take \in Nat /\ a[i] = q[i]
      BY <1>1, <1>2, <1>4, <2>1 DEF InOrder
    <3>2. QED BY <3>1
  <2>2. CASE i = Len(q) + 1
    <3>1. rin <= Len(ts) /\ a[i] = m /\ m.take \in (Len(ts) + 1)..Len(us)
      BY <1>1, <1>4, <2>2 DEF InOrder
    <3>2. QED BY <3>1
  <2>3. QED BY <1>1, <2>1, <2>2
<1>5. ASSUME NEW i \in DOMAIN a, NEW j \in DOMAIN a, i < j, a[i].kind = "Started",
             a[j].kind = "Started"
      PROVE  a[i].take < a[j].take
  <2>1. i \in DOMAIN q /\ a[i] = q[i]
    BY <1>1, <1>5
  <2>2. CASE j \in DOMAIN q
    BY <1>1, <1>5, <2>1, <2>2 DEF InOrder
  <2>3. CASE j = Len(q) + 1
    <3>1. q[i].take <= Len(ts) /\ a[j] = m
      BY <1>1, <1>5, <2>1, <2>3 DEF InOrder
    <3>2. m.take \in (Len(ts) + 1)..Len(us) /\ q[i].take \in Nat
      BY <1>2, <1>5, <2>1, <3>1
    <3>3. QED BY <2>1, <3>1, <3>2
  <2>4. QED BY <1>1, <2>2, <2>3
<1>6. QED BY <1>3, <1>4, <1>5 DEF InOrder, a

LEMMA InOrderTail ==
  ASSUME NEW q \in Seq(Message), q # <<>>, NEW rin \in Nat, NEW rin1, NEW ts, NEW us,
         InOrder(q, rin, ts), Len(us) = Len(ts), Len(ts) \in Nat,
         rin1 \in {0, rin} \/ (Head(q).kind = "Started" /\ rin1 = Head(q).take)
  PROVE  InOrder(Tail(q), rin1, us)
<1> DEFINE a == Tail(q)
<1>1. /\ Len(q) \in Nat \ {0} /\ DOMAIN q = 1..Len(q) /\ DOMAIN a = 1..(Len(q) - 1)
      /\ Head(q) = q[1]
      /\ \A j \in 1..(Len(q) - 1) : a[j] = q[j + 1]
  BY TailAt
<1>2. \A j \in DOMAIN q : q[j] \in Message /\ q[j].take \in Nat
  BY MessageFields, ElementOfSeq, <1>1
<1> HIDE DEF a
<1>3. rin1 <= Len(us)
  BY <1>1, <1>2 DEF InOrder
<1>4. ASSUME NEW i \in DOMAIN a, a[i].kind = "Started"
      PROVE  a[i].take > rin1 /\ a[i].take <= Len(us)
  <2>1. i + 1 \in DOMAIN q /\ a[i] = q[i + 1] /\ 1 < i + 1 /\ 1 \in DOMAIN q
    BY <1>1
  <2>2. a[i].take > rin /\ a[i].take <= Len(us) /\ a[i].take \in Nat
    BY <1>2, <1>4, <2>1 DEF InOrder
  <2>3. Head(q).kind = "Started" => Head(q).take < a[i].take
    BY <1>1, <1>4, <2>1 DEF InOrder
  <2>4. QED BY <1>1, <1>2, <2>2, <2>3
<1>5. ASSUME NEW i \in DOMAIN a, NEW j \in DOMAIN a, i < j, a[i].kind = "Started",
             a[j].kind = "Started"
      PROVE  a[i].take < a[j].take
  <2>1. /\ i + 1 \in DOMAIN q /\ j + 1 \in DOMAIN q /\ i + 1 < j + 1
        /\ a[i] = q[i + 1] /\ a[j] = q[j + 1]
    BY <1>1, <1>5
  <2>2. QED BY <1>5, <2>1 DEF InOrder
<1>6. QED BY <1>3, <1>4, <1>5 DEF InOrder, a

LEMMA TakesInOrderStep ==
  ASSUME TypeOK, TakesInOrder, [Next]_vars
  PROVE  TakesInOrder'
<1> USE DEF TakesInOrder
<1>1. /\ inbox \in Seq(Message) /\ rolling_in \in Nat /\ takes \in Seq(TakeRecord)
      /\ DOMAIN takes = 1..Len(takes) /\ Len(takes) \in Nat
  BY LenProperties DEF TypeOK
<1>2. ASSUME UNCHANGED <<rolling_in, takes, mic>>,
             inbox' = inbox \/ \E m : m.kind # "Started" /\ inbox' = Append(inbox, m)
      PROVE  TakesInOrder'
  <2>1. Capturing'
    BY <1>2 DEF Capturing
  <2>2. CASE inbox' = inbox
    BY <1>2, <2>1, <2>2
  <2>3. CASE \E m : m.kind # "Started" /\ inbox' = Append(inbox, m)
    <3>1. PICK m : m.kind # "Started" /\ inbox' = Append(inbox, m)
      BY <2>3
    <3>2. InOrder(Append(inbox, m), rolling_in, takes)
      BY <1>1, <3>1, InOrderAppend
    <3>3. QED BY <1>2, <2>1, <3>1, <3>2
  <2>4. QED BY <1>2, <2>2, <2>3
<1>3. ASSUME OwedResolved(takes, takes'), mic' = mic
      PROVE  Len(takes') = Len(takes) /\ Capturing'
  <2>1. TypeOK' => DOMAIN takes' = 1..Len(takes')
    BY LenProperties DEF TypeOK
  <2>2. TypeOK'
    BY TypeStep
  <2>3. QED BY <1>1, <1>3, <2>1, <2>2 DEF OwedResolved, Capturing
<1>4. CASE CoordinatorNext
  <2>1. /\ inbox # <<>> /\ Tail(inbox) \in Seq(Message) /\ mic' = mic
        /\ Len(takes') = Len(takes) /\ Capturing'
    BY <1>3, <1>4, HandlerInbox, HandlerFrame, HandlerTakes
  <2>2. rolling_in' \in {0, rolling_in} \/ (msg.kind = "Started" /\ rolling_in' = msg.take)
    <3>1. CASE Started
      BY <3>1 DEF Started, Receive, SpawnRollingWorker
    <3>2. CASE ~Started
      BY <1>4, <3>2 DEF CoordinatorNext, HoldKeyPressed, HoldKeyReleased,
       OtherKeyDuringHold, CancelRequested, TrayToggleDictation, DaemonListen, Stopped,
       Disconnected, Cancelled, NotRecording, AudioError, RollingFinal, RollingLate,
       RollingWorkerLost, TranscribeResult, CleanupDone, gestureFrame, resultFrame,
       AbandonRecording
    <3>3. QED BY <3>1, <3>2
  <2>3. InOrder(Tail(inbox), rolling_in', takes')
    BY <1>1, <2>1, <2>2, InOrderTail DEF msg
  <2>4. CASE inbox' = Tail(inbox)
    BY <2>1, <2>3, <2>4
  <2>5. CASE inbox' = Append(Tail(inbox), StoppedMsg(msg.take, FALSE, msg.audio /\ rolling_in = 0))
    <3>1. StoppedMsg(msg.take, FALSE, msg.audio /\ rolling_in = 0).kind = "Stopped"
      BY DEF StoppedMsg, Blank
    <3>2. rolling_in' \in Nat
      BY TypeStep DEF TypeOK
    <3> DEFINE m == StoppedMsg(msg.take, FALSE, msg.audio /\ rolling_in = 0)
    <3>3. inbox' = Append(Tail(inbox), m) /\ m.kind # "Started"
      BY <2>5, <3>1
    <3>4. Len(takes') \in Nat /\ Len(takes') <= Len(takes')
      BY <1>1, <2>1
    <3> HIDE DEF m
    <3>5. InOrder(Append(Tail(inbox), m), rolling_in', takes')
      BY <2>1, <2>3, <3>2, <3>3, <3>4, InOrderAppend
    <3>6. QED BY <2>1, <3>3, <3>5
  <2>6. QED BY <1>4, <2>4, <2>5, HandlerInbox
<1>5. CASE CoordinatorPanic
  <2>1. inbox # <<>> /\ inbox' = Tail(inbox) /\ mic' = mic /\ rolling_in' = 0
    BY <1>5 DEF CoordinatorPanic, Handled
  <2>2. Len(takes') = Len(takes) /\ Capturing'
    BY <1>3, <1>5, <2>1, HandlerTakes
  <2>3. QED BY <1>1, <2>1, <2>2, InOrderTail
<1>6. CASE AudioWorkerNext
  <2>1. rolling_in' = rolling_in
    BY <1>6, WorkerFrame
  <2>2. CASE OpenMic
    <3> DEFINE n == [fate |-> "capturing", listen |-> Head(cmds).listen, deliveries |-> 0]
               t == Len(takes) + 1
               m == StartedMsg(t, Head(cmds).rolling)
    <3>1. /\ takes' = Append(takes, n) /\ mic' = Mic(t, Head(cmds).rolling)
          /\ inbox' = Append(inbox, m)
      BY <2>2 DEF OpenMic, Reply
    <3>2. m.kind = "Started" /\ m.take = t
      BY DEF StartedMsg, Blank
    <3>3. n.fate = "capturing"
      OBVIOUS
    <3> HIDE DEF n, m
    <3>4. /\ DOMAIN takes' = 1..(Len(takes) + 1) /\ takes'[Len(takes) + 1] = n
      BY <1>1, <3>1, AppendAt
    <3>5. Len(takes') = Len(takes) + 1
      <4>1. takes \in Seq(TakeRecord \cup {n}) /\ n \in TakeRecord \cup {n}
        BY <1>1
      <4>2. QED BY <3>1, <4>1, AppendProperties
    <3>6. InOrder(inbox', rolling_in', takes')
      <4>1. m.take \in (Len(takes) + 1)..Len(takes') /\ Len(takes) <= Len(takes')
            /\ Len(takes') \in Nat
        BY <1>1, <3>2, <3>5
      <4>2. InOrder(Append(inbox, m), rolling_in, takes')
        BY <1>1, <4>1, InOrderAppend
      <4>3. QED BY <2>1, <3>1, <4>2
    <3>7. Capturing'
      BY <1>1, <3>1, <3>3, <3>4 DEF Mic, Capturing
    <3>8. QED BY <3>6, <3>7
  <2>3. CASE ~OpenMic
    <3>1. inbox' = inbox \/ \E m : m.kind # "Started" /\ inbox' = Append(inbox, m)
      <4>1. /\ Plain("Error").kind # "Started" /\ Plain("NotRecording").kind # "Started"
            /\ \A t, b, c : /\ StoppedMsg(t, b, c).kind # "Started"
                            /\ DisconnectedMsg(t, b, c).kind # "Started"
                            /\ CancelledMsg(t).kind # "Started"
        BY DEF Blank, Plain, StoppedMsg, DisconnectedMsg, CancelledMsg
      <4>2. CASE OpenFails \/ AckIdle \/ IgnoreStart \/ CancelRecording
        BY <4>1, <4>2 DEF OpenFails, AckIdle, IgnoreStart, CancelRecording, Reply
      <4>3. CASE StopRecording \/ AutoStop
        BY <4>1, <4>3 DEF StopRecording, AutoStop, Reply
      <4>4. CASE DeviceLost
        <5>1. \E b, c : Reply(DisconnectedMsg(mic.take, b, c))
          BY <4>4 DEF DeviceLost
        <5>2. QED BY <4>1, <5>1 DEF Reply
      <4>5. QED BY <1>6, <2>3, <4>2, <4>3, <4>4 DEF AudioWorkerNext
    <3>2. (mic' = mic /\ takes' = takes) \/ (mic' = NoMic /\ Len(takes') = Len(takes))
      <4>1. \A f : Len([takes EXCEPT ![mic.take].fate = f]) = Len(takes)
        BY <1>1, FateLen
      <4>2. CASE OpenFails \/ AckIdle \/ IgnoreStart
        BY <4>2 DEF OpenFails, AckIdle, IgnoreStart
      <4>3. CASE StopRecording \/ CancelRecording \/ AutoStop \/ DeviceLost
        <5>1. \E f : CloseMic(f)
          BY <4>3 DEF StopRecording, CancelRecording, AutoStop, DeviceLost
        <5>2. QED BY <4>1, <5>1 DEF CloseMic
      <4>4. QED BY <1>6, <2>3, <4>2, <4>3 DEF AudioWorkerNext
    <3>3. Capturing' /\ Len(takes') = Len(takes)
      BY <3>2 DEF Capturing, NoMic
    <3>4. InOrder(inbox', rolling_in', takes')
      <4>1. CASE inbox' = inbox
        BY <2>1, <3>3, <4>1 DEF InOrder
      <4>2. CASE \E m : m.kind # "Started" /\ inbox' = Append(inbox, m)
        <5>1. PICK m : m.kind # "Started" /\ inbox' = Append(inbox, m)
          BY <4>2
        <5>2. InOrder(Append(inbox, m), rolling_in, takes')
          BY <1>1, <3>3, <5>1, InOrderAppend
        <5>3. QED BY <2>1, <5>1, <5>2
      <4>3. QED BY <3>1, <4>1, <4>2
    <3>5. QED BY <3>3, <3>4
  <2>4. QED BY <2>2, <2>3
<1>7. CASE RollerNext \/ RollerFails
  BY <1>2, <1>7, RollerReplies, RollerFrame DEF Sends, RollerKinds
<1>8. CASE JobNext \/ JobFails
  BY <1>2, <1>8, JobReplies, JobFrame DEF Sends, ResultKinds
<1>9. CASE EnvNext
  BY <1>2, <1>9, EnvReplies, EnvFrame DEF Sends, InputMsgKinds
<1>10. CASE TimerNext \/ FinisherNext \/ UNCHANGED vars
  BY <1>2, <1>10, TimerFrame, FinisherFrame, StutterFrame
<1>11. QED
  BY <1>4, <1>5, <1>6, <1>7, <1>8, <1>9, <1>10 DEF Next

-----------------------------------------------------------------------------
(* The words of a finished recording that are owed are on their way: its    *)
(* Stopped follows its Started, or what is left of the queue when that has  *)
(* been handled, with no other reply before it.                             *)
EndAfter(q, a, t) ==
  \E j \in DOMAIN q : a < j /\ q[j].kind = "Stopped" /\ q[j].take = t /\ Quiet(q, a, j)

OwedIn(ts, t) == ts[t].fate = "captured"

EndsToCome(q, rin, ts) ==
  /\ \A i \in DOMAIN q : q[i].kind = "Started" /\ OwedIn(ts, q[i].take)
                           => EndAfter(q, i, q[i].take)
  /\ rin # 0 /\ OwedIn(ts, rin) => EndAfter(q, 0, rin)

LEMMA EndAfterAppend ==
  ASSUME NEW q \in Seq(Message), NEW m, NEW a, NEW t
  PROVE  /\ EndAfter(q, a, t) => EndAfter(Append(q, m), a, t)
         /\ a < Len(q) + 1 /\ m.kind = "Stopped" /\ m.take = t /\ Quiet(q, a, Len(q) + 1)
              => EndAfter(Append(q, m), a, t)
<1> DEFINE b == Append(q, m)
<1>1. /\ Len(q) \in Nat /\ DOMAIN q = 1..Len(q) /\ DOMAIN b = 1..(Len(q) + 1)
      /\ \A j \in 1..Len(q) : b[j] = q[j]
      /\ b[Len(q) + 1] = m
  BY AppendAt
<1> HIDE DEF b
<1>2. ASSUME NEW j \in 1..(Len(q) + 1), Quiet(q, a, j)
      PROVE  Quiet(b, a, j)
  BY <1>1, <1>2 DEF Quiet
<1>3. ASSUME EndAfter(q, a, t) PROVE EndAfter(b, a, t)
  <2>1. PICK j \in DOMAIN q : a < j /\ q[j].kind = "Stopped" /\ q[j].take = t /\ Quiet(q, a, j)
    BY <1>3 DEF EndAfter
  <2>2. j \in 1..(Len(q) + 1) /\ j \in DOMAIN b /\ b[j] = q[j]
    BY <1>1
  <2>3. Quiet(b, a, j)
    BY <1>2, <2>1, <2>2
  <2>4. QED BY <2>1, <2>2, <2>3 DEF EndAfter
<1>4. ASSUME a < Len(q) + 1, m.kind = "Stopped", m.take = t, Quiet(q, a, Len(q) + 1)
      PROVE  EndAfter(b, a, t)
  <2>1. Len(q) + 1 \in 1..(Len(q) + 1)
    BY <1>1
  <2>2. Quiet(b, a, Len(q) + 1)
    BY <1>2, <1>4, <2>1
  <2>3. QED BY <1>1, <1>4, <2>1, <2>2 DEF EndAfter
<1>5. QED BY <1>3, <1>4 DEF b

LEMMA EndAfterTail ==
  ASSUME NEW q \in Seq(Message), q # <<>>, NEW a \in Nat, NEW t, EndAfter(q, a, t),
         a = 0 => Head(q).kind # "Stopped"
  PROVE  EndAfter(Tail(q), IF a = 0 THEN 0 ELSE a - 1, t)
<1> DEFINE b == Tail(q)
           a1 == IF a = 0 THEN 0 ELSE a - 1
<1>1. /\ Len(q) \in Nat \ {0} /\ DOMAIN q = 1..Len(q) /\ DOMAIN b = 1..(Len(q) - 1)
      /\ Head(q) = q[1]
      /\ \A j \in 1..(Len(q) - 1) : b[j] = q[j + 1]
  BY TailAt
<1>2. a1 \in Nat /\ (a = 0 => a1 = 0) /\ (a # 0 => a1 = a - 1)
  OBVIOUS
<1> HIDE DEF b, a1
<1>3. PICK j \in DOMAIN q : a < j /\ q[j].kind = "Stopped" /\ q[j].take = t /\ Quiet(q, a, j)
  BY DEF EndAfter
<1>4. j # 1
  BY <1>1, <1>3
<1>5. j - 1 \in DOMAIN b /\ b[j - 1] = q[j] /\ a1 < j - 1
  BY <1>1, <1>2, <1>3, <1>4
<1>6. Quiet(b, a1, j - 1)
  <2> SUFFICES ASSUME NEW i \in DOMAIN b, a1 < i, i < j - 1
               PROVE  b[i].kind \notin ReplyKinds
    BY DEF Quiet
  <2>1. i + 1 \in DOMAIN q /\ a < i + 1 /\ i + 1 < j /\ b[i] = q[i + 1]
    BY <1>1, <1>2, <1>3
  <2>2. QED BY <1>3, <2>1 DEF Quiet
<1>7. EndAfter(b, a1, t)
  BY <1>3, <1>5, <1>6 DEF EndAfter
<1>8. QED BY <1>7 DEF a1, b

(* A message that ends nothing, and takes of which no more are owed.        *)
LEMMA EndsAppend ==
  ASSUME NEW q \in Seq(Message), NEW m, NEW rin, NEW ts, NEW us, EndsToCome(q, rin, ts),
         \A i \in DOMAIN q : q[i].kind = "Started" /\ OwedIn(us, q[i].take)
                               => OwedIn(ts, q[i].take),
         rin # 0 /\ OwedIn(us, rin) => OwedIn(ts, rin),
         m.kind = "Started" => ~OwedIn(us, m.take)
  PROVE  EndsToCome(Append(q, m), rin, us)
<1> DEFINE b == Append(q, m)
<1>1. /\ Len(q) \in Nat /\ DOMAIN q = 1..Len(q) /\ DOMAIN b = 1..(Len(q) + 1)
      /\ \A j \in 1..Len(q) : b[j] = q[j]
      /\ b[Len(q) + 1] = m
  BY AppendAt
<1> HIDE DEF b
<1>2. ASSUME NEW i \in DOMAIN b, b[i].kind = "Started", OwedIn(us, b[i].take)
      PROVE  EndAfter(b, i, b[i].take)
  <2>1. i # Len(q) + 1
    BY <1>1, <1>2
  <2>2. i \in DOMAIN q /\ b[i] = q[i]
    BY <1>1, <2>1
  <2>3. EndAfter(q, i, q[i].take)
    BY <1>2, <2>2 DEF EndsToCome
  <2>4. QED BY <2>2, <2>3, EndAfterAppend DEF b
<1>3. ASSUME rin # 0, OwedIn(us, rin) PROVE EndAfter(b, 0, rin)
  <2>1. EndAfter(q, 0, rin)
    BY <1>3 DEF EndsToCome
  <2>2. QED BY <2>1, EndAfterAppend DEF b
<1>4. QED BY <1>2, <1>3 DEF EndsToCome, b

LEMMA EndsTail ==
  ASSUME NEW q \in Seq(Message), q # <<>>, NEW rin, NEW rin1, NEW ts, NEW us,
         EndsToCome(q, rin, ts),
         \A i \in DOMAIN q : q[i].kind = "Started" /\ OwedIn(us, q[i].take)
                               => OwedIn(ts, q[i].take),
         rin # 0 /\ OwedIn(us, rin) => OwedIn(ts, rin),
         \/ rin1 = 0
         \/ rin1 = rin /\ Head(q).kind # "Stopped"
         \/ Head(q).kind = "Started" /\ rin1 = Head(q).take
  PROVE  EndsToCome(Tail(q), rin1, us)
<1> DEFINE b == Tail(q)
<1>1. /\ Len(q) \in Nat \ {0} /\ DOMAIN q = 1..Len(q) /\ DOMAIN b = 1..(Len(q) - 1)
      /\ Head(q) = q[1]
      /\ \A j \in 1..(Len(q) - 1) : b[j] = q[j + 1]
  BY TailAt
<1> HIDE DEF b
<1>2. ASSUME NEW i \in DOMAIN b, b[i].kind = "Started", OwedIn(us, b[i].take)
      PROVE  EndAfter(b, i, b[i].take)
  <2>1. i + 1 \in DOMAIN q /\ b[i] = q[i + 1] /\ i + 1 \in Nat /\ i + 1 # 0 /\ (i + 1) - 1 = i
    BY <1>1
  <2>2. EndAfter(q, i + 1, b[i].take)
    BY <1>2, <2>1 DEF EndsToCome
  <2> DEFINE k == i + 1
  <2>3. k \in Nat /\ k # 0 /\ k - 1 = i /\ EndAfter(q, k, b[i].take)
    BY <2>1, <2>2
  <2> HIDE DEF k
  <2>4. EndAfter(b, IF k = 0 THEN 0 ELSE k - 1, b[i].take)
    BY <2>3, EndAfterTail DEF b
  <2>5. QED BY <2>3, <2>4
<1>3. ASSUME rin1 # 0, OwedIn(us, rin1) PROVE EndAfter(b, 0, rin1)
  <2>1. CASE Head(q).kind = "Started" /\ rin1 = Head(q).take
    <3>1. 1 \in DOMAIN q /\ q[1].kind = "Started" /\ q[1].take = rin1
      BY <1>1, <2>1
    <3>2. EndAfter(q, 1, rin1)
      BY <1>3, <3>1 DEF EndsToCome
    <3>3. EndAfter(b, IF 1 = 0 THEN 0 ELSE 1 - 1, rin1)
      BY <3>2, EndAfterTail DEF b
    <3>4. QED BY <3>3
  <2>2. CASE rin1 = rin /\ Head(q).kind # "Stopped"
    <3>1. EndAfter(q, 0, rin1)
      BY <1>3, <2>2 DEF EndsToCome
    <3>2. EndAfter(b, IF 0 = 0 THEN 0 ELSE 0 - 1, rin1)
      BY <2>2, <3>1, EndAfterTail DEF b
    <3>3. QED BY <3>2
  <2>3. QED BY <1>3, <2>1, <2>2
<1>4. QED BY <1>2, <1>3 DEF EndsToCome, b

(* The Stopped of the recording that ends.                                  *)
LEMMA EndsClose ==
  ASSUME NEW q \in Seq(Message), NEW m, NEW t, NEW rin \in Nat, NEW ts, NEW us,
         EndsToCome(q, rin, ts), InOrder(q, rin, ts), Heralded(q, rin, t, Len(q) + 1),
         m.kind = "Stopped", m.take = t,
         \A i \in DOMAIN q : q[i].kind = "Started" /\ q[i].take # t /\ OwedIn(us, q[i].take)
                               => OwedIn(ts, q[i].take),
         rin # 0 /\ rin # t /\ OwedIn(us, rin) => OwedIn(ts, rin)
  PROVE  EndsToCome(Append(q, m), rin, us)
<1> DEFINE b == Append(q, m)
<1>1. /\ Len(q) \in Nat /\ DOMAIN q = 1..Len(q) /\ DOMAIN b = 1..(Len(q) + 1)
      /\ \A j \in 1..Len(q) : b[j] = q[j]
      /\ b[Len(q) + 1] = m
  BY AppendAt
<1>2. \A j \in DOMAIN q : q[j].take \in Nat
  BY MessageFields, ElementOfSeq, <1>1
<1> HIDE DEF b
<1>3. ASSUME NEW i \in DOMAIN q, q[i].kind = "Started", q[i].take = t
      PROVE  Quiet(q, i, Len(q) + 1) /\ rin # t
  <2>1. rin # t
    BY <1>2, <1>3 DEF InOrder
  <2>2. ~Quiet(q, 0, Len(q) + 1)
    BY <1>1, <1>3 DEF Quiet, ReplyKinds
  <2>3. PICK k \in DOMAIN q : /\ k < Len(q) + 1 /\ q[k].kind = "Started" /\ q[k].take = t
                              /\ Quiet(q, k, Len(q) + 1)
    BY <2>2 DEF Heralded
  <2>4. ~(i < k) /\ ~(k < i)
    BY <1>2, <1>3, <2>3 DEF InOrder
  <2>5. i = k
    BY <1>1, <2>4
  <2>6. QED BY <2>1, <2>3, <2>5
<1>4. ASSUME rin = t, rin # 0 PROVE Quiet(q, 0, Len(q) + 1)
  BY <1>3, <1>4 DEF Heralded
<1>5. ASSUME NEW i \in DOMAIN b, b[i].kind = "Started", OwedIn(us, b[i].take)
      PROVE  EndAfter(b, i, b[i].take)
  <2>1. i \in DOMAIN q /\ b[i] = q[i] /\ i < Len(q) + 1
    BY <1>1, <1>5
  <2>2. CASE q[i].take = t
    <3>1. Quiet(q, i, Len(q) + 1)
      BY <1>3, <1>5, <2>1, <2>2
    <3>2. QED BY <2>1, <2>2, <3>1, EndAfterAppend DEF b
  <2>3. CASE q[i].take # t
    <3>1. EndAfter(q, i, q[i].take)
      BY <1>5, <2>1, <2>3 DEF EndsToCome
    <3>2. QED BY <2>1, <3>1, EndAfterAppend DEF b
  <2>4. QED BY <2>2, <2>3
<1>6. ASSUME rin # 0, OwedIn(us, rin) PROVE EndAfter(b, 0, rin)
  <2>1. CASE rin = t
    <3>1. Quiet(q, 0, Len(q) + 1) /\ 0 < Len(q) + 1
      BY <1>1, <1>4, <1>6, <2>1
    <3>2. QED BY <2>1, <3>1, EndAfterAppend DEF b
  <2>2. CASE rin # t
    <3>1. EndAfter(q, 0, rin)
      BY <1>6, <2>2 DEF EndsToCome
    <3>2. QED BY <3>1, EndAfterAppend DEF b
  <2>3. QED BY <2>1, <2>2
<1>7. QED BY <1>5, <1>6 DEF EndsToCome, b

EndsCome == EndsToCome(inbox, rolling_in, takes)

(* What no handler may do while nothing is lost: give words up.             *)
Settled(ts, us) ==
  \/ us = ts
  \/ \E t : us = Resolve(ts, t, "settled") \/ us = Deliver(ts, t)

(* The sender the coordinator drops is of no worker with words owed.        *)
LEMMA NothingDropped ==
  ASSUME TypeOK, EndsCome, inbox # <<>>,
         msg.kind \in ReplyKinds \ {"Stopped"}
  PROVE  AfterDrop(takes) = takes
<1>1. /\ 1 \in DOMAIN inbox /\ msg = inbox[1] /\ DOMAIN inbox \subseteq Nat \ {0}
  BY TailAt DEF msg, TypeOK
<1>2. ASSUME rolling_in \in DOMAIN takes, OwedIn(takes, rolling_in)
      PROVE  FALSE
  <2>1. rolling_in # 0
    BY <1>2, LenProperties DEF TypeOK
  <2>2. PICK j \in DOMAIN inbox : 0 < j /\ inbox[j].kind = "Stopped" /\ Quiet(inbox, 0, j)
    BY <1>2, <2>1 DEF EndsCome, EndsToCome, EndAfter
  <2>3. j # 1
    BY <1>1, <2>2
  <2>4. 0 < 1 /\ 1 < j
    BY <1>1, <2>3
  <2>5. QED BY <1>1, <2>2, <2>4 DEF Quiet
<1>3. QED BY <1>2 DEF AfterDrop, Resolve, OwedIn

(* A Stopped finds its own worker with its samples, or brings them along.   *)
LEMMA StoppedKeepsWords ==
  ASSUME TypeOK, Fifo, LiveWorker, StreamsAgree, "panic" \notin Faults, "config" \notin Inputs,
         "manager" \notin Faults, Stopped
  PROVE  takes' = takes
<1>1. rolling_in = IF InitRolling THEN msg.take ELSE 0
  BY StoppedIsItsOwn DEF Ours
<1>2. inbox # <<>> /\ msg.kind = "Stopped"
  BY DEF Stopped, Receive
<1>3. 1 \in DOMAIN inbox /\ msg = inbox[1] /\ msg \in Message
  BY <1>2, TailAt, HeadTailProperties DEF msg, TypeOK
<1>4. msg.audio # InitRolling /\ msg.take # 0 /\ msg.audio \in BOOLEAN
  BY <1>2, <1>3, MessageFields DEF StreamsAgree
<1>5. CASE InitRolling
  <2>1. rolling_in = msg.take /\ rolling_in # 0
    BY <1>1, <1>4, <1>5
  <2>2. StreamedTo(msg.take)
    BY <1>5, <2>1 DEF LiveWorker, StreamsAgree, StreamedTo
  <2>3. QED BY <2>1, <2>2 DEF Stopped
<1>6. CASE ~InitRolling
  <2>1. rolling_in = 0 /\ msg.audio
    BY <1>1, <1>4, <1>6, DictationAssumption
  <2>2. QED BY <2>1 DEF Stopped, Fault
<1>7. QED BY <1>5, <1>6

LEMMA HandlersSettle ==
  ASSUME TypeOK, Fifo, LiveWorker, StreamsAgree, EndsCome, "panic" \notin Faults,
         "config" \notin Inputs, "manager" \notin Faults, CoordinatorNext
  PROVE  Settled(takes, takes')
<1>1. CASE HoldKeyPressed \/ HoldKeyReleased \/ OtherKeyDuringHold \/ CancelRequested
               \/ TrayToggleDictation \/ DaemonListen
  BY <1>1 DEF HoldKeyPressed, HoldKeyReleased, OtherKeyDuringHold, CancelRequested,
     TrayToggleDictation, DaemonListen, gestureFrame, Settled
<1>2. CASE Started \/ Cancelled \/ NotRecording \/ AudioError
  <2>1. inbox # <<>> /\ msg.kind \in ReplyKinds \ {"Stopped"}
    BY <1>2 DEF Started, Cancelled, NotRecording, AudioError, Receive, ReplyKinds, EndKinds
  <2>2. AfterDrop(takes) = takes
    BY <2>1, NothingDropped
  <2>3. takes' = takes \/ takes' = AfterDrop(takes)
    BY <1>2 DEF Started, Cancelled, NotRecording, AudioError, AbandonRecording, history
  <2>4. QED BY <2>2, <2>3 DEF Settled
<1>3. CASE Stopped
  BY <1>3, StoppedKeepsWords DEF Settled
<1>4. CASE Disconnected
  BY <1>4, NoneLostInbox DEF Fifo
<1>5. CASE RollingFinal \/ RollingLate \/ RollingWorkerLost \/ TranscribeResult \/ CleanupDone
  <2>1. \A t, l, b : run_pipeline(t, l, b) \/ finalize_dictation(t, l, b) =>
            takes' = takes \/ takes' = Deliver(takes, t) \/ takes' = Resolve(takes, t, "settled")
    BY DEF run_pipeline, finalize_dictation
  <2>2. \/ takes' = takes \/ takes' = Resolve(takes, msg.take, "settled")
        \/ takes' = Resolve(takes, pending_rolling.take, "settled")
        \/ \E t, l, b : run_pipeline(t, l, b) \/ finalize_dictation(t, l, b)
    <3>1. CASE RollingFinal
      BY <3>1 DEF RollingFinal, route_rolling_final
    <3>2. CASE RollingLate \/ RollingWorkerLost
      BY <3>2 DEF RollingLate, RollingWorkerLost, history
    <3>3. CASE TranscribeResult \/ CleanupDone
      BY <3>3 DEF TranscribeResult, CleanupDone
    <3>4. QED BY <1>5, <3>1, <3>2, <3>3
  <2>3. QED BY <2>1, <2>2 DEF Settled
<1>6. QED BY <1>1, <1>2, <1>3, <1>4, <1>5 DEF CoordinatorNext

LEMMA EndsComeStep ==
  ASSUME TypeOK, Fifo, TakesInOrder, EndsCome, "lost" \notin Faults, "panic" \notin Faults,
         [Next]_vars
  PROVE  EndsCome'
<1> USE DEF EndsCome
<1>1. /\ inbox \in Seq(Message) /\ rolling_in \in Nat /\ takes \in Seq(TakeRecord)
      /\ DOMAIN takes = 1..Len(takes) /\ Len(takes) \in Nat
      /\ DOMAIN inbox \subseteq Nat
  BY LenProperties DEF TypeOK
<1>2. /\ \A i \in DOMAIN inbox : inbox[i].kind = "Started" => inbox[i].take \in DOMAIN takes
      /\ rolling_in # 0 => rolling_in \in DOMAIN takes
  <2>1. \A i \in DOMAIN inbox : inbox[i].take \in Nat
    BY <1>1, MessageFields, ElementOfSeq, LenProperties
  <2>2. QED BY <1>1, <2>1 DEF TakesInOrder, InOrder
<1>3. ASSUME UNCHANGED <<rolling_in, takes>>,
             inbox' = inbox \/ \E m : m.kind # "Started" /\ inbox' = Append(inbox, m)
      PROVE  EndsCome'
  <2>1. CASE inbox' = inbox
    BY <1>3, <2>1
  <2>2. CASE \E m : m.kind # "Started" /\ inbox' = Append(inbox, m)
    <3>1. PICK m : m.kind # "Started" /\ inbox' = Append(inbox, m)
      BY <2>2
    <3>2. EndsToCome(Append(inbox, m), rolling_in, takes)
      BY <1>1, <3>1, EndsAppend
    <3>3. QED BY <1>3, <3>1, <3>2
  <2>3. QED BY <1>3, <2>1, <2>2
<1>4. CASE CoordinatorNext
  <2>1. inbox # <<>> /\ inbox' = Tail(inbox) /\ ~Disconnected
    BY <1>4, NoneLostInbox DEF Fifo
  <2>2. OwedResolved(takes, takes')
    BY <1>4, HandlerTakes
  <2>3. \A t \in DOMAIN takes : OwedIn(takes', t) => OwedIn(takes, t)
    BY <2>2 DEF OwedResolved, OwedIn
  <2>4. \/ rolling_in' = 0
        \/ rolling_in' = rolling_in /\ msg.kind # "Stopped"
        \/ msg.kind = "Started" /\ rolling_in' = msg.take
    <3>1. CASE Started
      BY <3>1 DEF Started, Receive, SpawnRollingWorker
    <3>2. CASE Stopped
      BY <3>2 DEF Stopped
    <3>3. CASE ~Started /\ ~Stopped
      BY <1>4, <2>1, <3>3 DEF CoordinatorNext, Receive, HoldKeyPressed, HoldKeyReleased,
       OtherKeyDuringHold, CancelRequested, TrayToggleDictation, DaemonListen,
       Cancelled, NotRecording, AudioError, RollingFinal, RollingLate,
       RollingWorkerLost, TranscribeResult, CleanupDone, gestureFrame, resultFrame,
       AbandonRecording
    <3>4. QED BY <3>1, <3>2, <3>3
  <2>5. EndsToCome(Tail(inbox), rolling_in', takes')
    BY <1>1, <1>2, <2>1, <2>3, <2>4, EndsTail DEF msg
  <2>6. QED BY <2>1, <2>5
<1>5. CASE CoordinatorPanic
  BY <1>5 DEF CoordinatorPanic, Fault
<1>6. CASE AudioWorkerNext
  <2>1. rolling_in' = rolling_in
    BY <1>6, WorkerFrame
  <2>2. CASE OpenMic
    <3> DEFINE n == [fate |-> "capturing", listen |-> Head(cmds).listen, deliveries |-> 0]
               t == Len(takes) + 1
               m == StartedMsg(t, Head(cmds).rolling)
    <3>1. takes' = Append(takes, n) /\ inbox' = Append(inbox, m)
      BY <2>2 DEF OpenMic, Reply
    <3>2. m.kind = "Started" /\ m.take = t /\ n.fate # "captured"
      BY DEF StartedMsg, Blank
    <3> HIDE DEF n, m
    <3>3. /\ takes'[t] = n /\ \A s \in DOMAIN takes : takes'[s] = takes[s]
      BY <1>1, <3>1, AppendAt
    <3>4. ~OwedIn(takes', t) /\ \A s \in DOMAIN takes : OwedIn(takes', s) => OwedIn(takes, s)
      BY <3>2, <3>3 DEF OwedIn
    <3>5. EndsToCome(Append(inbox, m), rolling_in, takes')
      BY <1>1, <1>2, <3>2, <3>4, EndsAppend
    <3>6. QED BY <2>1, <3>1, <3>5
  <2>3. CASE OpenFails \/ AckIdle \/ IgnoreStart
    <3>1. Plain("Error").kind # "Started" /\ Plain("NotRecording").kind # "Started"
      BY DEF Plain, Blank
    <3>2. QED BY <1>3, <2>1, <2>3, <3>1 DEF OpenFails, AckIdle, IgnoreStart, Reply
  <2>4. ASSUME NEW f, mic.on, CloseMic(f)
        PROVE  /\ \A s \in DOMAIN takes : s # mic.take /\ OwedIn(takes', s) => OwedIn(takes, s)
               /\ f # "captured" => ~OwedIn(takes', mic.take)
    <3>1. takes' = [takes EXCEPT ![mic.take].fate = f] /\ mic.take \in DOMAIN takes
      BY <2>4 DEF CloseMic, TakesInOrder, Capturing
    <3>2. \A s \in DOMAIN takes :
            [takes EXCEPT ![mic.take].fate = f][s].fate = IF s = mic.take THEN f ELSE takes[s].fate
      BY <1>1, FateLen
    <3>3. QED BY <3>1, <3>2 DEF OwedIn
  <2>5. CASE CancelRecording
    <3>1. mic.on /\ CloseMic("discarded") /\ inbox' = Append(inbox, CancelledMsg(mic.take))
      BY <2>5 DEF CancelRecording, Reply
    <3>2. CancelledMsg(mic.take).kind # "Started"
      BY DEF CancelledMsg, Blank
    <3>3. \A s \in DOMAIN takes : OwedIn(takes', s) => OwedIn(takes, s)
      BY <2>4, <3>1
    <3> DEFINE m == CancelledMsg(mic.take)
    <3>4. m.kind # "Started" /\ inbox' = Append(inbox, m)
      BY <3>1, <3>2
    <3> HIDE DEF m
    <3>5. EndsToCome(Append(inbox, m), rolling_in, takes')
      BY <1>1, <1>2, <3>3, <3>4, EndsAppend
    <3>6. QED BY <2>1, <3>4, <3>5
  <2>6. CASE StopRecording \/ AutoStop
    <3>1. PICK b, c : inbox' = Append(inbox, StoppedMsg(mic.take, b, c))
      BY <2>6 DEF StopRecording, AutoStop, Reply
    <3>2. mic.on /\ CloseMic("captured")
      BY <2>6 DEF StopRecording, AutoStop
    <3> DEFINE m == StoppedMsg(mic.take, b, c)
    <3>3. m.kind = "Stopped" /\ m.take = mic.take /\ inbox' = Append(inbox, m)
      BY <3>1 DEF StoppedMsg, Blank
    <3> HIDE DEF m
    <3>4. \A s \in DOMAIN takes : s # mic.take /\ OwedIn(takes', s) => OwedIn(takes, s)
      BY <2>4, <3>2
    <3>5. Heralded(inbox, rolling_in, mic.take, Len(inbox) + 1)
      BY <3>2 DEF Fifo, HeraldedMic
    <3>6. InOrder(inbox, rolling_in, takes)
      BY DEF TakesInOrder
    <3>7. EndsToCome(Append(inbox, m), rolling_in, takes')
      BY <1>1, <1>2, <3>3, <3>4, <3>5, <3>6, EndsClose
    <3>8. QED BY <2>1, <3>3, <3>7
  <2>7. CASE DeviceLost
    BY <2>7 DEF DeviceLost, Fault
  <2>8. QED BY <1>6, <2>2, <2>3, <2>5, <2>6, <2>7 DEF AudioWorkerNext
<1>7. CASE RollerNext \/ RollerFails
  BY <1>3, <1>7, RollerReplies, RollerFrame DEF Sends, RollerKinds
<1>8. CASE JobNext \/ JobFails
  BY <1>3, <1>8, JobReplies, JobFrame DEF Sends, ResultKinds
<1>9. CASE EnvNext
  BY <1>3, <1>9, EnvReplies, EnvFrame DEF Sends, InputMsgKinds
<1>10. CASE TimerNext \/ FinisherNext \/ UNCHANGED vars
  BY <1>3, <1>10, TimerFrame, FinisherFrame, StutterFrame
<1>11. QED
  BY <1>4, <1>5, <1>6, <1>7, <1>8, <1>9, <1>10 DEF Next

-----------------------------------------------------------------------------
(* What keeps the user's words while nothing is lost.                       *)
WordsInv == Fifo /\ StreamsAgree /\ LiveWorker /\ TakesInOrder /\ EndsCome

(* The failures that can lose words: a device or a coordinator gone, a      *)
(* rolling worker or the model manager dead.                                *)
LosingFaults == {"lost", "panic", "early", "manager"}

LEMMA WordsInvInit == Init => WordsInv
<1> SUFFICES ASSUME Init PROVE WordsInv
  OBVIOUS
<1>1. inbox = <<>> /\ rolling_in = 0 /\ ~mic.on /\ takes = <<>>
  BY DEF Init, NoMic
<1>2. DOMAIN inbox = {} /\ Len(takes) = 0
  BY <1>1
<1>3. QED
  BY <1>1, <1>2, FifoInit, StreamsAgreeInit
     DEF WordsInv, LiveWorker, TakesInOrder, InOrder, Capturing, EndsCome, EndsToCome

LEMMA WordsInvStep ==
  ASSUME TypeOK, WordsInv, Faults \cap LosingFaults = {}, "config" \notin Inputs, [Next]_vars
  PROVE  WordsInv'
<1>1. /\ "lost" \notin Faults /\ "panic" \notin Faults
      /\ "early" \notin Faults /\ "manager" \notin Faults
  BY DEF LosingFaults
<1>2. Fifo' /\ StreamsAgree' /\ LiveWorker' /\ TakesInOrder' /\ EndsCome'
  BY <1>1, FifoStep, StreamsAgreeStep, LiveWorkerStep, TakesInOrderStep, EndsComeStep
     DEF WordsInv
<1>3. QED BY <1>2 DEF WordsInv

(* A step opens a take, closes one, settles one or leaves them alone.       *)
Opened(ts, us) == \E n : n.fate = "capturing" /\ us = Append(ts, n)

Closed(ts, us) ==
  \E t, f : /\ t \in DOMAIN ts /\ ts[t].fate = "capturing"
            /\ f \in {"captured", "discarded"}
            /\ us = [ts EXCEPT ![t].fate = f]

LEMMA TakesMove ==
  ASSUME TypeOK, WordsInv, Faults \cap LosingFaults = {}, "config" \notin Inputs, [Next]_vars
  PROVE  Settled(takes, takes') \/ Opened(takes, takes') \/ Closed(takes, takes')
<1>1. "lost" \notin Faults /\ "panic" \notin Faults /\ "manager" \notin Faults
  BY DEF LosingFaults
<1>2. CASE CoordinatorNext
  BY <1>1, <1>2, HandlersSettle DEF WordsInv
<1>3. CASE CoordinatorPanic
  BY <1>1, <1>3 DEF CoordinatorPanic, Fault
<1>4. CASE AudioWorkerNext
  <2>1. CASE OpenMic
    <3> DEFINE n == [fate |-> "capturing", listen |-> Head(cmds).listen, deliveries |-> 0]
    <3>1. takes' = Append(takes, n) /\ n.fate = "capturing"
      BY <2>1 DEF OpenMic
    <3> HIDE DEF n
    <3>2. QED BY <3>1 DEF Opened
  <2>2. CASE OpenFails \/ AckIdle \/ IgnoreStart
    BY <2>2 DEF OpenFails, AckIdle, IgnoreStart, Settled
  <2>3. CASE StopRecording \/ CancelRecording \/ AutoStop \/ DeviceLost
    <3>1. PICK f \in {"captured", "discarded"} : takes' = [takes EXCEPT ![mic.take].fate = f]
      BY <1>1, <2>3 DEF StopRecording, CancelRecording, AutoStop, DeviceLost, Fault, CloseMic
    <3>2. mic.on
      BY <2>3 DEF StopRecording, CancelRecording, AutoStop, DeviceLost
    <3>3. mic.take \in DOMAIN takes /\ takes[mic.take].fate = "capturing"
      BY <3>2 DEF WordsInv, TakesInOrder, Capturing
    <3>4. QED BY <3>1, <3>3 DEF Closed
  <2>4. QED BY <1>4, <2>1, <2>2, <2>3 DEF AudioWorkerNext
<1>5. CASE RollerNext \/ RollerFails \/ JobNext \/ JobFails \/ EnvNext \/ TimerNext
           \/ FinisherNext \/ UNCHANGED vars
  BY <1>5, RollerFrame, JobFrame, EnvFrame, TimerFrame, FinisherFrame, StutterFrame DEF Settled
<1>6. QED BY <1>2, <1>3, <1>4, <1>5 DEF Next

(* The same of the fates alone, which are the ledger.                       *)
FatesOf(ts) == [t \in DOMAIN ts |-> ts[t].fate]

LEMMA SettledFates ==
  ASSUME NEW ts \in Seq(TakeRecord), NEW us, Settled(ts, us)
  PROVE  \/ FatesOf(us) = FatesOf(ts)
         \/ \E t \in DOMAIN FatesOf(ts) :
              /\ FatesOf(ts)[t] = "captured"
              /\ FatesOf(us) = [FatesOf(ts) EXCEPT ![t] = "settled"]
<1> DEFINE Goal(vs) == \/ FatesOf(vs) = FatesOf(ts)
                       \/ \E t \in DOMAIN FatesOf(ts) :
                            /\ FatesOf(ts)[t] = "captured"
                            /\ FatesOf(vs) = [FatesOf(ts) EXCEPT ![t] = "settled"]
<1>1. ASSUME NEW t
      PROVE  Goal(Resolve(ts, t, "settled")) /\ Resolve(ts, t, "settled") \in Seq(TakeRecord)
  <2> DEFINE r == Resolve(ts, t, "settled")
  <2>1. r \in Seq(TakeRecord)
    BY ResolveType DEF Fates
  <2>2. CASE t \in DOMAIN ts /\ ts[t].fate = "captured"
    <3> DEFINE v == [ts EXCEPT ![t].fate = "settled"]
    <3>1. /\ DOMAIN v = DOMAIN ts
          /\ \A s \in DOMAIN ts : v[s].fate = IF s = t THEN "settled" ELSE ts[s].fate
      BY FateLen
    <3>2. r = v
      BY <2>2 DEF Resolve
    <3> HIDE DEF v, r
    <3>3. FatesOf(r) = [FatesOf(ts) EXCEPT ![t] = "settled"]
      BY <3>1, <3>2 DEF FatesOf
    <3>4. t \in DOMAIN FatesOf(ts) /\ FatesOf(ts)[t] = "captured"
      BY <2>2 DEF FatesOf
    <3>5. Goal(r)
      BY <3>3, <3>4
    <3>6. QED BY <2>1, <3>5 DEF r
  <2>3. CASE ~(t \in DOMAIN ts /\ ts[t].fate = "captured")
    <3>1. r = ts
      BY <2>3 DEF Resolve
    <3>2. QED BY <2>1, <3>1
  <2>4. QED BY <2>2, <2>3
<1>2. ASSUME NEW t
      PROVE  Goal(Deliver(ts, t))
  <2> DEFINE r == Resolve(ts, t, "settled")
  <2>1. Goal(r) /\ r \in Seq(TakeRecord)
    BY <1>1
  <2>2. CASE t \in DOMAIN r
    <3> DEFINE v == [r EXCEPT ![t].deliveries = @ + 1]
    <3>1. Len(v) = Len(r) /\ \A s \in DOMAIN r : v[s].fate = r[s].fate
      BY <2>1, <2>2, CountFates
    <3>2. DOMAIN v = DOMAIN r
      OBVIOUS
    <3>3. Deliver(ts, t) = v
      BY <2>2 DEF Deliver
    <3> HIDE DEF v, r
    <3>4. FatesOf(v) = FatesOf(r)
      BY <3>1, <3>2 DEF FatesOf
    <3>5. QED BY <2>1, <3>3, <3>4
  <2>3. CASE t \notin DOMAIN r
    <3>1. Deliver(ts, t) = r
      BY <2>3 DEF Deliver
    <3> HIDE DEF r
    <3>2. QED BY <2>1, <3>1
  <2>4. QED BY <2>2, <2>3
<1> HIDE DEF Goal
<1>3. Goal(ts)
  BY DEF Goal
<1>4. Goal(us)
  BY <1>1, <1>2, <1>3 DEF Settled
<1>5. QED BY <1>4 DEF Goal

LEMMA OpenedFates ==
  ASSUME NEW ts \in Seq(TakeRecord), NEW us, Opened(ts, us)
  PROVE  FatesOf(us) = Append(FatesOf(ts), "capturing")
<1>1. PICK n : n.fate = "capturing" /\ us = Append(ts, n)
  BY DEF Opened
<1>2. /\ Len(ts) \in Nat /\ DOMAIN ts = 1..Len(ts) /\ DOMAIN us = 1..(Len(ts) + 1)
      /\ \A i \in 1..Len(ts) : us[i] = ts[i]
      /\ us[Len(ts) + 1] = n
  BY <1>1, AppendAt
<1> DEFINE F == FatesOf(ts)
           S == {F[i] : i \in 1..Len(ts)}
<1>3. F \in Seq(S) /\ Len(F) = Len(ts)
  <2>1. F \in [1..Len(ts) -> S]
    BY <1>2 DEF FatesOf
  <2>2. F \in Seq(S)
    BY <1>2, <2>1, SeqDef
  <2>3. DOMAIN F = 1..Len(ts)
    BY <1>2 DEF FatesOf
  <2>4. QED BY <1>2, <2>2, <2>3, LenProperties
<1> HIDE DEF S
<1>4. /\ DOMAIN Append(F, "capturing") = 1..(Len(F) + 1)
      /\ \A i \in 1..Len(F) : Append(F, "capturing")[i] = F[i]
      /\ Append(F, "capturing")[Len(F) + 1] = "capturing"
  BY <1>3, AppendAt
<1>5. \A i \in 1..(Len(ts) + 1) : FatesOf(us)[i] = Append(F, "capturing")[i]
  <2> SUFFICES ASSUME NEW i \in 1..(Len(ts) + 1)
               PROVE  FatesOf(us)[i] = Append(F, "capturing")[i]
    OBVIOUS
  <2>1. FatesOf(us)[i] = us[i].fate
    BY <1>2 DEF FatesOf
  <2>2. CASE i \in 1..Len(ts)
    <3>1. F[i] = ts[i].fate
      BY <1>2, <2>2 DEF FatesOf
    <3>2. QED BY <1>2, <1>3, <1>4, <2>1, <2>2, <3>1
  <2>3. CASE i = Len(ts) + 1
    <3>1. us[i] = n /\ us[i].fate = "capturing"
      BY <1>1, <1>2, <2>3
    <3>2. i = Len(F) + 1
      BY <1>3, <2>3
    <3>3. FatesOf(us)[i] = "capturing"
      BY <2>1, <3>1
    <3> HIDE DEF F
    <3>4. Append(F, "capturing")[i] = "capturing"
      BY <1>4, <3>2
    <3>5. QED BY <3>3, <3>4
  <2>4. i \in 1..Len(ts) \/ i = Len(ts) + 1
    BY <1>2
  <2>5. QED BY <2>2, <2>3, <2>4
<1>6. Append(F, "capturing") \in Seq(S \cup {"capturing"})
  <2>1. F \in Seq(S \cup {"capturing"}) /\ "capturing" \in S \cup {"capturing"}
    BY <1>3
  <2>2. QED BY <2>1, AppendProperties
<1>7. Append(F, "capturing") = [i \in 1..(Len(ts) + 1) |-> Append(F, "capturing")[i]]
  <2> DEFINE A == Append(F, "capturing")
  <2>1. A \in [1..Len(A) -> S \cup {"capturing"}] /\ DOMAIN A = 1..(Len(ts) + 1)
    BY <1>3, <1>4, <1>6, LenProperties
  <2> HIDE DEF A
  <2>2. A = [i \in 1..(Len(ts) + 1) |-> A[i]]
    BY <2>1
  <2>3. QED BY <2>2 DEF A
<1>8. FatesOf(us) = [i \in 1..(Len(ts) + 1) |-> FatesOf(us)[i]]
  BY <1>2 DEF FatesOf
<1>9. QED BY <1>5, <1>7, <1>8

LEMMA ClosedFates ==
  ASSUME NEW ts \in Seq(TakeRecord), NEW us, Closed(ts, us)
  PROVE  \E t \in DOMAIN FatesOf(ts), s \in {"captured", "discarded"} :
           /\ FatesOf(ts)[t] = "capturing"
           /\ FatesOf(us) = [FatesOf(ts) EXCEPT ![t] = s]
<1>1. PICK t, f : /\ t \in DOMAIN ts /\ ts[t].fate = "capturing"
                  /\ f \in {"captured", "discarded"}
                  /\ us = [ts EXCEPT ![t].fate = f]
  BY DEF Closed
<1>2. /\ DOMAIN us = DOMAIN ts
      /\ \A s \in DOMAIN ts : us[s].fate = IF s = t THEN f ELSE ts[s].fate
  BY <1>1, FateLen
<1>3. t \in DOMAIN FatesOf(ts) /\ FatesOf(ts)[t] = "capturing"
  BY <1>1 DEF FatesOf
<1>4. FatesOf(us) = [FatesOf(ts) EXCEPT ![t] = f]
  BY <1>2 DEF FatesOf
<1>5. QED BY <1>1, <1>3, <1>4

LEMMA LedgerStep ==
  ASSUME TypeOK, WordsInv, Faults \cap LosingFaults = {}, "config" \notin Inputs, [Next]_vars
  PROVE  /\ [Ledger!Next]_(FatesOf(takes))
         /\ NoWordsLost => NoWordsLost'
<1>1. takes \in Seq(TakeRecord)
  BY DEF TypeOK
<1> DEFINE L == FatesOf(takes)
           M == FatesOf(takes')
<1>2. \/ M = L
      \/ M = Append(L, "capturing")
      \/ \E t \in DOMAIN L, s \in {"captured", "discarded"} :
           L[t] = "capturing" /\ M = [L EXCEPT ![t] = s]
      \/ \E t \in DOMAIN L : L[t] = "captured" /\ M = [L EXCEPT ![t] = "settled"]
  BY <1>1, TakesMove, SettledFates, OpenedFates, ClosedFates
<1>3. [Ledger!Next]_(FatesOf(takes))
  <2>1. CASE M = L
    BY <2>1
  <2>2. CASE M = Append(L, "capturing")
    <3>1. Ledger!Open
      BY <2>2 DEF Ledger!Open, FatesOf
    <3>2. QED BY <3>1 DEF Ledger!Next
  <2>3. CASE \E t \in DOMAIN L, s \in {"captured", "discarded"} :
               L[t] = "capturing" /\ M = [L EXCEPT ![t] = s]
    <3>1. PICK t \in DOMAIN L : Ledger!Close(t)
      BY <2>3 DEF Ledger!Close, FatesOf
    <3>2. QED BY <3>1 DEF Ledger!Next, FatesOf
  <2>4. CASE \E t \in DOMAIN L : L[t] = "captured" /\ M = [L EXCEPT ![t] = "settled"]
    <3>1. PICK t \in DOMAIN L : Ledger!Settle(t)
      BY <2>4 DEF Ledger!Settle, FatesOf
    <3>2. QED BY <3>1 DEF Ledger!Next, FatesOf
  <2>5. QED BY <1>2, <2>1, <2>2, <2>3, <2>4
<1>4. ASSUME NoWordsLost PROVE NoWordsLost'
  <2>1. \A t \in DOMAIN L : L[t] # "lost"
    BY <1>4 DEF NoWordsLost, FatesOf
  <2>2. \A t \in DOMAIN M : M[t] # "lost"
    <3>1. CASE M = Append(L, "capturing")
      <4>1. L \in Seq({L[i] : i \in DOMAIN L})
        <5>1. DOMAIN L = 1..Len(takes) /\ Len(takes) \in Nat
          BY <1>1, LenProperties DEF FatesOf
        <5>2. L \in [1..Len(takes) -> {L[i] : i \in DOMAIN L}]
          BY <5>1 DEF FatesOf
        <5>3. QED BY <5>1, <5>2, SeqDef
      <4>2. \A t \in DOMAIN M : (t \in DOMAIN L /\ M[t] = L[t]) \/ M[t] = "capturing"
        BY <3>1, <4>1, AppendAt
      <4>3. QED BY <2>1, <4>2
    <3>2. CASE M # Append(L, "capturing")
      <4> HIDE DEF L, M
      <4>1. QED BY <1>2, <2>1, <3>2
    <3>3. QED BY <3>1, <3>2
  <2>3. QED BY <2>2 DEF NoWordsLost, FatesOf
<1>5. QED BY <1>3, <1>4

(* While no device is lost and neither the coordinator, the model manager   *)
(* nor a rolling worker over a live recording dies, and the setting is not  *)
(* changed, the takes keep the safety part of the promise of TakeLedger,    *)
(* whatever is pressed and called, however often the microphone cannot be   *)
(* opened or the engine fails: words owed are settled, never just gone.     *)
THEOREM WordsAreKept ==
  Faults \cap LosingFaults = {} /\ "config" \notin Inputs =>
    (Spec => /\ []NoWordsLost
             /\ Ledger!Init /\ [][Ledger!Next]_(FatesOf(takes)))
<1> SUFFICES ASSUME Faults \cap LosingFaults = {}, "config" \notin Inputs
             PROVE  Spec => /\ []NoWordsLost
                            /\ Ledger!Init /\ [][Ledger!Next]_(FatesOf(takes))
  OBVIOUS
<1>1. Init => WordsInv /\ NoWordsLost /\ Ledger!Init
  <2> SUFFICES ASSUME Init PROVE NoWordsLost /\ Ledger!Init
    BY WordsInvInit
  <2>1. takes = <<>>
    BY DEF Init
  <2>2. DOMAIN takes = {}
    BY <2>1
  <2>3. [t \in DOMAIN takes |-> takes[t].fate] = <<>>
    <3>1. DOMAIN <<>> = {} /\ DOMAIN [t \in DOMAIN takes |-> takes[t].fate] = {}
      BY <2>2
    <3>2. QED BY <2>1
  <2>4. QED BY <2>2, <2>3 DEF NoWordsLost, Ledger!Init
<1>2. TypeOK /\ WordsInv /\ [Next]_vars => WordsInv'
  BY WordsInvStep
<1>3. TypeOK /\ WordsInv /\ [Next]_vars =>
        [Ledger!Next]_(FatesOf(takes)) /\ (NoWordsLost => NoWordsLost')
  BY LedgerStep
<1>4. QED BY <1>1, <1>2, <1>3, TypeCorrect, PTL DEF Spec

-----------------------------------------------------------------------------
(* What can still become a delivery of its take: samples announced or under *)
(* way, a worker or job that has them, text on its way back.                *)
Carries(m) ==
  \/ m.kind \in {"Started", "Stopped", "Disconnected"} /\ m.audio
  \/ m.kind \in {"Final", "TranscribeResult"} /\ m.out = "text"
  \/ m.kind = "CleanupDone"

Works(r) == r.audio /\ r.phase # "late"
Runs(j)  == j.audio \/ j.stage = "clean"

InQueue(q, t)   == \E i \in DOMAIN q : Carries(q[i]) /\ q[i].take = t
InRollers(R, t) == \E r \in R : Works(r) /\ r.take = t
InJobs(J, t)    == \E j \in J : Runs(j) /\ j.take = t
InMic(mc, t)    == mc.on /\ ~mc.rolling /\ mc.take = t

OneMessage(q) ==
  \A i, j \in DOMAIN q : i # j /\ Carries(q[i]) /\ Carries(q[j]) => q[i].take # q[j].take
OneRoller(R) == \A r, s \in R : r # s /\ Works(r) /\ Works(s) => r.take # s.take
OneJob(J)    == \A r, s \in J : r # s /\ Runs(r) /\ Runs(s) => r.take # s.take

Undelivered(ts, t) == t \in DOMAIN ts /\ ts[t].deliveries = 0

(* A take is in one place, and only until it is delivered.                  *)
OnePlace(q, R, J, mc, ts, t) ==
  /\ InQueue(q, t) => ~InRollers(R, t) /\ ~InJobs(J, t) /\ ~InMic(mc, t)
  /\ InRollers(R, t) => ~InJobs(J, t) /\ ~InMic(mc, t)
  /\ InJobs(J, t) => ~InMic(mc, t)
  /\ InQueue(q, t) \/ InRollers(R, t) \/ InJobs(J, t) \/ InMic(mc, t) => Undelivered(ts, t)

OneEach(q, R, J, mc, ts) ==
  /\ OneMessage(q) /\ OneRoller(R) /\ OneJob(J)
  /\ \A t : OnePlace(q, R, J, mc, ts, t)

LEMMA QueueTail ==
  ASSUME NEW q \in Seq(Message), q # <<>>, OneMessage(q)
  PROVE  /\ OneMessage(Tail(q))
         /\ \A t : InQueue(Tail(q), t) => InQueue(q, t)
         /\ Carries(Head(q)) => InQueue(q, Head(q).take) /\ ~InQueue(Tail(q), Head(q).take)
<1> DEFINE b == Tail(q)
<1>1. /\ Len(q) \in Nat \ {0} /\ DOMAIN q = 1..Len(q) /\ DOMAIN b = 1..(Len(q) - 1)
      /\ Head(q) = q[1]
      /\ \A j \in 1..(Len(q) - 1) : b[j] = q[j + 1]
  BY TailAt
<1> HIDE DEF b
<1>2. \A i \in DOMAIN b : i + 1 \in DOMAIN q /\ b[i] = q[i + 1] /\ i + 1 # 1
  BY <1>1
<1>3. OneMessage(b)
  <2> SUFFICES ASSUME NEW i \in DOMAIN b, NEW j \in DOMAIN b, i # j,
                      Carries(b[i]), Carries(b[j])
               PROVE  b[i].take # b[j].take
    BY DEF OneMessage
  <2>1. i + 1 # j + 1
    BY <1>1
  <2>2. QED BY <1>2, <2>1 DEF OneMessage
<1>4. \A t : InQueue(b, t) => InQueue(q, t)
  BY <1>2 DEF InQueue
<1>5. ASSUME Carries(Head(q)) PROVE InQueue(q, Head(q).take) /\ ~InQueue(b, Head(q).take)
  <2>1. 1 \in DOMAIN q /\ Carries(q[1]) /\ Head(q) = q[1]
    BY <1>1, <1>5
  <2>2. QED BY <1>2, <2>1 DEF InQueue, OneMessage
<1>6. QED BY <1>3, <1>4, <1>5 DEF b

LEMMA QueueAppend ==
  ASSUME NEW q \in Seq(Message), NEW m, OneMessage(q), Carries(m) => ~InQueue(q, m.take)
  PROVE  /\ OneMessage(Append(q, m))
         /\ \A t : InQueue(Append(q, m), t) => InQueue(q, t) \/ (Carries(m) /\ m.take = t)
<1> DEFINE b == Append(q, m)
<1>1. /\ Len(q) \in Nat /\ DOMAIN q = 1..Len(q) /\ DOMAIN b = 1..(Len(q) + 1)
      /\ \A j \in 1..Len(q) : b[j] = q[j]
      /\ b[Len(q) + 1] = m
  BY AppendAt
<1> HIDE DEF b
<1>2. \A i \in DOMAIN b : (i \in DOMAIN q /\ b[i] = q[i]) \/ (i = Len(q) + 1 /\ b[i] = m)
  BY <1>1
<1>3. OneMessage(b)
  BY <1>2 DEF OneMessage, InQueue
<1>4. \A t : InQueue(b, t) => InQueue(q, t) \/ (Carries(m) /\ m.take = t)
  BY <1>2 DEF InQueue
<1>5. QED BY <1>3, <1>4 DEF b

(* Nothing is carried that was not, and no take counts a delivery.          *)
SameCounts(ts, us) ==
  DOMAIN us = DOMAIN ts /\ \A t \in DOMAIN ts : us[t].deliveries = ts[t].deliveries

LEMMA SameCountsTrans ==
  ASSUME NEW ts, NEW us, NEW vs, SameCounts(ts, us), SameCounts(us, vs)
  PROVE  SameCounts(ts, vs)
BY DEF SameCounts

LEMMA FateCounts ==
  ASSUME NEW us \in Seq(TakeRecord), NEW t, NEW f
  PROVE  SameCounts(us, [us EXCEPT ![t].fate = f])
<1> DEFINE v == [us EXCEPT ![t].fate = f]
           e == [us[t] EXCEPT !.fate = f]
<1>1. v = [us EXCEPT ![t] = e] /\ DOMAIN v = DOMAIN us
  OBVIOUS
<1>2. t \in DOMAIN us => e.deliveries = us[t].deliveries
  <2> SUFFICES ASSUME t \in DOMAIN us PROVE e.deliveries = us[t].deliveries
    OBVIOUS
  <2>1. us[t] \in [fate: Fates, listen: Nat, deliveries: Nat]
    BY LenProperties, ElementOfSeq DEF TakeRecord
  <2>2. QED BY <2>1
<1>3. ASSUME NEW s \in DOMAIN us PROVE v[s].deliveries = us[s].deliveries
  <2>1. CASE s = t
    BY <1>1, <1>2, <2>1
  <2>2. CASE s # t
    BY <1>1, <2>2
  <2>3. QED BY <2>1, <2>2
<1> HIDE DEF v
<1>4. QED BY <1>1, <1>3 DEF SameCounts, v

LEMMA ResolveCounts ==
  ASSUME NEW us \in Seq(TakeRecord), NEW t, NEW f
  PROVE  SameCounts(us, Resolve(us, t, f))
<1>1. SameCounts(us, us)
  BY DEF SameCounts
<1>2. QED BY <1>1, FateCounts DEF Resolve

LEMMA DeliverCounts ==
  ASSUME NEW us \in Seq(TakeRecord), NEW t
  PROVE  /\ DOMAIN Deliver(us, t) = DOMAIN us
         /\ \A s \in DOMAIN us :
              Deliver(us, t)[s].deliveries = us[s].deliveries + (IF s = t THEN 1 ELSE 0)
<1> DEFINE r == Resolve(us, t, "settled")
<1>1. r \in Seq(TakeRecord) /\ SameCounts(us, r)
  BY ResolveType, ResolveCounts DEF Fates
<1> HIDE DEF r
<1>2. \A s \in DOMAIN us : us[s].deliveries \in Nat
  <2>1. \A s \in DOMAIN us : us[s] \in [fate: Fates, listen: Nat, deliveries: Nat]
    BY LenProperties, ElementOfSeq DEF TakeRecord
  <2>2. QED BY <2>1
<1>3. CASE t \in DOMAIN r
  <2> DEFINE v == [r EXCEPT ![t].deliveries = @ + 1]
             e == [r[t] EXCEPT !.deliveries = @ + 1]
  <2>1. v = [r EXCEPT ![t] = e] /\ DOMAIN v = DOMAIN r
    OBVIOUS
  <2>2. e.deliveries = r[t].deliveries + 1
    <3>1. r[t] \in [fate: Fates, listen: Nat, deliveries: Nat]
      BY <1>1, <1>3, LenProperties, ElementOfSeq DEF TakeRecord
    <3>2. QED BY <3>1
  <2>3. \A s \in DOMAIN r : v[s].deliveries = r[s].deliveries + (IF s = t THEN 1 ELSE 0)
    <3> SUFFICES ASSUME NEW s \in DOMAIN r
                 PROVE  v[s].deliveries = r[s].deliveries + (IF s = t THEN 1 ELSE 0)
      OBVIOUS
    <3>1. CASE s = t
      BY <2>1, <2>2, <3>1
    <3>2. CASE s # t
      <4>1. v[s] = r[s] /\ r[s].deliveries \in Nat
        BY <1>1, <1>2, <2>1, <3>2 DEF SameCounts
      <4>2. QED BY <3>2, <4>1
    <3>3. QED BY <3>1, <3>2
  <2>4. Deliver(us, t) = v
    BY <1>3 DEF Deliver, r
  <2> HIDE DEF v
  <2>5. QED BY <1>1, <2>1, <2>3, <2>4 DEF SameCounts
<1>4. CASE t \notin DOMAIN r
  <2>1. Deliver(us, t) = r
    BY <1>4 DEF Deliver, r
  <2>2. \A s \in DOMAIN us : s # t
    BY <1>1, <1>4 DEF SameCounts
  <2>3. QED BY <1>1, <1>2, <2>1, <2>2 DEF SameCounts
<1>5. QED BY <1>3, <1>4

LEMMA JobAdded ==
  ASSUME NEW J, NEW n, OneJob(J), Runs(n) => ~InJobs(J, n.take)
  PROVE  /\ OneJob(J \cup {n})
         /\ \A t : InJobs(J \cup {n}, t) => InJobs(J, t) \/ (Runs(n) /\ n.take = t)
BY DEF OneJob, InJobs

LEMMA RollerAdded ==
  ASSUME NEW R, NEW n, OneRoller(R), Works(n) => ~InRollers(R, n.take)
  PROVE  /\ OneRoller(R \cup {n})
         /\ \A t : InRollers(R \cup {n}, t) => InRollers(R, t) \/ (Works(n) /\ n.take = t)
BY DEF OneRoller, InRollers

(* Moving what is held of one take.                                         *)
LEMMA OneEachMove ==
  ASSUME NEW q, NEW R, NEW J, NEW mc, NEW ts, OneEach(q, R, J, mc, ts), NEW x,
         NEW q1, NEW R1, NEW J1, NEW mc1, NEW ts1,
         OneMessage(q1), OneRoller(R1), OneJob(J1),
         \A t : t # x => /\ InQueue(q1, t) => InQueue(q, t)
                         /\ InRollers(R1, t) => InRollers(R, t)
                         /\ InJobs(J1, t) => InJobs(J, t)
                         /\ InMic(mc1, t) => InMic(mc, t)
                         /\ Undelivered(ts, t) => Undelivered(ts1, t),
         OnePlace(q1, R1, J1, mc1, ts1, x)
  PROVE  OneEach(q1, R1, J1, mc1, ts1)
<1>1. ASSUME NEW t, t # x PROVE OnePlace(q1, R1, J1, mc1, ts1, t)
  <2>1. OnePlace(q, R, J, mc, ts, t)
    BY DEF OneEach
  <2>2. QED BY <1>1, <2>1 DEF OnePlace
<1>2. QED BY <1>1 DEF OneEach

(* Letting go.                                                              *)
LEMMA OneEachLess ==
  ASSUME NEW q, NEW R, NEW J, NEW mc, NEW ts, OneEach(q, R, J, mc, ts),
         NEW q1, NEW R1, NEW J1, NEW mc1, NEW ts1,
         OneMessage(q1), OneRoller(R1), OneJob(J1),
         \A t : /\ InQueue(q1, t) => InQueue(q, t)
                /\ InRollers(R1, t) => InRollers(R, t)
                /\ InJobs(J1, t) => InJobs(J, t)
                /\ InMic(mc1, t) => InMic(mc, t),
         SameCounts(ts, ts1)
  PROVE  OneEach(q1, R1, J1, mc1, ts1)
<1>1. \A t : Undelivered(ts, t) => Undelivered(ts1, t)
  BY DEF SameCounts, Undelivered
<1>2. ASSUME NEW t PROVE OnePlace(q1, R1, J1, mc1, ts1, t)
  <2>1. OnePlace(q, R, J, mc, ts, t)
    BY DEF OneEach
  <2>2. QED BY <1>1, <2>1 DEF OnePlace
<1>3. QED BY <1>2 DEF OneEach

Tokens == OneEach(inbox, rollers, jobs, mic, takes)

(* The handlers that carry nothing on.                                      *)
LEMMA SilentHandlers ==
  ASSUME TypeOK, Tokens,
         \/ HoldKeyPressed \/ HoldKeyReleased \/ OtherKeyDuringHold \/ CancelRequested
         \/ TrayToggleDictation \/ DaemonListen
         \/ Cancelled \/ NotRecording \/ AudioError \/ RollingLate \/ RollingWorkerLost
  PROVE  Tokens' /\ SameCounts(takes, takes')
<1>1. takes \in Seq(TakeRecord) /\ inbox \in Seq(Message)
  BY DEF TypeOK
<1>2. inbox # <<>> /\ inbox' = Tail(inbox) /\ UNCHANGED <<rollers, jobs, mic>>
  BY DEF HoldKeyPressed, HoldKeyReleased, OtherKeyDuringHold, CancelRequested,
     TrayToggleDictation, DaemonListen, Cancelled, NotRecording, AudioError, RollingLate,
     RollingWorkerLost, Receive, Handled, gestureFrame, replyFrame, resultFrame
<1>3. takes' = takes \/ \E t, f : takes' = Resolve(takes, t, f)
  <2>1. CASE \/ HoldKeyPressed \/ HoldKeyReleased \/ OtherKeyDuringHold \/ CancelRequested
             \/ TrayToggleDictation \/ DaemonListen
    BY <2>1 DEF HoldKeyPressed, HoldKeyReleased, OtherKeyDuringHold, CancelRequested,
       TrayToggleDictation, DaemonListen, gestureFrame
  <2>2. CASE Cancelled \/ NotRecording \/ AudioError
    <3>1. takes' = takes \/ takes' = Resolve(takes, rolling_in, "lost")
      BY <2>2 DEF Cancelled, NotRecording, AudioError, AbandonRecording, AfterDrop, history
    <3>2. QED BY <3>1
  <2>3. CASE RollingLate \/ RollingWorkerLost
    BY <2>3 DEF RollingLate, RollingWorkerLost, history
  <2>4. QED BY <2>1, <2>2, <2>3
<1>4. SameCounts(takes, takes')
  <2>1. SameCounts(takes, takes)
    BY DEF SameCounts
  <2>2. QED BY <1>1, <1>3, <2>1, ResolveCounts
<1>5. OneMessage(Tail(inbox)) /\ \A t : InQueue(Tail(inbox), t) => InQueue(inbox, t)
  BY <1>1, <1>2, QueueTail DEF Tokens, OneEach
<1>6. OneEach(Tail(inbox), rollers, jobs, mic, takes')
  BY <1>4, <1>5, OneEachLess DEF Tokens, OneEach
<1>7. QED BY <1>2, <1>4, <1>6 DEF Tokens

(* Started: the worker holds what was announced.                            *)
LEMMA StartedTokens ==
  ASSUME TypeOK, Tokens, Started
  PROVE  Tokens' /\ SameCounts(takes, takes')
<1>1. takes \in Seq(TakeRecord) /\ inbox \in Seq(Message)
  BY DEF TypeOK
<1>2. /\ inbox # <<>> /\ inbox' = Tail(inbox) /\ UNCHANGED <<jobs, mic>>
      /\ msg.kind = "Started" /\ msg = Head(inbox)
  BY DEF Started, Receive, Handled, replyFrame, msg
<1>3. SameCounts(takes, takes')
  BY <1>1, ResolveCounts DEF Started, AfterDrop
<1>4. /\ OneMessage(Tail(inbox)) /\ \A t : InQueue(Tail(inbox), t) => InQueue(inbox, t)
      /\ Carries(msg) => InQueue(inbox, msg.take) /\ ~InQueue(Tail(inbox), msg.take)
  BY <1>1, <1>2, QueueTail DEF Tokens, OneEach
<1> DEFINE n == [take |-> msg.take, epoch |-> NextEpoch, audio |-> msg.audio, phase |-> "live"]
<1>5. rollers' = rollers \cup {n} \/ rollers' = rollers
  BY DEF Started, SpawnRollingWorker
<1>6. n.take = msg.take /\ (Works(n) => Carries(msg))
  BY <1>2 DEF Works, Carries
<1> HIDE DEF n
<1>7. \A t : OnePlace(inbox, rollers, jobs, mic, takes, t)
  BY DEF Tokens, OneEach
<1>8. CASE Works(n) /\ rollers' = rollers \cup {n}
  <2>1. /\ InQueue(inbox, msg.take) /\ ~InQueue(Tail(inbox), msg.take)
        /\ ~InRollers(rollers, msg.take) /\ ~InJobs(jobs, msg.take) /\ ~InMic(mic, msg.take)
        /\ Undelivered(takes, msg.take)
    BY <1>4, <1>6, <1>7, <1>8 DEF OnePlace
  <2>2. /\ OneRoller(rollers')
        /\ \A t : InRollers(rollers', t) => InRollers(rollers, t) \/ n.take = t
    BY <1>6, <1>8, <2>1, RollerAdded DEF Tokens, OneEach
  <2>3. \A t : Undelivered(takes, t) => Undelivered(takes', t)
    BY <1>3 DEF SameCounts, Undelivered
  <2>4. OnePlace(Tail(inbox), rollers', jobs, mic, takes', msg.take)
    BY <2>1, <2>3 DEF OnePlace
  <2>5. OneEach(Tail(inbox), rollers', jobs, mic, takes')
    BY <1>4, <1>6, <2>2, <2>3, <2>4, OneEachMove DEF Tokens, OneEach
  <2>6. QED BY <1>2, <1>3, <2>5 DEF Tokens
<1>9. CASE ~Works(n) \/ rollers' = rollers
  <2>1. OneRoller(rollers') /\ \A t : InRollers(rollers', t) => InRollers(rollers, t)
    BY <1>5, <1>9, RollerAdded DEF Tokens, OneEach
  <2>2. OneEach(Tail(inbox), rollers', jobs, mic, takes')
    BY <1>3, <1>4, <2>1, OneEachLess DEF Tokens, OneEach
  <2>3. QED BY <1>2, <1>3, <2>2 DEF Tokens
<1>10. QED BY <1>5, <1>8, <1>9

(* A worker told to finish holds what it held.                              *)
LEMMA FinishTokens ==
  ASSUME TypeOK, OneRoller(rollers), NEW t0,
         rollers' = {IF r.take = t0 /\ r.phase = "live"
                     THEN [r EXCEPT !.phase = "finish"] ELSE r : r \in rollers}
  PROVE  OneRoller(rollers') /\ \A t : InRollers(rollers', t) => InRollers(rollers, t)
<1>1. ASSUME NEW s \in rollers'
      PROVE  \E r \in rollers :
        /\ s = IF r.take = t0 /\ r.phase = "live" THEN [r EXCEPT !.phase = "finish"] ELSE r
        /\ s.take = r.take /\ (Works(s) => Works(r))
  <2>1. PICK r \in rollers :
          s = IF r.take = t0 /\ r.phase = "live" THEN [r EXCEPT !.phase = "finish"] ELSE r
    BY <1>1
  <2>2. r \in [take: Nat, epoch: Nat, audio: BOOLEAN, phase: RollerPhases]
    BY DEF TypeOK
  <2>3. CASE r.take = t0 /\ r.phase = "live"
    <3>1. s = [r EXCEPT !.phase = "finish"]
      BY <2>1, <2>3
    <3>2. s.take = r.take /\ s.audio = r.audio /\ r.phase # "late"
      BY <2>2, <2>3, <3>1
    <3>3. QED BY <2>1, <3>2 DEF Works
  <2>4. CASE ~(r.take = t0 /\ r.phase = "live")
    BY <2>1, <2>4
  <2>5. QED BY <2>3, <2>4
<1>2. QED BY <1>1 DEF OneRoller, InRollers

LEMMA StoppedTokens ==
  ASSUME TypeOK, Tokens, Stopped
  PROVE  Tokens' /\ SameCounts(takes, takes')
<1>1. takes \in Seq(TakeRecord) /\ inbox \in Seq(Message)
  BY DEF TypeOK
<1>2. /\ inbox # <<>> /\ inbox' = Tail(inbox) /\ UNCHANGED mic
      /\ msg.kind = "Stopped" /\ msg = Head(inbox)
  BY DEF Stopped, Receive, Handled, replyFrame, msg
<1>3. SameCounts(takes, takes')
  <2>1. takes' = takes \/ takes' = Resolve(takes, msg.take, "lost")
    BY DEF Stopped
  <2>2. SameCounts(takes, takes)
    BY DEF SameCounts
  <2>3. QED BY <1>1, <2>1, <2>2, ResolveCounts
<1>4. /\ OneMessage(Tail(inbox)) /\ \A t : InQueue(Tail(inbox), t) => InQueue(inbox, t)
      /\ Carries(msg) => InQueue(inbox, msg.take) /\ ~InQueue(Tail(inbox), msg.take)
  BY <1>1, <1>2, QueueTail DEF Tokens, OneEach
<1>5. CASE UNCHANGED jobs
  <2>1. \/ rollers' = rollers
        \/ rollers' = {IF r.take = rolling_in /\ r.phase = "live"
                       THEN [r EXCEPT !.phase = "finish"] ELSE r : r \in rollers}
    BY DEF Stopped
  <2>2. OneRoller(rollers') /\ \A t : InRollers(rollers', t) => InRollers(rollers, t)
    BY <2>1, FinishTokens DEF Tokens, OneEach
  <2>3. OneEach(Tail(inbox), rollers', jobs, mic, takes')
    BY <1>3, <1>4, <2>2, OneEachLess DEF Tokens, OneEach
  <2>4. QED BY <1>2, <1>3, <1>5, <2>3 DEF Tokens
<1>6. CASE jobs' # jobs
  <2> DEFINE n == [stage |-> "asr", take |-> msg.take, listen |-> pending_listen,
                   audio |-> msg.audio]
  <2>1. jobs' = jobs \cup {n} /\ rollers' = rollers
    BY <1>6 DEF Stopped
  <2>2. n.take = msg.take /\ (Runs(n) => Carries(msg))
    BY <1>2 DEF Runs, Carries
  <2> HIDE DEF n
  <2>3. \A t : OnePlace(inbox, rollers, jobs, mic, takes, t)
    BY DEF Tokens, OneEach
  <2>4. CASE Runs(n)
    <3>1. /\ InQueue(inbox, msg.take) /\ ~InQueue(Tail(inbox), msg.take)
          /\ ~InRollers(rollers, msg.take) /\ ~InJobs(jobs, msg.take) /\ ~InMic(mic, msg.take)
          /\ Undelivered(takes, msg.take)
      BY <1>4, <2>2, <2>3, <2>4 DEF OnePlace
    <3>2. OneJob(jobs') /\ \A t : InJobs(jobs', t) => InJobs(jobs, t) \/ n.take = t
      BY <2>1, <2>2, <3>1, JobAdded DEF Tokens, OneEach
    <3>3. \A t : Undelivered(takes, t) => Undelivered(takes', t)
      BY <1>3 DEF SameCounts, Undelivered
    <3>4. OnePlace(Tail(inbox), rollers, jobs', mic, takes', msg.take)
      BY <3>1, <3>3 DEF OnePlace
    <3>5. OneEach(Tail(inbox), rollers, jobs', mic, takes')
      BY <1>4, <2>2, <3>2, <3>3, <3>4, OneEachMove DEF Tokens, OneEach
    <3>6. QED BY <1>2, <1>3, <2>1, <3>5 DEF Tokens
  <2>5. CASE ~Runs(n)
    <3>1. OneJob(jobs') /\ \A t : InJobs(jobs', t) => InJobs(jobs, t)
      BY <2>1, <2>5, JobAdded DEF Tokens, OneEach
    <3>2. OneEach(Tail(inbox), rollers, jobs', mic, takes')
      BY <1>3, <1>4, <3>1, OneEachLess DEF Tokens, OneEach
    <3>3. QED BY <1>2, <1>3, <2>1, <3>2 DEF Tokens
  <2>6. QED BY <2>4, <2>5
<1>7. QED BY <1>5, <1>6

(* Disconnected: the Stopped the coordinator sends itself.                  *)
LEMMA DisconnectedTokens ==
  ASSUME TypeOK, Tokens, Disconnected
  PROVE  Tokens' /\ SameCounts(takes, takes')
<1>1. takes \in Seq(TakeRecord) /\ inbox \in Seq(Message)
  BY DEF TypeOK
<1>2. /\ inbox # <<>> /\ UNCHANGED <<mic, rollers, jobs>>
      /\ msg.kind = "Disconnected" /\ msg = Head(inbox) /\ Tail(inbox) \in Seq(Message)
  BY <1>1, HeadTailProperties DEF Disconnected, Receive, replyFrame, msg
<1>3. SameCounts(takes, takes')
  <2>1. takes' = takes \/ takes' = Resolve(AfterDrop(takes), msg.take, "lost")
    BY DEF Disconnected
  <2>2. SameCounts(takes, takes)
    BY DEF SameCounts
  <2>3. SameCounts(takes, AfterDrop(takes)) /\ AfterDrop(takes) \in Seq(TakeRecord)
    BY <1>1, ResolveCounts, AfterDropType DEF AfterDrop
  <2>4. SameCounts(AfterDrop(takes), Resolve(AfterDrop(takes), msg.take, "lost"))
    BY <2>3, ResolveCounts
  <2>5. QED BY <2>1, <2>2, <2>3, <2>4, SameCountsTrans
<1>4. /\ OneMessage(Tail(inbox)) /\ \A t : InQueue(Tail(inbox), t) => InQueue(inbox, t)
      /\ Carries(msg) => InQueue(inbox, msg.take) /\ ~InQueue(Tail(inbox), msg.take)
  BY <1>1, <1>2, QueueTail DEF Tokens, OneEach
<1> DEFINE n == StoppedMsg(msg.take, FALSE, msg.audio /\ rolling_in = 0)
<1>5. inbox' = Tail(inbox) \/ inbox' = Append(Tail(inbox), n)
  BY DEF Disconnected, Handled
<1>6. n.take = msg.take /\ (Carries(n) => Carries(msg))
  BY <1>2 DEF Carries, StoppedMsg, Blank
<1> HIDE DEF n
<1>7. /\ OneMessage(inbox')
      /\ \A t : InQueue(inbox', t) => InQueue(Tail(inbox), t) \/ (Carries(n) /\ n.take = t)
  BY <1>2, <1>4, <1>5, <1>6, QueueAppend
<1>8. \A t : InQueue(inbox', t) => InQueue(inbox, t)
  BY <1>4, <1>6, <1>7
<1>9. OneEach(inbox', rollers, jobs, mic, takes')
  BY <1>3, <1>7, <1>8, OneEachLess DEF Tokens, OneEach
<1>10. QED BY <1>2, <1>3, <1>9 DEF Tokens

-----------------------------------------------------------------------------
(* One delivery, of a take that had none.                                   *)
OneMore(ts, us, t) ==
  /\ Undelivered(ts, t) /\ DOMAIN us = DOMAIN ts
  /\ \A s \in DOMAIN ts : us[s].deliveries = ts[s].deliveries + (IF s = t THEN 1 ELSE 0)

LEMMA OneMoreOthers ==
  ASSUME NEW ts \in Seq(TakeRecord), NEW us, NEW t, OneMore(ts, us, t)
  PROVE  \A s : s # t => (Undelivered(ts, s) => Undelivered(us, s))
<1>1. \A s \in DOMAIN ts : ts[s] \in [fate: Fates, listen: Nat, deliveries: Nat]
  BY LenProperties, ElementOfSeq DEF TakeRecord
<1>2. \A s \in DOMAIN ts : ts[s].deliveries \in Nat
  BY <1>1
<1>3. \A s \in DOMAIN ts : s # t => us[s].deliveries = ts[s].deliveries
  BY <1>2 DEF OneMore
<1>4. QED BY <1>3 DEF OneMore, Undelivered

Bearer(m) == Carries(m) /\ m.kind \in {"Final", "TranscribeResult", "CleanupDone"}

(* Text that arrives is delivered, or handed on to be cleaned up.           *)
LEMMA TextTokens ==
  ASSUME TypeOK, Tokens, inbox # <<>>, inbox' = Tail(inbox), UNCHANGED <<rollers, mic>>,
         Bearer(msg), NEW l,
         \/ jobs' = jobs /\ takes' = Deliver(takes, msg.take)
         \/ /\ jobs' = jobs \cup {[stage |-> "clean", take |-> msg.take, listen |-> l,
                                   audio |-> TRUE]}
            /\ takes' = takes
  PROVE  Tokens' /\ (SameCounts(takes, takes') \/ OneMore(takes, takes', msg.take))
<1>1. takes \in Seq(TakeRecord) /\ inbox \in Seq(Message) /\ msg = Head(inbox)
  BY DEF TypeOK, msg
<1>2. /\ OneMessage(Tail(inbox)) /\ \A t : InQueue(Tail(inbox), t) => InQueue(inbox, t)
      /\ InQueue(inbox, msg.take) /\ ~InQueue(Tail(inbox), msg.take)
  BY <1>1, QueueTail DEF Tokens, OneEach, Bearer
<1>3. OnePlace(inbox, rollers, jobs, mic, takes, msg.take)
  BY DEF Tokens, OneEach
<1>4. /\ ~InRollers(rollers, msg.take) /\ ~InJobs(jobs, msg.take) /\ ~InMic(mic, msg.take)
      /\ Undelivered(takes, msg.take)
  BY <1>2, <1>3 DEF OnePlace
<1>5. CASE jobs' = jobs /\ takes' = Deliver(takes, msg.take)
  <2>1. OneMore(takes, takes', msg.take)
    BY <1>1, <1>4, <1>5, DeliverCounts DEF OneMore
  <2>2. \A s : s # msg.take => (Undelivered(takes, s) => Undelivered(takes', s))
    BY <1>1, <2>1, OneMoreOthers
  <2>3. OnePlace(Tail(inbox), rollers, jobs, mic, takes', msg.take)
    BY <1>2, <1>4 DEF OnePlace
  <2>4. OneEach(Tail(inbox), rollers, jobs, mic, takes')
    BY <1>2, <2>2, <2>3, OneEachMove DEF Tokens, OneEach
  <2>5. QED BY <1>5, <2>1, <2>4 DEF Tokens
<1>6. CASE /\ jobs' = jobs \cup {[stage |-> "clean", take |-> msg.take, listen |-> l,
                                  audio |-> TRUE]}
           /\ takes' = takes
  <2> DEFINE n == [stage |-> "clean", take |-> msg.take, listen |-> l, audio |-> TRUE]
  <2>1. n.take = msg.take /\ jobs' = jobs \cup {n}
    BY <1>6
  <2> HIDE DEF n
  <2>2. OneJob(jobs') /\ \A t : InJobs(jobs', t) => InJobs(jobs, t) \/ msg.take = t
    BY <1>4, <2>1, JobAdded DEF Tokens, OneEach
  <2>3. OnePlace(Tail(inbox), rollers, jobs', mic, takes, msg.take)
    BY <1>2, <1>4 DEF OnePlace
  <2>4. \A t : t # msg.take => /\ InQueue(Tail(inbox), t) => InQueue(inbox, t)
                               /\ InJobs(jobs', t) => InJobs(jobs, t)
    BY <1>2, <2>2
  <2>5. OneEach(inbox, rollers, jobs, mic, takes) /\ OneRoller(rollers)
    BY DEF Tokens, OneEach
  <2>6. OneEach(Tail(inbox), rollers, jobs', mic, takes)
    BY <1>2, <2>2, <2>3, <2>4, <2>5, OneEachMove
  <2>7. QED BY <1>6, <2>6 DEF Tokens, SameCounts
<1>7. QED BY <1>5, <1>6

(* Everything else lets go.                                                 *)
LEMMA LetGo ==
  ASSUME TypeOK, Tokens, inbox # <<>>, inbox' = Tail(inbox),
         UNCHANGED <<rollers, mic, jobs>>, SameCounts(takes, takes')
  PROVE  Tokens'
<1>1. OneMessage(Tail(inbox)) /\ \A t : InQueue(Tail(inbox), t) => InQueue(inbox, t)
  BY QueueTail DEF TypeOK, Tokens, OneEach
<1>2. OneEach(Tail(inbox), rollers, jobs, mic, takes')
  BY <1>1, OneEachLess DEF Tokens, OneEach
<1>3. QED BY <1>2 DEF Tokens

LEMMA PipelineTokens ==
  ASSUME TypeOK, Tokens, inbox # <<>>, inbox' = Tail(inbox), UNCHANGED <<rollers, mic>>,
         NEW l, NEW b \in BOOLEAN, b => Bearer(msg),
         \/ run_pipeline(msg.take, l, b)
         \/ finalize_dictation(msg.take, l, b) /\ UNCHANGED jobs
  PROVE  /\ Tokens'
         /\ SameCounts(takes, takes') \/ (Bearer(msg) /\ OneMore(takes, takes', msg.take))
<1>1. CASE b
  <2>1. \/ jobs' = jobs /\ takes' = Deliver(takes, msg.take)
        \/ /\ jobs' = jobs \cup {[stage |-> "clean", take |-> msg.take, listen |-> l,
                                  audio |-> TRUE]}
           /\ takes' = takes
    BY <1>1 DEF run_pipeline, finalize_dictation
  <2>2. QED BY <1>1, <2>1, TextTokens
<1>2. CASE ~b
  <2>1. jobs' = jobs /\ takes' = Resolve(takes, msg.take, "settled")
    BY <1>2 DEF run_pipeline, finalize_dictation
  <2>2. SameCounts(takes, takes')
    BY <2>1, ResolveCounts DEF TypeOK
  <2>3. QED BY <2>1, <2>2, LetGo
<1>3. QED BY <1>1, <1>2

LEMMA BearingTokens ==
  ASSUME TypeOK, Tokens, RollingFinal \/ TranscribeResult \/ CleanupDone
  PROVE  /\ Tokens'
         /\ SameCounts(takes, takes') \/ (Bearer(msg) /\ OneMore(takes, takes', msg.take))
<1>1. inbox # <<>> /\ inbox' = Tail(inbox) /\ UNCHANGED <<rollers, mic>>
  BY DEF RollingFinal, TranscribeResult, CleanupDone, Receive, Handled, resultFrame, replyFrame
<1>2. CASE RollingFinal
  <2>1. msg.kind = "Final"
    BY <1>2 DEF RollingFinal, Receive
  <2>2. (msg.out = "text") \in BOOLEAN /\ (msg.out = "text" => Bearer(msg))
    BY <2>1 DEF Bearer, Carries
  <2>3. CASE run_pipeline(msg.take, pending_rolling.listen, msg.out = "text")
    BY <1>1, <2>2, <2>3, PipelineTokens
  <2>4. CASE ~run_pipeline(msg.take, pending_rolling.listen, msg.out = "text")
    <3>1. UNCHANGED jobs /\ \E f : takes' = Resolve(takes, msg.take, f)
      BY <1>2, <2>4 DEF RollingFinal
    <3>2. SameCounts(takes, takes')
      BY <3>1, ResolveCounts DEF TypeOK
    <3>3. QED BY <1>1, <3>1, <3>2, LetGo
  <2>5. QED BY <2>3, <2>4
<1>3. CASE TranscribeResult
  <2>1. msg.kind = "TranscribeResult"
    BY <1>3 DEF TranscribeResult, Receive
  <2>2. (msg.out = "text") \in BOOLEAN /\ (msg.out = "text" => Bearer(msg))
    BY <2>1 DEF Bearer, Carries
  <2>3. CASE run_pipeline(msg.take, msg.listen, msg.out = "text")
    BY <1>1, <2>2, <2>3, PipelineTokens
  <2>4. CASE ~run_pipeline(msg.take, msg.listen, msg.out = "text")
    <3>1. UNCHANGED jobs /\ takes' = Resolve(takes, msg.take, "settled")
      BY <1>3, <2>4 DEF TranscribeResult
    <3>2. SameCounts(takes, takes')
      BY <3>1, ResolveCounts DEF TypeOK
    <3>3. QED BY <1>1, <3>1, <3>2, LetGo
  <2>5. QED BY <2>3, <2>4
<1>4. CASE CleanupDone
  <2>1. Bearer(msg)
    BY <1>4 DEF CleanupDone, Receive, Bearer, Carries
  <2>2. finalize_dictation(msg.take, msg.listen, TRUE) /\ UNCHANGED jobs
    BY <1>4 DEF CleanupDone
  <2>3. QED BY <1>1, <2>1, <2>2, PipelineTokens
<1>5. QED BY <1>2, <1>3, <1>4

LEMMA PanicTokens ==
  ASSUME TypeOK, Tokens, CoordinatorPanic
  PROVE  Tokens' /\ SameCounts(takes, takes')
<1>1. takes \in Seq(TakeRecord)
  BY DEF TypeOK
<1>2. /\ inbox # <<>> /\ inbox' = Tail(inbox) /\ UNCHANGED <<rollers, mic, jobs>>
      /\ takes' = Resolve(AfterDrop(takes), msg.take, "lost")
  BY DEF CoordinatorPanic, Handled
<1>3. SameCounts(takes, AfterDrop(takes)) /\ AfterDrop(takes) \in Seq(TakeRecord)
  BY <1>1, ResolveCounts, AfterDropType DEF AfterDrop
<1>4. SameCounts(AfterDrop(takes), Resolve(AfterDrop(takes), msg.take, "lost"))
  BY <1>3, ResolveCounts
<1>5. SameCounts(takes, takes')
  BY <1>2, <1>3, <1>4, SameCountsTrans
<1>6. QED BY <1>2, <1>5, LetGo

-----------------------------------------------------------------------------
(* A thread that sends what it held.                                        *)
LEMMA SentOn ==
  ASSUME TypeOK, Tokens, NEW m, inbox' = Append(inbox, m),
         OneRoller(rollers'), OneJob(jobs'),
         \A t : /\ InRollers(rollers', t) => InRollers(rollers, t)
                /\ InJobs(jobs', t) => InJobs(jobs, t)
                /\ InMic(mic', t) => InMic(mic, t),
         SameCounts(takes, takes'),
         Carries(m) =>
           \/ InRollers(rollers, m.take) /\ ~InRollers(rollers', m.take)
           \/ InJobs(jobs, m.take) /\ ~InJobs(jobs', m.take)
           \/ InMic(mic, m.take) /\ ~InMic(mic', m.take)
  PROVE  Tokens'
<1>1. inbox \in Seq(Message) /\ OneMessage(inbox)
  BY DEF TypeOK, Tokens, OneEach
<1>2. OnePlace(inbox, rollers, jobs, mic, takes, m.take)
  BY DEF Tokens, OneEach
<1>3. Carries(m) => /\ ~InQueue(inbox, m.take) /\ Undelivered(takes, m.take)
                    /\ ~InRollers(rollers', m.take) /\ ~InJobs(jobs', m.take)
                    /\ ~InMic(mic', m.take)
  BY <1>2 DEF OnePlace
<1>4. /\ OneMessage(inbox')
      /\ \A t : InQueue(inbox', t) => InQueue(inbox, t) \/ (Carries(m) /\ m.take = t)
  BY <1>1, <1>3, QueueAppend
<1>5. \A t : Undelivered(takes, t) => Undelivered(takes', t)
  BY DEF SameCounts, Undelivered
<1>6. CASE Carries(m)
  <2>1. OnePlace(inbox', rollers', jobs', mic', takes', m.take)
    BY <1>3, <1>5, <1>6 DEF OnePlace
  <2>2. \A t : t # m.take => /\ InQueue(inbox', t) => InQueue(inbox, t)
                             /\ InRollers(rollers', t) => InRollers(rollers, t)
                             /\ InJobs(jobs', t) => InJobs(jobs, t)
                             /\ InMic(mic', t) => InMic(mic, t)
                             /\ Undelivered(takes, t) => Undelivered(takes', t)
    BY <1>4, <1>5
  <2>3. OneEach(inbox', rollers', jobs', mic', takes')
    BY <1>4, <2>1, <2>2, OneEachMove DEF Tokens
  <2>4. QED BY <2>3 DEF Tokens
<1>7. CASE ~Carries(m)
  <2>1. \A t : InQueue(inbox', t) => InQueue(inbox, t)
    BY <1>4, <1>7
  <2>2. OneEach(inbox', rollers', jobs', mic', takes')
    BY <1>4, <2>1, OneEachLess DEF Tokens
  <2>3. QED BY <2>2 DEF Tokens
<1>8. QED BY <1>6, <1>7

LEMMA Unchanged ==
  ASSUME Tokens
  PROVE  /\ OneRoller(rollers) /\ OneJob(jobs) /\ OneMessage(inbox)
         /\ SameCounts(takes, takes)
BY DEF Tokens, OneEach, SameCounts

LEMMA WorkerTokens ==
  ASSUME TypeOK, Tokens, AudioWorkerNext
  PROVE  /\ Tokens'
         /\ SameCounts(takes, takes') \/ \E n : n.deliveries = 0 /\ takes' = Append(takes, n)
<1>0. UNCHANGED <<rollers, jobs>> /\ takes \in Seq(TakeRecord) /\ inbox \in Seq(Message)
  BY DEF TypeOK, AudioWorkerNext, OpenMic, OpenFails, AckIdle, IgnoreStart, StopRecording,
     CancelRecording, AutoStop, DeviceLost, workerFrame, threads
<1>1. CASE OpenMic
  <2> DEFINE u == Len(takes) + 1
             b == Head(cmds).rolling
             n == [fate |-> "capturing", listen |-> Head(cmds).listen, deliveries |-> 0]
             m == StartedMsg(u, b)
  <2>1. /\ mic' = Mic(u, b) /\ takes' = Append(takes, n) /\ inbox' = Append(inbox, m)
        /\ ~mic.on /\ n.deliveries = 0
    BY <1>1 DEF OpenMic, Reply
  <2>2. m.take = u /\ (Carries(m) <=> b)
    BY DEF StartedMsg, Blank, Carries
  <2>3. \A t : InMic(mic', t) <=> (t = u /\ ~b)
    BY <2>1 DEF InMic, Mic
  <2> HIDE DEF n, m, b
  <2>4. /\ Len(takes) \in Nat /\ DOMAIN takes = 1..Len(takes)
        /\ DOMAIN takes' = 1..u
        /\ \A i \in 1..Len(takes) : takes'[i] = takes[i]
        /\ takes'[u] = n
    BY <1>0, <2>1, AppendAt
  <2>5. u \notin DOMAIN takes /\ u \in DOMAIN takes'
    BY <2>4
  <2>6. (\A t : Undelivered(takes, t) => Undelivered(takes', t)) /\ Undelivered(takes', u)
    <3>1. \A t \in DOMAIN takes : t \in DOMAIN takes' /\ takes'[t] = takes[t]
      BY <2>4
    <3>2. QED BY <2>1, <2>4, <2>5, <3>1 DEF Undelivered
  <2> HIDE DEF u
  <2>7. OnePlace(inbox, rollers, jobs, mic, takes, u)
    BY DEF Tokens, OneEach
  <2>8. ~InQueue(inbox, u) /\ ~InRollers(rollers, u) /\ ~InJobs(jobs, u)
    BY <2>5, <2>7 DEF OnePlace, Undelivered
  <2>9. /\ OneMessage(inbox')
        /\ \A t : InQueue(inbox', t) => InQueue(inbox, t) \/ (Carries(m) /\ m.take = t)
    BY <1>0, <2>1, <2>2, <2>8, QueueAppend DEF Tokens, OneEach
  <2>10. OnePlace(inbox', rollers, jobs, mic', takes', u)
    BY <2>2, <2>3, <2>6, <2>8, <2>9 DEF OnePlace
  <2>11. \A t : t # u => /\ InQueue(inbox', t) => InQueue(inbox, t)
                         /\ InMic(mic', t) => InMic(mic, t)
                         /\ Undelivered(takes, t) => Undelivered(takes', t)
    BY <2>2, <2>3, <2>6, <2>9
  <2>12. OneEach(inbox', rollers, jobs, mic', takes')
    BY <2>9, <2>10, <2>11, OneEachMove, Unchanged DEF Tokens
  <2>13. QED BY <1>0, <2>1, <2>12 DEF Tokens
<1>2. CASE OpenFails \/ AckIdle
  <2>1. PICK k \in {"Error", "NotRecording"} : inbox' = Append(inbox, Plain(k))
    BY <1>2 DEF OpenFails, AckIdle, Reply
  <2>2. UNCHANGED <<mic, takes>> /\ ~Carries(Plain(k))
    BY <1>2, <2>1 DEF OpenFails, AckIdle, Carries, Plain, Blank
  <2>3. SameCounts(takes, takes')
    BY <2>2 DEF SameCounts
  <2>4. QED BY <1>0, <2>1, <2>2, <2>3, SentOn, Unchanged
<1>3. CASE IgnoreStart
  <2>1. UNCHANGED <<mic, takes, inbox>>
    BY <1>3 DEF IgnoreStart
  <2>2. QED BY <1>0, <2>1 DEF SameCounts, Tokens
<1>4. CASE StopRecording \/ AutoStop \/ DeviceLost \/ CancelRecording
  <2>1. mic.on /\ mic' = NoMic /\ \E f : takes' = [takes EXCEPT ![mic.take].fate = f]
    BY <1>4 DEF StopRecording, AutoStop, DeviceLost, CancelRecording, CloseMic
  <2>2. SameCounts(takes, takes')
    <3>1. PICK f : takes' = [takes EXCEPT ![mic.take].fate = f]
      BY <2>1
    <3>2. QED BY <1>0, <3>1, FateCounts
  <2>3. \E b, c : \/ inbox' = Append(inbox, StoppedMsg(mic.take, b, ~mic.rolling))
                  \/ inbox' = Append(inbox, DisconnectedMsg(mic.take, b, c /\ ~mic.rolling))
                  \/ inbox' = Append(inbox, CancelledMsg(mic.take))
    <3>1. CASE DeviceLost
      BY <3>1 DEF DeviceLost, Reply
    <3>2. CASE ~DeviceLost
      BY <1>4, <3>2 DEF StopRecording, AutoStop, CancelRecording, Reply
    <3>3. QED BY <3>1, <3>2
  <2>4. PICK m : /\ inbox' = Append(inbox, m) /\ m.take = mic.take
                 /\ Carries(m) => ~mic.rolling
    <3>1. \A b, c : /\ StoppedMsg(mic.take, b, ~mic.rolling).take = mic.take
                    /\ Carries(StoppedMsg(mic.take, b, ~mic.rolling)) => ~mic.rolling
                    /\ DisconnectedMsg(mic.take, b, c /\ ~mic.rolling).take = mic.take
                    /\ Carries(DisconnectedMsg(mic.take, b, c /\ ~mic.rolling)) => ~mic.rolling
                    /\ CancelledMsg(mic.take).take = mic.take
                    /\ ~Carries(CancelledMsg(mic.take))
      BY DEF StoppedMsg, DisconnectedMsg, CancelledMsg, Blank, Carries
    <3>2. QED BY <2>3, <3>1
  <2>5. (\A t : ~InMic(mic', t)) /\ (Carries(m) => InMic(mic, m.take))
    BY <2>1, <2>4 DEF InMic, NoMic
  <2>6. QED BY <1>0, <2>2, <2>4, <2>5, SentOn, Unchanged
<1>5. QED BY <1>1, <1>2, <1>3, <1>4 DEF AudioWorkerNext

LEMMA RollerGone ==
  ASSUME NEW R, OneRoller(R), NEW r \in R
  PROVE  /\ OneRoller(R \ {r})
         /\ \A t : InRollers(R \ {r}, t) => InRollers(R, t)
         /\ Works(r) => InRollers(R, r.take) /\ ~InRollers(R \ {r}, r.take)
BY DEF OneRoller, InRollers

LEMMA JobGone ==
  ASSUME NEW J, OneJob(J), NEW j \in J
  PROVE  /\ OneJob(J \ {j})
         /\ \A t : InJobs(J \ {j}, t) => InJobs(J, t)
         /\ Runs(j) => InJobs(J, j.take) /\ ~InJobs(J \ {j}, j.take)
BY DEF OneJob, InJobs

LEMMA RollerTokens ==
  ASSUME TypeOK, Tokens, RollerNext \/ RollerFails
  PROVE  Tokens' /\ UNCHANGED takes
<1>1. UNCHANGED <<takes, jobs, mic>>
  BY DEF RollerNext, RollerFails, RollerFinal, RollerPartial, RollerLate, RollerPanicsLate,
     RollerAbandoned, RollerDies, threadFrame, history
<1>2. PICK r \in rollers :
        RollerFinal(r) \/ RollerLate(r) \/ RollerAbandoned(r) \/ RollerPartial(r)
        \/ RollerPanicsLate(r) \/ RollerDies(r)
  BY DEF RollerNext, RollerFails
<1>3. /\ OneRoller(rollers \ {r})
      /\ \A t : InRollers(rollers \ {r}, t) => InRollers(rollers, t)
      /\ Works(r) => InRollers(rollers, r.take) /\ ~InRollers(rollers \ {r}, r.take)
  BY RollerGone, Unchanged
<1>4. /\ OneRoller(rollers')
      /\ \A t : InRollers(rollers', t) => InRollers(rollers \ {r}, t)
  <2>1. CASE rollers' = rollers \ {r}
    BY <1>3, <2>1
  <2>2. CASE rollers' = (rollers \ {r}) \cup {[r EXCEPT !.phase = "late"]}
    <3> DEFINE n == [r EXCEPT !.phase = "late"]
    <3>1. r \in [take: Nat, epoch: Nat, audio: BOOLEAN, phase: RollerPhases]
      BY DEF TypeOK
    <3>2. n.phase = "late" /\ rollers' = (rollers \ {r}) \cup {n}
      BY <2>2, <3>1
    <3>3. ~Works(n)
      BY <3>2 DEF Works
    <3> HIDE DEF n
    <3>4. QED BY <1>3, <3>2, <3>3, RollerAdded
  <2>3. QED BY <1>2, <2>1, <2>2 DEF RollerFinal, RollerPartial, RollerLate, RollerPanicsLate,
     RollerAbandoned, RollerDies
<1>5. \/ inbox' = inbox
      \/ \E m : inbox' = Append(inbox, m) /\ (Carries(m) => Works(r) /\ m.take = r.take)
  <2>1. \A o \in Texts(r) : o = "text" => r.audio
    BY DEF Texts
  <2>2. \A b, o : /\ FinalMsg(r.take, r.epoch, b, o).take = r.take
                  /\ FinalMsg(r.take, r.epoch, b, o).out = o
                  /\ ~Carries(LateMsg(r.take, r.epoch, o))
                  /\ ~Carries(LostMsg(r.take, r.epoch))
                  /\ o # "text" => ~Carries(FinalMsg(r.take, r.epoch, b, o))
    BY DEF FinalMsg, LateMsg, LostMsg, Blank, Carries
  <2>3. CASE RollerFinal(r) \/ RollerPartial(r)
    <3>1. PICK b \in BOOLEAN, o \in Texts(r) : inbox' = Append(inbox, FinalMsg(r.take, r.epoch, b, o))
      BY <2>3 DEF RollerFinal, RollerPartial, Reply
    <3>2. r.phase = "finish"
      BY <2>3 DEF RollerFinal, RollerPartial
    <3>3. Carries(FinalMsg(r.take, r.epoch, b, o)) => Works(r)
      BY <2>1, <2>2, <3>2 DEF Works
    <3>4. QED BY <2>2, <3>1, <3>3
  <2>4. CASE RollerLate(r)
    BY <2>2, <2>4 DEF RollerLate, Reply
  <2>5. CASE RollerPanicsLate(r)
    <3>1. "empty" # "text"
      OBVIOUS
    <3>2. QED BY <2>2, <2>5, <3>1 DEF RollerPanicsLate, Reply
  <2>6. CASE RollerAbandoned(r) \/ RollerDies(r)
    BY <2>2, <2>6 DEF RollerAbandoned, RollerDies, Reply
  <2>7. QED BY <1>2, <2>3, <2>4, <2>5, <2>6
<1>6. CASE inbox' = inbox
  <2>1. \A t : InRollers(rollers', t) => InRollers(rollers, t)
    BY <1>3, <1>4
  <2>2. OneEach(inbox, rollers', jobs, mic, takes)
    BY <1>4, <2>1, OneEachLess, Unchanged DEF Tokens
  <2>3. QED BY <1>1, <1>6, <2>2 DEF Tokens
<1>7. CASE inbox' # inbox
  <2>1. PICK m : inbox' = Append(inbox, m) /\ (Carries(m) => Works(r) /\ m.take = r.take)
    BY <1>5, <1>7
  <2>2. Carries(m) => InRollers(rollers, m.take) /\ ~InRollers(rollers', m.take)
    BY <1>3, <1>4, <2>1
  <2>3. \A t : InRollers(rollers', t) => InRollers(rollers, t)
    BY <1>3, <1>4
  <2>4. QED BY <1>1, <1>4, <2>1, <2>2, <2>3, SentOn, Unchanged
<1>8. QED BY <1>1, <1>6, <1>7

LEMMA JobTokens ==
  ASSUME TypeOK, Tokens, JobNext \/ JobFails
  PROVE  Tokens' /\ UNCHANGED takes
<1>1. UNCHANGED <<takes, rollers, mic>>
  BY DEF JobNext, JobFails, AsrDone, AsrFails, CleanDone, threadFrame, history
<1>2. PICK j \in jobs : AsrDone(j) \/ AsrFails(j) \/ CleanDone(j)
  BY DEF JobNext, JobFails
<1>3. jobs' = jobs \ {j}
  BY <1>2 DEF AsrDone, AsrFails, CleanDone
<1>4. /\ OneJob(jobs')
      /\ \A t : InJobs(jobs', t) => InJobs(jobs, t)
      /\ Runs(j) => InJobs(jobs, j.take) /\ ~InJobs(jobs', j.take)
  BY <1>3, JobGone, Unchanged
<1>5. \E m : inbox' = Append(inbox, m) /\ (Carries(m) => Runs(j) /\ m.take = j.take)
  <2>1. \A o : /\ ResultMsg(j.take, j.listen, o).take = j.take
               /\ o # "text" => ~Carries(ResultMsg(j.take, j.listen, o))
               /\ CleanupDoneMsg(j.take, j.listen).take = j.take
    BY DEF ResultMsg, CleanupDoneMsg, Blank, Carries
  <2>2. CASE AsrDone(j)
    <3>1. PICK o : /\ inbox' = Append(inbox, ResultMsg(j.take, j.listen, o))
                   /\ o = "text" => j.audio
      BY <2>2 DEF AsrDone, Reply
    <3>2. QED BY <2>1, <3>1 DEF Runs
  <2>3. CASE AsrFails(j)
    <3>1. "error" # "text" /\ inbox' = Append(inbox, ResultMsg(j.take, j.listen, "error"))
      BY <2>3 DEF AsrFails, Reply
    <3>2. QED BY <2>1, <3>1
  <2>4. CASE CleanDone(j)
    BY <2>1, <2>4 DEF CleanDone, Reply, Runs
  <2>5. QED BY <1>2, <2>2, <2>3, <2>4
<1>6. PICK m : inbox' = Append(inbox, m) /\ (Carries(m) => Runs(j) /\ m.take = j.take)
  BY <1>5
<1>7. Carries(m) => InJobs(jobs, m.take) /\ ~InJobs(jobs', m.take)
  BY <1>4, <1>6
<1>8. QED BY <1>1, <1>4, <1>6, <1>7, SentOn, Unchanged

LEMMA OtherTokens ==
  ASSUME TypeOK, Tokens, EnvNext \/ TimerNext \/ FinisherNext \/ UNCHANGED vars
  PROVE  Tokens' /\ UNCHANGED takes
<1>1. UNCHANGED <<takes, rollers, jobs, mic>>
  <2>1. CASE EnvNext
    BY <2>1 DEF EnvNext, PressKey, ReleaseKey, OtherKey, PressEscape, FlowCancel, TrayToggle,
       FlowListen, ToggleRollingSetting, inputFrame, threads
  <2>2. CASE TimerNext
    BY <2>2 DEF TimerNext, TimerWakes, TimerSeesState, TimerStarts, timerFrame
  <2>3. CASE FinisherNext
    BY <2>3 DEF FinisherNext, FinishIdle, FinishClear, finishFrame, history
  <2>4. CASE UNCHANGED vars
    BY <2>4 DEF vars, threads, history
  <2>5. QED BY <2>1, <2>2, <2>3, <2>4
<1>2. \/ inbox' = inbox
      \/ \E m : inbox' = Append(inbox, m) /\ ~Carries(m)
  <2>1. \A k \in {"HoldKeyPressed", "HoldKeyReleased", "OtherKeyDuringHold",
                  "CancelRequested", "TrayToggleDictation"} :
          ~Carries(Plain(k)) /\ ~Carries([Plain(k) EXCEPT !.flag = TRUE])
    BY DEF Plain, Blank, Carries
  <2>2. \A l : ~Carries(DaemonListenMsg(l))
    BY DEF DaemonListenMsg, Blank, Carries
  <2>3. CASE EnvNext
    BY <2>1, <2>2, <2>3 DEF EnvNext, PressKey, ReleaseKey, OtherKey, PressEscape, FlowCancel,
       TrayToggle, FlowListen, ToggleRollingSetting, Reply
  <2>4. CASE TimerNext \/ FinisherNext \/ UNCHANGED vars
    BY <2>4 DEF TimerNext, TimerWakes, TimerSeesState, TimerStarts, timerFrame,
       FinisherNext, FinishIdle, FinishClear, finishFrame, vars
  <2>5. QED BY <2>3, <2>4
<1>3. CASE inbox' = inbox
  BY <1>1, <1>3 DEF Tokens
<1>4. CASE \E m : inbox' = Append(inbox, m) /\ ~Carries(m)
  <2>1. PICK m : inbox' = Append(inbox, m) /\ ~Carries(m)
    BY <1>4
  <2>2. QED BY <1>1, <2>1, SentOn, Unchanged
<1>5. QED BY <1>1, <1>2, <1>3, <1>4

-----------------------------------------------------------------------------
LEMMA TokensInit == Init => Tokens
<1> SUFFICES ASSUME Init PROVE Tokens
  OBVIOUS
<1>1. DOMAIN inbox = {} /\ rollers = {} /\ jobs = {} /\ ~mic.on
  BY DEF Init, NoMic
<1>2. \A t : /\ ~InQueue(inbox, t) /\ ~InRollers(rollers, t)
             /\ ~InJobs(jobs, t) /\ ~InMic(mic, t)
  BY <1>1 DEF InQueue, InRollers, InJobs, InMic
<1>3. OneMessage(inbox) /\ OneRoller(rollers) /\ OneJob(jobs)
  BY <1>1 DEF OneMessage, OneRoller, OneJob
<1>4. QED BY <1>2, <1>3 DEF Tokens, OneEach, OnePlace

(* No step delivers a take that has been delivered.                         *)
CountStep ==
  \/ SameCounts(takes, takes')
  \/ Bearer(msg) /\ inbox # <<>> /\ CoordinatorNext /\ OneMore(takes, takes', msg.take)
  \/ AudioWorkerNext /\ \E n : n.deliveries = 0 /\ takes' = Append(takes, n)

LEMMA TokensStep ==
  ASSUME TypeOK, Tokens, [Next]_vars
  PROVE  Tokens' /\ CountStep
<1>1. UNCHANGED takes => SameCounts(takes, takes')
  BY DEF SameCounts
<1>2. CASE CoordinatorNext
  <2>1. CASE RollingFinal \/ TranscribeResult \/ CleanupDone
    <3>1. inbox # <<>>
      BY <1>2, HandlerInbox
    <3>2. QED BY <1>2, <2>1, <3>1, BearingTokens DEF CountStep
  <2>2. CASE Started
    BY <2>2, StartedTokens DEF CountStep
  <2>3. CASE Stopped
    BY <2>3, StoppedTokens DEF CountStep
  <2>4. CASE Disconnected
    BY <2>4, DisconnectedTokens DEF CountStep
  <2>5. CASE \/ HoldKeyPressed \/ HoldKeyReleased \/ OtherKeyDuringHold \/ CancelRequested
             \/ TrayToggleDictation \/ DaemonListen
             \/ Cancelled \/ NotRecording \/ AudioError \/ RollingLate \/ RollingWorkerLost
    BY <2>5, SilentHandlers DEF CountStep
  <2>6. QED BY <1>2, <2>1, <2>2, <2>3, <2>4, <2>5 DEF CoordinatorNext
<1>3. CASE CoordinatorPanic
  BY <1>3, PanicTokens DEF CountStep
<1>4. CASE AudioWorkerNext
  BY <1>4, WorkerTokens DEF CountStep
<1>5. CASE RollerNext \/ RollerFails
  BY <1>1, <1>5, RollerTokens DEF CountStep
<1>6. CASE JobNext \/ JobFails
  BY <1>1, <1>6, JobTokens DEF CountStep
<1>7. CASE EnvNext \/ TimerNext \/ FinisherNext \/ UNCHANGED vars
  BY <1>1, <1>7, OtherTokens DEF CountStep
<1>8. QED BY <1>2, <1>3, <1>4, <1>5, <1>6, <1>7 DEF Next

AtMostOne == \A t \in DOMAIN takes : takes[t].deliveries <= 1

LEMMA AtMostOneStep ==
  ASSUME TypeOK, AtMostOne, CountStep
  PROVE  AtMostOne'
<1>1. takes \in Seq(TakeRecord) /\ DOMAIN takes = 1..Len(takes) /\ Len(takes) \in Nat
  BY LenProperties DEF TypeOK
<1>2. CASE SameCounts(takes, takes')
  BY <1>2 DEF SameCounts, AtMostOne
<1>3. CASE OneMore(takes, takes', msg.take)
  <2> SUFFICES ASSUME NEW t \in DOMAIN takes' PROVE takes'[t].deliveries <= 1
    BY DEF AtMostOne
  <2>1. takes[t] \in [fate: Fates, listen: Nat, deliveries: Nat] /\ t \in DOMAIN takes
    BY <1>1, <1>3, ElementOfSeq DEF TakeRecord, OneMore
  <2>2. takes[t].deliveries \in Nat /\ takes[t].deliveries <= 1
    BY <2>1 DEF AtMostOne
  <2>3. CASE t = msg.take
    <3>1. takes[t].deliveries = 0 /\ takes'[t].deliveries = takes[t].deliveries + 1
      BY <1>3, <2>1, <2>3 DEF OneMore, Undelivered
    <3>2. QED BY <3>1
  <2>4. CASE t # msg.take
    <3>1. takes'[t].deliveries = takes[t].deliveries + 0
      BY <1>3, <2>1, <2>4 DEF OneMore
    <3>2. QED BY <2>2, <3>1
  <2>5. QED BY <2>3, <2>4
<1>4. CASE \E n : n.deliveries = 0 /\ takes' = Append(takes, n)
  <2>1. PICK n : n.deliveries = 0 /\ takes' = Append(takes, n)
    BY <1>4
  <2>2. /\ DOMAIN takes' = 1..(Len(takes) + 1)
        /\ \A i \in 1..Len(takes) : takes'[i] = takes[i]
        /\ takes'[Len(takes) + 1] = n
    BY <1>1, <2>1, AppendAt
  <2> SUFFICES ASSUME NEW t \in DOMAIN takes' PROVE takes'[t].deliveries <= 1
    BY DEF AtMostOne
  <2>3. CASE t \in 1..Len(takes)
    BY <1>1, <2>2, <2>3 DEF AtMostOne
  <2>4. CASE t = Len(takes) + 1
    <3>1. takes'[t].deliveries = 0
      BY <2>1, <2>2, <2>4
    <3>2. QED BY <3>1
  <2>5. QED BY <1>1, <2>2, <2>3, <2>4
<1>5. QED BY <1>2, <1>3, <1>4 DEF CountStep

-----------------------------------------------------------------------------
(* What is on its way to a delivery is of a take that was stopped, not of   *)
(* one under way or thrown away.                                            *)
Ripe(ts, t) == t \in DOMAIN ts /\ ts[t].fate \notin {"capturing", "discarded"}

RipeMessages ==
  \A i \in DOMAIN inbox :
    inbox[i].kind = "Stopped" \/ Bearer(inbox[i]) => Ripe(takes, inbox[i].take)
RipeRollers ==
  \A r \in rollers : Works(r) /\ r.phase = "finish" => Ripe(takes, r.take)
RipeJobs == \A j \in jobs : Runs(j) => Ripe(takes, j.take)

(* No words of a take under way or thrown away have been delivered.         *)
NoneFromUnripe ==
  \A t \in DOMAIN takes : takes[t].fate \in {"capturing", "discarded"} =>
    takes[t].deliveries = 0

RipeInv == RipeMessages /\ RipeRollers /\ RipeJobs /\ NoneFromUnripe

LEMMA RipeInit == Init => RipeInv
BY DEF Init, RipeInv, RipeMessages, RipeRollers, RipeJobs, NoneFromUnripe

(* A take that was stopped stays so.                                        *)
LEMMA RipeKept ==
  ASSUME TypeOK, Capturing, [Next]_vars
  PROVE  \A t : Ripe(takes, t) => Ripe(takes', t)
<1>1. takes \in Seq(TakeRecord) /\ DOMAIN takes = 1..Len(takes) /\ Len(takes) \in Nat
      /\ DOMAIN takes' = 1..Len(takes')
  <2>1. TypeOK'
    BY TypeStep
  <2>2. QED BY <2>1, LenProperties DEF TypeOK
<1>2. CASE CoordinatorNext \/ CoordinatorPanic
  <2>1. OwedResolved(takes, takes')
    BY <1>2, HandlerTakes
  <2>2. QED BY <1>1, <2>1 DEF OwedResolved, Resolved, Ripe
<1>3. CASE AudioWorkerNext
  <2>1. CASE OpenMic
    <3>1. PICK n : takes' = Append(takes, n)
      BY <2>1 DEF OpenMic
    <3>2. /\ DOMAIN takes' = 1..(Len(takes) + 1)
          /\ \A i \in 1..Len(takes) : takes'[i] = takes[i]
      BY <1>1, <3>1, AppendAt
    <3>3. \A i \in DOMAIN takes : i \in DOMAIN takes' /\ takes'[i] = takes[i]
      BY <1>1, <3>2
    <3>4. QED BY <3>3 DEF Ripe
  <2>2. CASE OpenFails \/ AckIdle \/ IgnoreStart
    BY <2>2 DEF OpenFails, AckIdle, IgnoreStart
  <2>3. CASE StopRecording \/ CancelRecording \/ AutoStop \/ DeviceLost
    <3>1. PICK f : takes' = [takes EXCEPT ![mic.take].fate = f]
      BY <2>3 DEF StopRecording, CancelRecording, AutoStop, DeviceLost, CloseMic
    <3>2. mic.on
      BY <2>3 DEF StopRecording, CancelRecording, AutoStop, DeviceLost
    <3>3. ~Ripe(takes, mic.take)
      BY <3>2 DEF Capturing, Ripe
    <3>4. DOMAIN takes' = DOMAIN takes /\ \A s \in DOMAIN takes : s # mic.take =>
                                             takes'[s].fate = takes[s].fate
      BY <1>1, <3>1, FateLen
    <3>5. QED BY <3>3, <3>4 DEF Ripe
  <2>4. QED BY <1>3, <2>1, <2>2, <2>3 DEF AudioWorkerNext
<1>4. CASE RollerNext \/ RollerFails
  BY <1>4, RollerFrame
<1>5. CASE JobNext \/ JobFails
  BY <1>5, JobFrame
<1>6. CASE EnvNext
  BY <1>6, EnvFrame
<1>7. CASE TimerNext
  BY <1>7, TimerFrame
<1>8. CASE FinisherNext
  BY <1>8, FinisherFrame
<1>9. CASE UNCHANGED vars
  BY <1>9, StutterFrame
<1>10. QED BY <1>2, <1>3, <1>4, <1>5, <1>6, <1>7, <1>8, <1>9 DEF Next

(* Messages stay ripe, and one that is sent is.                             *)
LEMMA RipeSent ==
  ASSUME TypeOK, RipeMessages, \A t : Ripe(takes, t) => Ripe(takes', t),
         NEW m, inbox' = Append(inbox, m),
         m.kind = "Stopped" \/ Bearer(m) => Ripe(takes', m.take)
  PROVE  RipeMessages'
<1>1. /\ DOMAIN inbox = 1..Len(inbox) /\ DOMAIN inbox' = 1..(Len(inbox) + 1)
      /\ Len(inbox) \in Nat
      /\ \A i \in 1..Len(inbox) : inbox'[i] = inbox[i]
      /\ inbox'[Len(inbox) + 1] = m
  BY AppendAt DEF TypeOK
<1>2. \A i \in DOMAIN inbox' : \/ i \in DOMAIN inbox /\ inbox'[i] = inbox[i]
                               \/ inbox'[i] = m
  BY <1>1
<1>3. QED BY <1>2 DEF RipeMessages

LEMMA RipeRead ==
  ASSUME TypeOK, RipeMessages, \A t : Ripe(takes, t) => Ripe(takes', t),
         inbox # <<>>, inbox' = Tail(inbox)
  PROVE  /\ RipeMessages'
         /\ msg.kind = "Stopped" \/ Bearer(msg) => Ripe(takes, msg.take)
<1>1. /\ DOMAIN inbox = 1..Len(inbox) /\ DOMAIN inbox' = 1..(Len(inbox) - 1)
      /\ Len(inbox) \in Nat \ {0} /\ msg = inbox[1]
      /\ \A i \in 1..(Len(inbox) - 1) : inbox'[i] = inbox[i + 1]
  BY TailAt DEF TypeOK, msg
<1>2. \A i \in DOMAIN inbox' : i + 1 \in DOMAIN inbox /\ inbox'[i] = inbox[i + 1]
  BY <1>1
<1>3. 1 \in DOMAIN inbox
  BY <1>1
<1>4. QED BY <1>1, <1>2, <1>3 DEF RipeMessages

LEMMA HandlersRipe ==
  ASSUME TypeOK, Fifo, RipeInv, \A t : Ripe(takes, t) => Ripe(takes', t), CoordinatorNext
  PROVE  RipeMessages' /\ RipeRollers' /\ RipeJobs'
<1>1. inbox # <<>> /\ inbox' = Tail(inbox) /\ ~Disconnected
  BY NoneLostInbox DEF Fifo
<1>2. RipeMessages' /\ (msg.kind = "Stopped" \/ Bearer(msg) => Ripe(takes', msg.take))
  BY <1>1, RipeRead DEF RipeInv
<1>3. CASE Started
  <2> DEFINE n == [take |-> msg.take, epoch |-> NextEpoch, audio |-> msg.audio, phase |-> "live"]
  <2>1. n.phase = "live" /\ UNCHANGED jobs /\ (rollers' = rollers \cup {n} \/ rollers' = rollers)
    BY <1>3 DEF Started, SpawnRollingWorker
  <2> HIDE DEF n
  <2>2. \A r \in rollers' : r \in rollers \/ r.phase = "live"
    BY <2>1
  <2>3. QED BY <1>2, <2>1, <2>2 DEF RipeInv, RipeRollers, RipeJobs
<1>4. CASE Stopped
  <2>1. Ripe(takes', msg.take) /\ Ours(rolling_in, msg.take)
    <3>1. msg.kind = "Stopped"
      BY <1>4 DEF Stopped, Receive
    <3>2. QED BY <1>2, <1>4, <3>1, StoppedIsItsOwn
  <2>2. CASE rolling_in # 0
    <3>1. rolling_in = msg.take
      BY <2>1, <2>2 DEF Ours
    <3>2. /\ rollers' = {IF r.take = rolling_in /\ r.phase = "live"
                         THEN [r EXCEPT !.phase = "finish"] ELSE r : r \in rollers}
          /\ UNCHANGED jobs
      BY <1>4, <2>2 DEF Stopped
    <3>3. ASSUME NEW s \in rollers', Works(s), s.phase = "finish" PROVE Ripe(takes', s.take)
      <4>1. PICK r \in rollers :
              s = IF r.take = rolling_in /\ r.phase = "live"
                  THEN [r EXCEPT !.phase = "finish"] ELSE r
        BY <3>2
      <4>2. r \in [take: Nat, epoch: Nat, audio: BOOLEAN, phase: RollerPhases]
        BY DEF TypeOK
      <4>3. CASE r.take = rolling_in /\ r.phase = "live"
        <5>1. s.take = msg.take
          BY <3>1, <4>1, <4>2, <4>3
        <5>2. QED BY <2>1, <5>1
      <4>4. CASE ~(r.take = rolling_in /\ r.phase = "live")
        <5>1. s = r
          BY <4>1, <4>4
        <5>2. QED BY <3>3, <5>1 DEF RipeInv, RipeRollers
      <4>5. QED BY <4>3, <4>4
    <3>4. QED BY <1>2, <3>2, <3>3 DEF RipeInv, RipeRollers, RipeJobs
  <2>3. CASE rolling_in = 0
    <3> DEFINE n == [stage |-> "asr", take |-> msg.take, listen |-> pending_listen,
                     audio |-> msg.audio]
    <3>1. n.take = msg.take /\ UNCHANGED rollers /\ (jobs' = jobs \cup {n} \/ jobs' = jobs)
      BY <1>4, <2>3 DEF Stopped
    <3> HIDE DEF n
    <3>2. \A j \in jobs' : j \in jobs \/ j.take = msg.take
      BY <3>1
    <3>3. QED BY <1>2, <2>1, <3>1, <3>2 DEF RipeInv, RipeRollers, RipeJobs
  <2>4. QED BY <2>2, <2>3
<1>5. CASE RollingFinal \/ TranscribeResult
  <2>1. UNCHANGED rollers
    BY <1>5 DEF RollingFinal, TranscribeResult, resultFrame
  <2>2. \/ UNCHANGED jobs
        \/ Bearer(msg) /\ \E n : n.take = msg.take /\ jobs' = jobs \cup {n}
    <3>1. \A l, b : run_pipeline(msg.take, l, b) =>
            UNCHANGED jobs \/ (b /\ \E n : n.take = msg.take /\ jobs' = jobs \cup {n})
      <4> TAKE l, b
      <4> DEFINE n == [stage |-> "clean", take |-> msg.take, listen |-> l, audio |-> TRUE]
      <4>1. n.take = msg.take /\
              (run_pipeline(msg.take, l, b) =>
                 UNCHANGED jobs \/ (b /\ jobs' = jobs \cup {n}))
        BY DEF run_pipeline
      <4> HIDE DEF n
      <4>2. QED BY <4>1
    <3>2. \/ UNCHANGED jobs
          \/ msg.kind \in {"Final", "TranscribeResult"} /\
             \E l : run_pipeline(msg.take, l, msg.out = "text")
      BY <1>5 DEF RollingFinal, TranscribeResult, Receive
    <3>3. msg.kind \in {"Final", "TranscribeResult"} /\ msg.out = "text" => Bearer(msg)
      BY DEF Bearer, Carries
    <3>4. QED BY <3>1, <3>2, <3>3
  <2>3. \A j \in jobs' : j \in jobs \/ (Bearer(msg) /\ j.take = msg.take)
    BY <2>2
  <2>4. QED BY <1>2, <2>1, <2>3 DEF RipeInv, RipeRollers, RipeJobs
<1>6. CASE \/ HoldKeyPressed \/ HoldKeyReleased \/ OtherKeyDuringHold \/ CancelRequested
           \/ TrayToggleDictation \/ DaemonListen
           \/ Cancelled \/ NotRecording \/ AudioError \/ RollingLate \/ RollingWorkerLost
           \/ CleanupDone
  <2>1. UNCHANGED <<rollers, jobs>>
    BY <1>6 DEF HoldKeyPressed, HoldKeyReleased, OtherKeyDuringHold, CancelRequested,
       TrayToggleDictation, DaemonListen, Cancelled, NotRecording, AudioError, RollingLate,
       RollingWorkerLost, CleanupDone, gestureFrame, resultFrame
  <2>2. QED BY <1>2, <2>1 DEF RipeInv, RipeRollers, RipeJobs
<1>7. QED BY <1>1, <1>3, <1>4, <1>5, <1>6 DEF CoordinatorNext

LEMMA WorkerRipe ==
  ASSUME TypeOK, Capturing, RipeInv, "lost" \notin Faults,
         \A t : Ripe(takes, t) => Ripe(takes', t), AudioWorkerNext
  PROVE  RipeMessages' /\ RipeRollers' /\ RipeJobs'
<1>1. RipeRollers' /\ RipeJobs'
  BY WorkerFrame DEF RipeInv, RipeRollers, RipeJobs
<1>2. CASE inbox' = inbox
  BY <1>1, <1>2 DEF RipeInv, RipeMessages
<1>3. CASE StopRecording \/ AutoStop
  <2>1. PICK b, c : inbox' = Append(inbox, StoppedMsg(mic.take, b, c))
    BY <1>3 DEF StopRecording, AutoStop, Reply
  <2> DEFINE m == StoppedMsg(mic.take, b, c)
  <2>2. m.take = mic.take /\ inbox' = Append(inbox, m)
    BY <2>1 DEF StoppedMsg, Blank
  <2> HIDE DEF m
  <2>3. takes' = [takes EXCEPT ![mic.take].fate = "captured"] /\ mic.take \in DOMAIN takes
    BY <1>3 DEF StopRecording, AutoStop, CloseMic, Capturing
  <2>4. Ripe(takes', mic.take)
    <3>1. takes'[mic.take].fate = "captured" /\ mic.take \in DOMAIN takes'
      BY <2>3, FateLen DEF TypeOK
    <3>2. QED BY <3>1 DEF Ripe
  <2>5. QED BY <1>1, <2>2, <2>4, RipeSent DEF RipeInv
<1>4. CASE OpenMic \/ OpenFails \/ AckIdle \/ CancelRecording
  <2>1. PICK m : /\ inbox' = Append(inbox, m)
                 /\ \/ \E t, b : m = StartedMsg(t, b)
                    \/ \E k \in {"Error", "NotRecording"} : m = Plain(k)
                    \/ \E t : m = CancelledMsg(t)
    BY <1>4 DEF OpenMic, OpenFails, AckIdle, CancelRecording, Reply
  <2>2. m.kind \in {"Started", "Error", "NotRecording", "Cancelled"}
    BY <2>1 DEF StartedMsg, Plain, CancelledMsg, Blank
  <2>3. m.kind # "Stopped" /\ ~Bearer(m)
    BY <2>2 DEF Bearer
  <2>4. QED BY <1>1, <2>1, <2>3, RipeSent DEF RipeInv
<1>5. CASE IgnoreStart
  BY <1>2, <1>5, <1>1 DEF IgnoreStart
<1>6. CASE DeviceLost
  BY <1>6 DEF DeviceLost, Fault
<1>7. QED BY <1>1, <1>3, <1>4, <1>5, <1>6 DEF AudioWorkerNext

LEMMA RollersRipe ==
  ASSUME TypeOK, RipeInv, RollerNext \/ RollerFails
  PROVE  RipeMessages' /\ RipeRollers' /\ RipeJobs'
<1>1. UNCHANGED <<takes, jobs>>
  BY RollerFrame
<1>2. PICK r \in rollers :
        RollerFinal(r) \/ RollerLate(r) \/ RollerAbandoned(r) \/ RollerPartial(r)
        \/ RollerPanicsLate(r) \/ RollerDies(r)
  BY DEF RollerNext, RollerFails
<1>3. \A s \in rollers' : s \in rollers \/ s.phase = "late"
  <2>1. r \in [take: Nat, epoch: Nat, audio: BOOLEAN, phase: RollerPhases]
    BY DEF TypeOK
  <2>2. [r EXCEPT !.phase = "late"].phase = "late"
    BY <2>1
  <2>3. CASE RollerPartial(r)
    <3>1. rollers' = (rollers \ {r}) \cup {[r EXCEPT !.phase = "late"]}
      BY <2>3 DEF RollerPartial
    <3>2. QED BY <2>2, <3>1
  <2>4. CASE ~RollerPartial(r)
    BY <1>2, <2>4 DEF RollerFinal, RollerLate, RollerPanicsLate, RollerAbandoned, RollerDies
  <2>5. QED BY <2>3, <2>4
<1>4. RipeRollers' /\ RipeJobs'
  BY <1>1, <1>3 DEF RipeInv, RipeRollers, RipeJobs
<1>5. \/ inbox' = inbox
      \/ \E m : /\ inbox' = Append(inbox, m) /\ m.kind # "Stopped"
                /\ Bearer(m) => Works(r) /\ r.phase = "finish" /\ m.take = r.take
  <2>1. \A o \in Texts(r) : o = "text" => r.audio
    BY DEF Texts
  <2>2. \A b, o : /\ FinalMsg(r.take, r.epoch, b, o).take = r.take
                  /\ FinalMsg(r.take, r.epoch, b, o).kind = "Final"
                  /\ LateMsg(r.take, r.epoch, o).kind = "Late"
                  /\ LostMsg(r.take, r.epoch).kind = "RollingWorkerLost"
                  /\ o # "text" => ~Carries(FinalMsg(r.take, r.epoch, b, o))
    BY DEF FinalMsg, LateMsg, LostMsg, Blank, Carries
  <2>3. CASE RollerFinal(r) \/ RollerPartial(r)
    <3>1. PICK b \in BOOLEAN, o \in Texts(r) :
            inbox' = Append(inbox, FinalMsg(r.take, r.epoch, b, o))
      BY <2>3 DEF RollerFinal, RollerPartial, Reply
    <3>2. r.phase = "finish"
      BY <2>3 DEF RollerFinal, RollerPartial
    <3>3. Carries(FinalMsg(r.take, r.epoch, b, o)) => Works(r)
      BY <2>1, <2>2, <3>2 DEF Works
    <3> DEFINE m == FinalMsg(r.take, r.epoch, b, o)
    <3>4. /\ inbox' = Append(inbox, m) /\ m.kind = "Final" /\ m.take = r.take
          /\ Carries(m) => Works(r)
      BY <2>2, <3>1, <3>3
    <3> HIDE DEF m
    <3>5. QED BY <3>2, <3>4 DEF Bearer
  <2>4. CASE RollerLate(r)
    <3>1. inbox' = inbox \/ \E m : inbox' = Append(inbox, m) /\ m.kind = "Late"
      BY <2>2, <2>4 DEF RollerLate, Reply
    <3>2. QED BY <3>1 DEF Bearer
  <2>5. CASE RollerPanicsLate(r)
    <3>1. "empty" # "text"
      OBVIOUS
    <3>2. \E m : inbox' = Append(inbox, m) /\ m.kind = "Final" /\ ~Carries(m)
      BY <2>2, <2>5, <3>1 DEF RollerPanicsLate, Reply
    <3>3. QED BY <3>2 DEF Bearer
  <2>6. CASE RollerAbandoned(r) \/ RollerDies(r)
    <3>1. \E m : inbox' = Append(inbox, m) /\ m.kind = "RollingWorkerLost"
      BY <2>2, <2>6 DEF RollerAbandoned, RollerDies, Reply
    <3>2. QED BY <3>1 DEF Bearer
  <2>7. QED BY <1>2, <2>3, <2>4, <2>5, <2>6
<1>6. CASE inbox' = inbox
  BY <1>1, <1>4, <1>6 DEF RipeInv, RipeMessages
<1>7. CASE inbox' # inbox
  <2>1. PICK m : /\ inbox' = Append(inbox, m) /\ m.kind # "Stopped"
                 /\ Bearer(m) => Works(r) /\ r.phase = "finish" /\ m.take = r.take
    BY <1>5, <1>7
  <2>2. Bearer(m) => Ripe(takes', m.take)
    BY <1>1, <2>1 DEF RipeInv, RipeRollers
  <2>3. QED BY <1>1, <1>4, <2>1, <2>2, RipeSent DEF RipeInv
<1>8. QED BY <1>6, <1>7

LEMMA JobsRipe ==
  ASSUME TypeOK, RipeInv, JobNext \/ JobFails
  PROVE  RipeMessages' /\ RipeRollers' /\ RipeJobs'
<1>1. UNCHANGED <<takes, rollers>>
  BY JobFrame
<1>2. PICK j \in jobs : AsrDone(j) \/ AsrFails(j) \/ CleanDone(j)
  BY DEF JobNext, JobFails
<1>3. jobs' = jobs \ {j}
  BY <1>2 DEF AsrDone, AsrFails, CleanDone
<1>4. RipeRollers' /\ RipeJobs'
  BY <1>1, <1>3 DEF RipeInv, RipeRollers, RipeJobs
<1>5. \E m : /\ inbox' = Append(inbox, m) /\ m.kind # "Stopped"
             /\ Bearer(m) => Runs(j) /\ m.take = j.take
  <2>1. \A o : /\ ResultMsg(j.take, j.listen, o).take = j.take
               /\ ResultMsg(j.take, j.listen, o).kind = "TranscribeResult"
               /\ o # "text" => ~Carries(ResultMsg(j.take, j.listen, o))
               /\ CleanupDoneMsg(j.take, j.listen).take = j.take
               /\ CleanupDoneMsg(j.take, j.listen).kind = "CleanupDone"
    BY DEF ResultMsg, CleanupDoneMsg, Blank, Carries
  <2>2. CASE AsrDone(j)
    <3>1. PICK o : /\ inbox' = Append(inbox, ResultMsg(j.take, j.listen, o))
                   /\ o = "text" => j.audio
      BY <2>2 DEF AsrDone, Reply
    <3>2. QED BY <2>1, <3>1 DEF Runs, Bearer
  <2>3. CASE AsrFails(j)
    <3>1. "error" # "text" /\ inbox' = Append(inbox, ResultMsg(j.take, j.listen, "error"))
      BY <2>3 DEF AsrFails, Reply
    <3>2. QED BY <2>1, <3>1 DEF Bearer
  <2>4. CASE CleanDone(j)
    BY <2>1, <2>4 DEF CleanDone, Reply, Runs
  <2>5. QED BY <1>2, <2>2, <2>3, <2>4
<1>6. PICK m : /\ inbox' = Append(inbox, m) /\ m.kind # "Stopped"
               /\ Bearer(m) => Runs(j) /\ m.take = j.take
  BY <1>5
<1>7. Bearer(m) => Ripe(takes', m.take)
  BY <1>1, <1>6 DEF RipeInv, RipeJobs
<1>8. QED BY <1>1, <1>4, <1>6, <1>7, RipeSent DEF RipeInv

LEMMA EnvRipe ==
  ASSUME TypeOK, RipeInv, EnvNext
  PROVE  RipeMessages' /\ RipeRollers' /\ RipeJobs'
<1>1. UNCHANGED <<takes, rollers, jobs>>
  BY EnvFrame
<1>2. RipeRollers' /\ RipeJobs'
  BY <1>1 DEF RipeInv, RipeRollers, RipeJobs
<1>3. \A k \in {"HoldKeyPressed", "HoldKeyReleased", "OtherKeyDuringHold",
                "CancelRequested", "TrayToggleDictation"} :
        Plain(k).kind = k /\ [Plain(k) EXCEPT !.flag = TRUE].kind = k
  BY DEF Plain, Blank
<1>4. \A l : DaemonListenMsg(l).kind = "DaemonListen"
  BY DEF DaemonListenMsg, Blank
<1>5. \/ inbox' = inbox
      \/ \E m : /\ inbox' = Append(inbox, m)
                /\ m.kind \in {"HoldKeyPressed", "HoldKeyReleased", "OtherKeyDuringHold",
                               "CancelRequested", "TrayToggleDictation", "DaemonListen"}
  BY <1>3, <1>4 DEF EnvNext, PressKey, ReleaseKey, OtherKey, PressEscape, FlowCancel,
     TrayToggle, FlowListen, ToggleRollingSetting, Reply
<1>6. CASE inbox' = inbox
  BY <1>1, <1>2, <1>6 DEF RipeInv, RipeMessages
<1>7. CASE inbox' # inbox
  <2>1. PICK m : /\ inbox' = Append(inbox, m)
                 /\ m.kind \in {"HoldKeyPressed", "HoldKeyReleased", "OtherKeyDuringHold",
                                "CancelRequested", "TrayToggleDictation", "DaemonListen"}
    BY <1>5, <1>7
  <2>2. m.kind # "Stopped" /\ ~Bearer(m)
    BY <2>1 DEF Bearer
  <2>3. QED BY <1>1, <1>2, <2>1, <2>2, RipeSent DEF RipeInv
<1>8. QED BY <1>6, <1>7

LEMMA PanicRipe ==
  ASSUME TypeOK, RipeInv, \A t : Ripe(takes, t) => Ripe(takes', t), CoordinatorPanic
  PROVE  RipeMessages' /\ RipeRollers' /\ RipeJobs'
<1>1. inbox # <<>> /\ inbox' = Tail(inbox) /\ UNCHANGED <<rollers, jobs>>
  BY DEF CoordinatorPanic, Handled
<1>2. RipeMessages'
  BY <1>1, RipeRead DEF RipeInv
<1>3. QED BY <1>1, <1>2 DEF RipeInv, RipeRollers, RipeJobs

(* A delivery is of a take that is ripe, so none is of one that is not.     *)
LEMMA NoneFromUnripeStep ==
  ASSUME TypeOK, Capturing, RipeInv, CountStep, [Next]_vars
  PROVE  NoneFromUnripe'
<1>1. takes \in Seq(TakeRecord) /\ DOMAIN takes = 1..Len(takes) /\ Len(takes) \in Nat
  BY LenProperties DEF TypeOK
<1>2. \A t : Ripe(takes, t) => Ripe(takes', t)
  BY RipeKept
<1>3. \A t \in DOMAIN takes : takes'[t].fate \in {"capturing", "discarded"} /\ t \in DOMAIN takes'
                                => takes[t].fate \in {"capturing", "discarded"}
  BY <1>2 DEF Ripe
<1>4. CASE SameCounts(takes, takes')
  BY <1>3, <1>4 DEF SameCounts, NoneFromUnripe, RipeInv
<1>5. CASE Bearer(msg) /\ inbox # <<>> /\ CoordinatorNext /\ OneMore(takes, takes', msg.take)
  <2>1. Ripe(takes, msg.take)
    <3>1. 1 \in DOMAIN inbox /\ msg = inbox[1]
      BY <1>5, TailAt DEF msg, TypeOK
    <3>2. QED BY <1>5, <3>1 DEF RipeInv, RipeMessages
  <2>2. Ripe(takes', msg.take)
    BY <1>2, <2>1
  <2> SUFFICES ASSUME NEW t \in DOMAIN takes',
                      takes'[t].fate \in {"capturing", "discarded"}
               PROVE  takes'[t].deliveries = 0
    BY DEF NoneFromUnripe
  <2>3. t # msg.take
    BY <2>2 DEF Ripe
  <2>4. t \in DOMAIN takes /\ takes[t].deliveries = 0
    BY <1>3, <1>5 DEF OneMore, RipeInv, NoneFromUnripe
  <2>5. takes'[t].deliveries = takes[t].deliveries + 0
    BY <1>5, <2>3, <2>4 DEF OneMore
  <2>6. QED BY <2>4, <2>5
<1>6. CASE \E n : n.deliveries = 0 /\ takes' = Append(takes, n)
  <2>1. PICK n : n.deliveries = 0 /\ takes' = Append(takes, n)
    BY <1>6
  <2>2. /\ DOMAIN takes' = 1..(Len(takes) + 1)
        /\ \A i \in 1..Len(takes) : takes'[i] = takes[i]
        /\ takes'[Len(takes) + 1] = n
    BY <1>1, <2>1, AppendAt
  <2> SUFFICES ASSUME NEW t \in DOMAIN takes',
                      takes'[t].fate \in {"capturing", "discarded"}
               PROVE  takes'[t].deliveries = 0
    BY DEF NoneFromUnripe
  <2>3. CASE t \in 1..Len(takes)
    BY <1>1, <2>2, <2>3 DEF RipeInv, NoneFromUnripe
  <2>4. CASE t = Len(takes) + 1
    BY <2>1, <2>2, <2>4
  <2>5. QED BY <1>1, <2>2, <2>3, <2>4
<1>7. QED BY <1>4, <1>5, <1>6 DEF CountStep

LEMMA RipeStep ==
  ASSUME TypeOK, Fifo, TakesInOrder, RipeInv, CountStep, "lost" \notin Faults, [Next]_vars
  PROVE  RipeInv'
<1>1. Capturing
  BY DEF TakesInOrder
<1>2. NoneFromUnripe'
  BY <1>1, NoneFromUnripeStep
<1>3. \A t : Ripe(takes, t) => Ripe(takes', t)
  BY <1>1, RipeKept
<1>4. RipeMessages' /\ RipeRollers' /\ RipeJobs'
  <2>1. CASE CoordinatorNext
    BY <1>3, <2>1, HandlersRipe
  <2>2. CASE CoordinatorPanic
    BY <1>3, <2>2, PanicRipe
  <2>3. CASE AudioWorkerNext
    BY <1>1, <1>3, <2>3, WorkerRipe
  <2>4. CASE RollerNext \/ RollerFails
    BY <2>4, RollersRipe
  <2>5. CASE JobNext \/ JobFails
    BY <2>5, JobsRipe
  <2>6. CASE EnvNext
    BY <2>6, EnvRipe
  <2>7. CASE TimerNext \/ FinisherNext \/ UNCHANGED vars
    <3>1. UNCHANGED <<inbox, takes, rollers, jobs>>
      BY <2>7, TimerFrame, FinisherFrame, StutterFrame
    <3>2. QED BY <3>1 DEF RipeInv, RipeMessages, RipeRollers, RipeJobs
  <2>8. QED BY <2>1, <2>2, <2>3, <2>4, <2>5, <2>6, <2>7 DEF Next
<1>5. QED BY <1>2, <1>4 DEF RipeInv

OnceInv ==
  /\ Tokens /\ AtMostOne
  /\ "lost" \notin Faults => Fifo /\ TakesInOrder /\ RipeInv

LEMMA OnceInvInit == Init => OnceInv
<1> SUFFICES ASSUME Init PROVE OnceInv
  OBVIOUS
<1>1. inbox = <<>> /\ rolling_in = 0 /\ ~mic.on /\ takes = <<>>
  BY DEF Init, NoMic
<1>2. DOMAIN inbox = {} /\ DOMAIN takes = {} /\ Len(takes) = 0
  BY <1>1
<1>3. TakesInOrder
  BY <1>1, <1>2 DEF TakesInOrder, InOrder, Capturing
<1>4. AtMostOne
  BY <1>2 DEF AtMostOne
<1>5. QED BY <1>3, <1>4, TokensInit, FifoInit, RipeInit DEF OnceInv

(* DeliveredAtMostOnce: a take's samples, a worker or job that has them and *)
(* the text on its way back are never in two places, so no take is pasted   *)
(* or returned twice; and with no device lost, none that was not stopped.   *)
THEOREM DeliveredOnce == Spec => []DeliveredAtMostOnce
<1>1. Init => OnceInv
  BY OnceInvInit
<1>2. TypeOK /\ OnceInv /\ [Next]_vars => OnceInv'
  <2> SUFFICES ASSUME TypeOK, OnceInv, [Next]_vars PROVE OnceInv'
    OBVIOUS
  <2>1. Tokens' /\ CountStep
    BY TokensStep DEF OnceInv
  <2>2. AtMostOne'
    BY <2>1, AtMostOneStep DEF OnceInv
  <2>3. ASSUME "lost" \notin Faults PROVE Fifo' /\ TakesInOrder' /\ RipeInv'
    BY <2>1, <2>3, FifoStep, TakesInOrderStep, RipeStep DEF OnceInv
  <2>4. QED BY <2>1, <2>2, <2>3 DEF OnceInv
<1>3. OnceInv => DeliveredAtMostOnce
  BY DEF OnceInv, AtMostOne, RipeInv, NoneFromUnripe, DeliveredAtMostOnce
<1>4. QED BY <1>1, <1>2, <1>3, TypeCorrect, PTL DEF Spec

-----------------------------------------------------------------------------
(* Where a listen can wait: with the recording under way, the rolling       *)
(* dictation, a job, or a message.                                          *)
Nowhere(l) ==
  /\ pending_listen # l /\ pending_rolling.listen # l
  /\ \A j \in jobs : j.listen # l
  /\ \A i \in DOMAIN inbox : inbox[i].listen # l

Recorded(t, l) == t \in DOMAIN takes /\ takes[t].listen = l

(* It has had its answer, and no other will come.                           *)
Answered(l) ==
  /\ listens[l].status \in {"ok", "err"}
  /\ listens[l].status = "ok" => Recorded(listens[l].take, l)
  /\ Nowhere(l)

CloseKinds == {"Stopped", "Disconnected", "Cancelled", "Error"}
MarkedKinds == {"Started"} \cup CloseKinds \cup ResultKinds
NoStarts(c) == \A i \in DOMAIN c : c[i].kind # "Start"
NoneGoes == \A t \in timers : t.phase # "go"
NoJobs == jobs = {} /\ ~HasKind(inbox, ResultKinds)

(* The Started still to be handled, or the worker held, is that of take t.  *)
Announced(q, rin, t) ==
  /\ \A i \in DOMAIN q : q[i].kind = "Started" => q[i].take = t
  /\ HasKind(q, {"Started"}) \/ rin \in {0, t}

(* The one message that ends the recording comes after its Started.         *)
ClosesAt(q, rin, e) ==
  /\ e \in DOMAIN q /\ q[e].kind \in CloseKinds
  /\ \A i \in DOMAIN q : /\ q[i].kind \in CloseKinds => i = e
                         /\ q[i].kind = "Started" => i < e
  /\ q[e].kind \in {"Stopped", "Disconnected"} => Announced(q, rin, q[e].take)

(* The next command is the one Start, made for this listen.                 *)
StartsFor(c, l) ==
  /\ 1 \in DOMAIN c /\ c[1].kind = "Start" /\ c[1].listen = l
  /\ \A i \in DOMAIN c : c[i].kind = "Start" => i = 1

(* Its recording is asked for, under way, or over.                          *)
Queued(l) ==
  /\ ~mic.on /\ StartsFor(cmds, l)
  /\ ~HasKind(inbox, {"Started"} \cup CloseKinds)

UnderWay(l) ==
  /\ mic.on /\ Recorded(mic.take, l) /\ NoStarts(cmds)
  /\ ~HasKind(inbox, CloseKinds) /\ Announced(inbox, rolling_in, mic.take)

Over(l) ==
  /\ ~mic.on /\ NoStarts(cmds)
  /\ \E e \in DOMAIN inbox :
       /\ ClosesAt(inbox, rolling_in, e)
       /\ inbox[e].kind \in {"Stopped", "Disconnected"} => Recorded(inbox[e].take, l)

Records(l) ==
  /\ dictation_state = "Recording" /\ pending_listen = l
  /\ pending_rolling = NoPending /\ NoJobs
  /\ Queued(l) \/ UnderWay(l) \/ Over(l)

(* Its words are with a rolling worker, with a job, or on their way back.   *)
WithRoller(l) ==
  /\ pending_rolling.waiting /\ pending_rolling.listen = l
  /\ Recorded(pending_rolling.take, l)
  /\ \A x \in Bearers : x.epoch = pending_rolling.epoch => x.take = pending_rolling.take
  /\ NoJobs

WithJob(l) ==
  /\ pending_rolling = NoPending /\ ~HasKind(inbox, ResultKinds)
  /\ \E j \in jobs : jobs = {j} /\ j.listen = l /\ Recorded(j.take, l)

BackAt(q, e, l) ==
  /\ e \in DOMAIN q /\ q[e].kind \in ResultKinds /\ q[e].listen = l
  /\ \A i \in DOMAIN q : q[i].kind \in ResultKinds => i = e

ComesBack(l) ==
  /\ pending_rolling = NoPending /\ jobs = {}
  /\ \E e \in DOMAIN inbox : BackAt(inbox, e, l) /\ Recorded(inbox[e].take, l)

Transcribes(l) ==
  /\ dictation_state = "Transcribing" /\ pending_listen = 0
  /\ ~mic.on /\ NoStarts(cmds) /\ ~HasKind(inbox, {"Started"} \cup CloseKinds)
  /\ WithRoller(l) \/ WithJob(l) \/ ComesBack(l)

Served(l) ==
  /\ listens[l].status = "waiting" /\ NoneGoes
  /\ Records(l) \/ Transcribes(l)

(* A listen not yet accepted is asked for once; no other message has one.   *)
Asked(q, ls) ==
  /\ \A i \in DOMAIN q :
       /\ q[i].kind = "DaemonListen" => q[i].listen \in DOMAIN ls /\ ~ls[q[i].listen].alone
       /\ q[i].kind \notin {"DaemonListen"} \cup ResultKinds => q[i].listen = 0
  /\ \A i, j \in DOMAIN q :
       i # j /\ q[i].kind = "DaemonListen" /\ q[j].kind = "DaemonListen" =>
         q[i].listen # q[j].listen

(* A worker of the present epoch is the one whose sender is held.           *)
OwnWorkers ==
  \A x \in Bearers : /\ x.epoch <= rolling_epoch
                     /\ rolling_in # 0 /\ x.epoch = rolling_epoch => x.take = rolling_in

PendingOrNot == pending_rolling.waiting \/ pending_rolling = NoPending

(* Until it is accepted a listen is in its own message and nowhere else.    *)
OnlyAsked(q, k) == \A i \in DOMAIN q : q[i].listen = k => q[i].kind = "DaemonListen"

Untouched(k) ==
  /\ pending_listen # k /\ pending_rolling.listen # k
  /\ \A j \in jobs : j.listen # k
  /\ OnlyAsked(inbox, k)

AsksFor(q, k) == \E i \in DOMAIN q : q[i].kind = "DaemonListen" /\ q[i].listen = k

Fresh ==
  \A k \in Nat \ {0} :
    /\ k \notin DOMAIN listens => Untouched(k)
    /\ AsksFor(inbox, k) => Untouched(k) /\ listens[k].status = "waiting"

ListenInv ==
  /\ Asked(inbox, listens) /\ Fresh /\ OwnWorkers /\ PendingOrNot
  /\ \A l \in DOMAIN listens : listens[l].alone => Answered(l) \/ Served(l)

-----------------------------------------------------------------------------
LEMMA AnswerIs ==
  ASSUME NEW ls, NEW k, NEW a, NEW t
  PROVE  /\ DOMAIN Answer(ls, k, a, t) = DOMAIN ls
         /\ \A l \in DOMAIN ls : l # k => Answer(ls, k, a, t)[l] = ls[l]
         /\ \A l \in DOMAIN ls : Answer(ls, k, a, t)[l].alone = ls[l].alone
<1>1. CASE k = 0
  BY <1>1 DEF Answer
<1>2. CASE k # 0
  <2> DEFINE n == [status |-> a, take |-> t, alone |-> ls[k].alone]
             v == [ls EXCEPT ![k] = n]
  <2>1. Answer(ls, k, a, t) = v
    BY <1>2 DEF Answer
  <2>2. n.alone = ls[k].alone
    OBVIOUS
  <2>3. /\ DOMAIN v = DOMAIN ls
        /\ \A l \in DOMAIN ls : v[l] = IF l = k THEN n ELSE ls[l]
    OBVIOUS
  <2> HIDE DEF n, v
  <2>4. \A l \in DOMAIN ls : v[l].alone = ls[l].alone
    BY <2>2, <2>3
  <2>5. \A l \in DOMAIN ls : l # k => v[l] = ls[l]
    BY <2>3
  <2>6. QED BY <2>1, <2>3, <2>4, <2>5
<1>3. QED BY <1>1, <1>2

LEMMA AnswerGiven ==
  ASSUME NEW ls, NEW k \in DOMAIN ls, k # 0, NEW a, NEW t
  PROVE  Answer(ls, k, a, t)[k].status = a /\ Answer(ls, k, a, t)[k].take = t
BY DEF Answer

-----------------------------------------------------------------------------
(* These facts about the channels as messages enter and leave.              *)
LEMMA WithoutAppend ==
  ASSUME NEW q \in Seq(Message), NEW m, NEW K, ~HasKind(q, K), m.kind \notin K
  PROVE  ~HasKind(Append(q, m), K)
BY HasKindAppend

LEMMA WithoutTail ==
  ASSUME NEW q \in Seq(Message), q # <<>>, NEW K, ~HasKind(q, K)
  PROVE  ~HasKind(Tail(q), K) /\ Head(q).kind \notin K
<1>1. /\ Len(q) \in Nat \ {0} /\ DOMAIN q = 1..Len(q) /\ Head(q) = q[1]
      /\ DOMAIN Tail(q) = 1..(Len(q) - 1)
      /\ \A i \in 1..(Len(q) - 1) : Tail(q)[i] = q[i + 1]
  BY TailAt
<1>2. 1 \in DOMAIN q
  BY <1>1
<1>3. \A i \in DOMAIN Tail(q) : i + 1 \in DOMAIN q /\ Tail(q)[i] = q[i + 1]
  BY <1>1
<1>4. QED BY <1>1, <1>2, <1>3 DEF HasKind

LEMMA StartsAppend ==
  ASSUME NEW c \in Seq(AudioCommand), NEW e, e.kind # "Start", NoStarts(c)
  PROVE  NoStarts(Append(c, e))
<1>1. \A i \in DOMAIN Append(c, e) :
        (i \in DOMAIN c /\ Append(c, e)[i] = c[i]) \/ Append(c, e)[i] = e
  BY AppendAt
<1>2. QED BY <1>1 DEF NoStarts

LEMMA StartsTail ==
  ASSUME NEW c \in Seq(AudioCommand), c # <<>>
  PROVE  /\ NoStarts(c) => NoStarts(Tail(c)) /\ Head(c).kind # "Start"
         /\ (\A i \in DOMAIN c : c[i].kind = "Start" => i = 1) => NoStarts(Tail(c))
<1>1. /\ Len(c) \in Nat \ {0} /\ DOMAIN c = 1..Len(c) /\ Head(c) = c[1]
      /\ DOMAIN Tail(c) = 1..(Len(c) - 1)
      /\ \A i \in 1..(Len(c) - 1) : Tail(c)[i] = c[i + 1]
  BY TailAt
<1>2. 1 \in DOMAIN c
  BY <1>1
<1>3. \A i \in DOMAIN Tail(c) :
        i + 1 \in DOMAIN c /\ Tail(c)[i] = c[i + 1] /\ i + 1 # 1
  BY <1>1
<1>4. QED BY <1>1, <1>2, <1>3 DEF NoStarts

LEMMA AnnouncedAppend ==
  ASSUME NEW q \in Seq(Message), NEW m, m.kind # "Started", NEW rin, NEW t,
         Announced(q, rin, t)
  PROVE  Announced(Append(q, m), rin, t)
<1>1. \A i \in DOMAIN Append(q, m) :
        (i \in DOMAIN q /\ Append(q, m)[i] = q[i]) \/ Append(q, m)[i] = m
  BY AppendAt
<1>2. HasKind(q, {"Started"}) => HasKind(Append(q, m), {"Started"})
  BY HasKindAppend
<1>3. QED BY <1>1, <1>2 DEF Announced

HoldsOn(q, rin, rin1) ==
  \/ Head(q).kind # "Started" /\ rin1 \in {0, rin}
  \/ Head(q).kind = "Started" /\ rin1 \in {0, Head(q).take}

LEMMA AnnouncedTail ==
  ASSUME NEW q \in Seq(Message), q # <<>>, NEW rin, NEW rin1, NEW t,
         Announced(q, rin, t), HoldsOn(q, rin, rin1)
  PROVE  Announced(Tail(q), rin1, t)
<1>1. /\ Len(q) \in Nat \ {0} /\ DOMAIN q = 1..Len(q) /\ Head(q) = q[1]
      /\ DOMAIN Tail(q) = 1..(Len(q) - 1)
      /\ \A i \in 1..(Len(q) - 1) : Tail(q)[i] = q[i + 1]
  BY TailAt
<1>2. 1 \in DOMAIN q
  BY <1>1
<1>3. \A i \in DOMAIN Tail(q) : i + 1 \in DOMAIN q /\ Tail(q)[i] = q[i + 1]
  BY <1>1
<1>4. \A i \in DOMAIN Tail(q) : Tail(q)[i].kind = "Started" => Tail(q)[i].take = t
  BY <1>3 DEF Announced
<1>5. HasKind(Tail(q), {"Started"}) \/ rin1 \in {0, t}
  <2>1. CASE Head(q).kind = "Started"
    BY <1>1, <1>2, <2>1 DEF Announced, HoldsOn
  <2>2. CASE Head(q).kind # "Started"
    <3>1. Head(q).kind \notin {"Started"}
      BY <2>2
    <3>2. HasKind(q, {"Started"}) => HasKind(Tail(q), {"Started"})
      BY <3>1, HasKindTail
    <3>3. QED BY <2>2, <3>2 DEF Announced, HoldsOn
  <2>3. QED BY <2>1, <2>2
<1>6. QED BY <1>4, <1>5 DEF Announced

LEMMA ClosesAppend ==
  ASSUME NEW q \in Seq(Message), NEW m, m.kind \notin {"Started"} \cup CloseKinds,
         NEW rin, NEW e, ClosesAt(q, rin, e)
  PROVE  /\ ClosesAt(Append(q, m), rin, e) /\ e \in DOMAIN Append(q, m)
         /\ Append(q, m)[e] = q[e]
<1>1. /\ DOMAIN q \subseteq DOMAIN Append(q, m)
      /\ \A i \in DOMAIN q : Append(q, m)[i] = q[i]
      /\ \A i \in DOMAIN Append(q, m) :
           (i \in DOMAIN q /\ Append(q, m)[i] = q[i]) \/ Append(q, m)[i] = m
  BY AppendAt
<1>2. Announced(q, rin, q[e].take) => Announced(Append(q, m), rin, q[e].take)
  BY AnnouncedAppend
<1>3. QED BY <1>1, <1>2 DEF ClosesAt

LEMMA ClosesNow ==
  ASSUME NEW q \in Seq(Message), ~HasKind(q, CloseKinds), NEW m, m.kind \in CloseKinds,
         NEW rin, m.kind \in {"Stopped", "Disconnected"} => Announced(q, rin, m.take)
  PROVE  \E e \in DOMAIN Append(q, m) :
           ClosesAt(Append(q, m), rin, e) /\ Append(q, m)[e] = m
<1> DEFINE b == Append(q, m)
           e == Len(q) + 1
<1>1. /\ Len(q) \in Nat /\ DOMAIN q = 1..Len(q) /\ DOMAIN b = 1..(Len(q) + 1)
      /\ \A i \in 1..Len(q) : b[i] = q[i]
      /\ b[Len(q) + 1] = m
  BY AppendAt
<1>2. m.kind # "Started"
  BY DEF CloseKinds
<1>3. Announced(q, rin, m.take) => Announced(b, rin, m.take)
  BY <1>2, AnnouncedAppend
<1> HIDE DEF b
<1>4. \A i \in DOMAIN b : \/ i \in DOMAIN q /\ b[i] = q[i] /\ i < e
                          \/ i = e
  BY <1>1
<1>5. e \in DOMAIN b /\ b[e] = m
  BY <1>1
<1> HIDE DEF e
<1>6. ClosesAt(b, rin, e)
  BY <1>2, <1>3, <1>4, <1>5 DEF ClosesAt, HasKind
<1>7. QED BY <1>5, <1>6 DEF b

LEMMA ClosesTail ==
  ASSUME NEW q \in Seq(Message), q # <<>>, Head(q).kind \notin CloseKinds,
         NEW rin, NEW rin1, HoldsOn(q, rin, rin1), NEW e, ClosesAt(q, rin, e)
  PROVE  \E f \in DOMAIN Tail(q) : ClosesAt(Tail(q), rin1, f) /\ Tail(q)[f] = q[e]
<1> DEFINE b == Tail(q)
           f == e - 1
<1>1. /\ Len(q) \in Nat \ {0} /\ DOMAIN q = 1..Len(q) /\ Head(q) = q[1]
      /\ DOMAIN b = 1..(Len(q) - 1)
      /\ \A i \in 1..(Len(q) - 1) : b[i] = q[i + 1]
  BY TailAt
<1>2. Announced(q, rin, q[e].take) => Announced(b, rin1, q[e].take)
  BY AnnouncedTail
<1> HIDE DEF b
<1>3. e \in DOMAIN q /\ e # 1
  BY <1>1 DEF ClosesAt
<1>4. f \in DOMAIN b /\ b[f] = q[e]
  BY <1>1, <1>3
<1>5. \A i \in DOMAIN b : /\ i + 1 \in DOMAIN q /\ b[i] = q[i + 1]
                          /\ (i + 1 = e => i = f) /\ (i + 1 < e => i < f)
  BY <1>1, <1>3
<1> HIDE DEF f
<1>6. ClosesAt(b, rin1, f)
  BY <1>2, <1>4, <1>5 DEF ClosesAt
<1>7. QED BY <1>4, <1>6 DEF b

LEMMA BackAppend ==
  ASSUME NEW q \in Seq(Message), NEW m, m.kind \notin ResultKinds, NEW e, NEW l,
         BackAt(q, e, l)
  PROVE  /\ BackAt(Append(q, m), e, l) /\ e \in DOMAIN Append(q, m)
         /\ Append(q, m)[e] = q[e]
<1>1. /\ DOMAIN q \subseteq DOMAIN Append(q, m)
      /\ \A i \in DOMAIN q : Append(q, m)[i] = q[i]
      /\ \A i \in DOMAIN Append(q, m) :
           (i \in DOMAIN q /\ Append(q, m)[i] = q[i]) \/ Append(q, m)[i] = m
  BY AppendAt
<1>2. QED BY <1>1 DEF BackAt

LEMMA BackNow ==
  ASSUME NEW q \in Seq(Message), ~HasKind(q, ResultKinds), NEW m, m.kind \in ResultKinds
  PROVE  \E e \in DOMAIN Append(q, m) :
           BackAt(Append(q, m), e, m.listen) /\ Append(q, m)[e] = m
<1> DEFINE b == Append(q, m)
<1>1. /\ Len(q) \in Nat /\ DOMAIN q = 1..Len(q) /\ DOMAIN b = 1..(Len(q) + 1)
      /\ \A i \in 1..Len(q) : b[i] = q[i]
      /\ b[Len(q) + 1] = m
  BY AppendAt
<1> HIDE DEF b
<1>2. \A i \in DOMAIN b : (i \in DOMAIN q /\ b[i] = q[i]) \/ i = Len(q) + 1
  BY <1>1
<1>3. Len(q) + 1 \in DOMAIN b
  BY <1>1
<1>4. BackAt(b, Len(q) + 1, m.listen)
  BY <1>1, <1>2, <1>3 DEF BackAt, HasKind
<1>5. QED BY <1>1, <1>3, <1>4 DEF b

LEMMA BackTail ==
  ASSUME NEW q \in Seq(Message), q # <<>>, Head(q).kind \notin ResultKinds, NEW e, NEW l,
         BackAt(q, e, l)
  PROVE  \E f \in DOMAIN Tail(q) : BackAt(Tail(q), f, l) /\ Tail(q)[f] = q[e]
<1> DEFINE b == Tail(q)
           f == e - 1
<1>1. /\ Len(q) \in Nat \ {0} /\ DOMAIN q = 1..Len(q) /\ Head(q) = q[1]
      /\ DOMAIN b = 1..(Len(q) - 1)
      /\ \A i \in 1..(Len(q) - 1) : b[i] = q[i + 1]
  BY TailAt
<1> HIDE DEF b
<1>2. e \in DOMAIN q /\ e # 1
  BY <1>1 DEF BackAt
<1>3. f \in DOMAIN b /\ b[f] = q[e]
  BY <1>1, <1>2
<1>4. \A i \in DOMAIN b : /\ i + 1 \in DOMAIN q /\ b[i] = q[i + 1]
                          /\ (i + 1 = e => i = f)
  BY <1>1, <1>2
<1> HIDE DEF f
<1>5. BackAt(b, f, l)
  BY <1>3, <1>4 DEF BackAt
<1>6. QED BY <1>3, <1>5 DEF b

LEMMA AskedAppend ==
  ASSUME NEW q \in Seq(Message), NEW ls, Asked(q, ls), NEW m, m.kind # "DaemonListen",
         m.kind \in ResultKinds \/ m.listen = 0
  PROVE  Asked(Append(q, m), ls)
<1> DEFINE b == Append(q, m)
<1>1. /\ Len(q) \in Nat /\ DOMAIN q = 1..Len(q) /\ DOMAIN b = 1..(Len(q) + 1)
      /\ \A i \in 1..Len(q) : b[i] = q[i]
      /\ b[Len(q) + 1] = m
  BY AppendAt
<1> HIDE DEF b
<1>2. \A i \in DOMAIN b : (i \in DOMAIN q /\ b[i] = q[i]) \/ b[i] = m
  BY <1>1
<1>3. Asked(b, ls)
  BY <1>2 DEF Asked
<1>4. QED BY <1>3 DEF b

LEMMA AskedTail ==
  ASSUME NEW q \in Seq(Message), q # <<>>, NEW ls, NEW us, Asked(q, ls),
         DOMAIN us = DOMAIN ls,
         \A k \in DOMAIN ls : \/ us[k].alone = ls[k].alone
                              \/ Head(q).kind = "DaemonListen" /\ k = Head(q).listen
  PROVE  /\ Asked(Tail(q), us)
         /\ Head(q).kind = "DaemonListen" =>
              /\ Head(q).listen \in DOMAIN ls /\ ~ls[Head(q).listen].alone
              /\ \A i \in DOMAIN Tail(q) : Tail(q)[i].kind = "DaemonListen" =>
                   Tail(q)[i].listen # Head(q).listen
<1> DEFINE b == Tail(q)
<1>1. /\ Len(q) \in Nat \ {0} /\ DOMAIN q = 1..Len(q) /\ Head(q) = q[1]
      /\ DOMAIN b = 1..(Len(q) - 1)
      /\ \A i \in 1..(Len(q) - 1) : b[i] = q[i + 1]
  BY TailAt
<1> HIDE DEF b
<1>2. 1 \in DOMAIN q
  BY <1>1
<1>3. \A i \in DOMAIN b : i + 1 \in DOMAIN q /\ b[i] = q[i + 1] /\ i + 1 # 1
  BY <1>1
<1>4. \A i, j \in DOMAIN b : i # j => i + 1 # j + 1
  BY <1>1
<1>5. \A i \in DOMAIN b : b[i].kind = "DaemonListen" /\ Head(q).kind = "DaemonListen" =>
                            b[i].listen # Head(q).listen
  BY <1>1, <1>2, <1>3 DEF Asked
<1>6. ASSUME NEW i \in DOMAIN b
      PROVE  /\ b[i].kind = "DaemonListen" =>
                  b[i].listen \in DOMAIN us /\ ~us[b[i].listen].alone
             /\ b[i].kind \notin {"DaemonListen"} \cup ResultKinds => b[i].listen = 0
  <2>1. i + 1 \in DOMAIN q /\ b[i] = q[i + 1]
    BY <1>3
  <2>2. /\ b[i].kind = "DaemonListen" => b[i].listen \in DOMAIN ls /\ ~ls[b[i].listen].alone
        /\ b[i].kind \notin {"DaemonListen"} \cup ResultKinds => b[i].listen = 0
    BY <2>1 DEF Asked
  <2>3. QED BY <1>5, <2>2
<1>7. \A i, j \in DOMAIN b :
        i # j /\ b[i].kind = "DaemonListen" /\ b[j].kind = "DaemonListen" =>
          b[i].listen # b[j].listen
  BY <1>3, <1>4 DEF Asked
<1>8. Asked(b, us)
  BY <1>6, <1>7 DEF Asked
<1>9. QED BY <1>1, <1>2, <1>5, <1>8 DEF Asked, b

-----------------------------------------------------------------------------
(* For whom a take was made never changes.                                  *)
SameListens(ts, us) ==
  /\ DOMAIN us = DOMAIN ts
  /\ \A t \in DOMAIN ts : us[t].listen = ts[t].listen

LEMMA SameListensTrans ==
  ASSUME NEW ts, NEW us, NEW vs, SameListens(ts, us), SameListens(us, vs)
  PROVE  SameListens(ts, vs)
BY DEF SameListens

LEMMA FateListens ==
  ASSUME NEW us \in Seq(TakeRecord), NEW t, NEW f
  PROVE  SameListens(us, [us EXCEPT ![t].fate = f])
<1> DEFINE v == [us EXCEPT ![t].fate = f]
           e == [us[t] EXCEPT !.fate = f]
<1>1. v = [us EXCEPT ![t] = e] /\ DOMAIN v = DOMAIN us
  OBVIOUS
<1>2. t \in DOMAIN us => e.listen = us[t].listen
  <2> SUFFICES ASSUME t \in DOMAIN us PROVE e.listen = us[t].listen
    OBVIOUS
  <2>1. us[t] \in [fate: Fates, listen: Nat, deliveries: Nat]
    BY LenProperties, ElementOfSeq DEF TakeRecord
  <2>2. QED BY <2>1
<1>3. ASSUME NEW s \in DOMAIN us PROVE v[s].listen = us[s].listen
  <2>1. CASE s = t
    BY <1>1, <1>2, <2>1
  <2>2. CASE s # t
    BY <1>1, <2>2
  <2>3. QED BY <2>1, <2>2
<1> HIDE DEF v
<1>4. QED BY <1>1, <1>3 DEF SameListens, v

LEMMA ResolveListens ==
  ASSUME NEW us \in Seq(TakeRecord), NEW t, NEW f
  PROVE  SameListens(us, Resolve(us, t, f))
<1>1. SameListens(us, us)
  BY DEF SameListens
<1>2. QED BY <1>1, FateListens DEF Resolve

LEMMA DeliverListens ==
  ASSUME NEW us \in Seq(TakeRecord), NEW t
  PROVE  SameListens(us, Deliver(us, t))
<1> DEFINE r == Resolve(us, t, "settled")
<1>1. r \in Seq(TakeRecord) /\ SameListens(us, r)
  BY ResolveType, ResolveListens DEF Fates
<1> HIDE DEF r
<1>2. CASE t \in DOMAIN r
  <2> DEFINE v == [r EXCEPT ![t].deliveries = @ + 1]
             e == [r[t] EXCEPT !.deliveries = @ + 1]
  <2>1. v = [r EXCEPT ![t] = e] /\ DOMAIN v = DOMAIN r
    OBVIOUS
  <2>2. e.listen = r[t].listen
    <3>1. r[t] \in [fate: Fates, listen: Nat, deliveries: Nat]
      BY <1>1, <1>2, LenProperties, ElementOfSeq DEF TakeRecord
    <3>2. QED BY <3>1
  <2>3. ASSUME NEW s \in DOMAIN r PROVE v[s].listen = r[s].listen
    <3>1. CASE s = t
      BY <2>1, <2>2, <3>1
    <3>2. CASE s # t
      BY <2>1, <3>2
    <3>3. QED BY <3>1, <3>2
  <2>4. Deliver(us, t) = v
    BY <1>2 DEF Deliver, r
  <2> HIDE DEF v
  <2>5. SameListens(r, v)
    BY <2>1, <2>3 DEF SameListens
  <2>6. QED BY <1>1, <2>4, <2>5, SameListensTrans
<1>3. CASE t \notin DOMAIN r
  BY <1>1, <1>3 DEF Deliver, r
<1>4. QED BY <1>2, <1>3

LEMMA AfterDropListens ==
  ASSUME TypeOK
  PROVE  /\ SameListens(takes, takes) /\ SameListens(takes, AfterDrop(takes))
         /\ \A t, f : SameListens(takes, Resolve(takes, t, f))
         /\ \A t, f : SameListens(takes, Resolve(AfterDrop(takes), t, f))
         /\ \A t : SameListens(takes, Deliver(takes, t))
<1>1. takes \in Seq(TakeRecord) /\ SameListens(takes, takes)
  BY DEF TypeOK, SameListens
<1>2. AfterDrop(takes) \in Seq(TakeRecord) /\ SameListens(takes, AfterDrop(takes))
  BY <1>1, AfterDropType, ResolveListens DEF AfterDrop
<1>3. QED BY <1>1, <1>2, ResolveListens, DeliverListens, SameListensTrans

(* The handlers that answer results, and the rest.                          *)
LEMMA HandlerSameListens ==
  ASSUME TypeOK, CoordinatorNext
  PROVE  SameListens(takes, takes')
<1>1. CASE HoldKeyPressed \/ HoldKeyReleased \/ OtherKeyDuringHold \/ CancelRequested
           \/ TrayToggleDictation \/ DaemonListen
  <2>1. takes' = takes
    BY <1>1 DEF HoldKeyPressed, HoldKeyReleased, OtherKeyDuringHold, CancelRequested,
       TrayToggleDictation, DaemonListen, gestureFrame
  <2>2. QED BY <2>1, AfterDropListens
<1>2. CASE Started \/ Cancelled \/ NotRecording \/ AudioError
  <2>1. takes' = AfterDrop(takes) \/ takes' = takes
    BY <1>2 DEF Started, Cancelled, NotRecording, AudioError, AbandonRecording, history
  <2>2. QED BY <2>1, AfterDropListens
<1>3. CASE Stopped
  <2>1. takes' = takes \/ takes' = Resolve(takes, msg.take, "lost")
    BY <1>3 DEF Stopped
  <2>2. QED BY <2>1, AfterDropListens
<1>4. CASE Disconnected
  <2>1. takes' = takes \/ takes' = Resolve(AfterDrop(takes), msg.take, "lost")
    BY <1>4 DEF Disconnected
  <2>2. QED BY <2>1, AfterDropListens
<1>5. CASE RollingFinal
  <2>1. \/ takes' = takes \/ takes' = Deliver(takes, msg.take)
        \/ \E f : takes' = Resolve(takes, msg.take, f)
    BY <1>5 DEF RollingFinal, run_pipeline, finalize_dictation
  <2>2. QED BY <2>1, AfterDropListens
<1>6. CASE RollingLate
  <2>1. takes' = takes \/ takes' = Resolve(takes, msg.take, "settled")
    BY <1>6 DEF RollingLate
  <2>2. QED BY <2>1, AfterDropListens
<1>7. CASE RollingWorkerLost
  <2>1. takes' = takes \/ takes' = Resolve(takes, pending_rolling.take, "settled")
    BY <1>7 DEF RollingWorkerLost, history
  <2>2. QED BY <2>1, AfterDropListens
<1>8. CASE TranscribeResult \/ CleanupDone
  <2>1. \/ takes' = takes \/ takes' = Deliver(takes, msg.take)
        \/ takes' = Resolve(takes, msg.take, "settled")
    BY <1>8 DEF TranscribeResult, CleanupDone, run_pipeline, finalize_dictation
  <2>2. QED BY <2>1, AfterDropListens
<1>9. QED BY <1>1, <1>2, <1>3, <1>4, <1>5, <1>6, <1>7, <1>8 DEF CoordinatorNext

LEMMA RecordedStep ==
  ASSUME TypeOK, [Next]_vars, "panic" \notin Faults
  PROVE  \A t, l : Recorded(t, l) => Recorded(t, l)'
<1>1. takes \in Seq(TakeRecord)
  BY DEF TypeOK
<1>2. SameListens(takes, takes') => \A t, l : Recorded(t, l) => Recorded(t, l)'
  BY DEF Recorded, SameListens
<1>3. CASE CoordinatorNext
  BY <1>2, <1>3, HandlerSameListens
<1>4. CASE CoordinatorPanic
  BY <1>4 DEF CoordinatorPanic, Fault
<1>5. CASE AudioWorkerNext
  <2>1. \/ takes' = takes \/ (\E t, f : takes' = [takes EXCEPT ![t].fate = f])
        \/ \E n : takes' = Append(takes, n)
    <3>1. ASSUME NEW f, CloseMic(f)
          PROVE  \E t, g : takes' = [takes EXCEPT ![t].fate = g]
      BY <3>1 DEF CloseMic
    <3>2. QED
      BY <1>5, <3>1 DEF AudioWorkerNext, OpenMic, OpenFails, AckIdle, IgnoreStart,
         StopRecording, CancelRecording, AutoStop, DeviceLost
  <2>2. CASE \E n : takes' = Append(takes, n)
    <3>1. PICK n : takes' = Append(takes, n)
      BY <2>2
    <3>2. \A t \in DOMAIN takes : t \in DOMAIN takes' /\ takes'[t] = takes[t]
      BY <1>1, <3>1, AppendAt
    <3>3. QED BY <3>2 DEF Recorded
  <2>3. CASE takes' = takes \/ \E t, f : takes' = [takes EXCEPT ![t].fate = f]
    <3>1. ASSUME NEW t, NEW f, takes' = [takes EXCEPT ![t].fate = f]
          PROVE  SameListens(takes, takes')
      <4> DEFINE us == [takes EXCEPT ![t].fate = f]
      <4>1. SameListens(takes, us)
        BY <1>1, FateListens
      <4>2. takes' = us
        BY <3>1
      <4> HIDE DEF us
      <4>3. QED BY <4>1, <4>2
    <3>2. takes' = takes => SameListens(takes, takes')
      BY AfterDropListens
    <3>3. QED BY <1>2, <2>3, <3>1, <3>2
  <2>4. QED BY <2>1, <2>2, <2>3
<1>6. CASE ~CoordinatorNext /\ ~CoordinatorPanic /\ ~AudioWorkerNext
  <2>1. takes' = takes
    BY <1>6, RollerFrame, JobFrame, EnvFrame, TimerFrame, FinisherFrame, StutterFrame
       DEF Next
  <2>2. QED BY <1>2, <2>1, AfterDropListens
<1>7. QED BY <1>3, <1>4, <1>5, <1>6

-----------------------------------------------------------------------------
(* An answer goes to the listen of the recording under way, of the rolling  *)
(* dictation or of the message handled; no other is touched.                *)
Keeps(ls, us, K) ==
  /\ DOMAIN us = DOMAIN ls
  /\ \A k \in DOMAIN ls : /\ us[k].alone = ls[k].alone
                          /\ k \notin K => us[k] = ls[k]

LEMMA AnswerKeeps ==
  ASSUME NEW ls, NEW us, NEW K, Keeps(ls, us, K), NEW k \in K, NEW a, NEW t
  PROVE  Keeps(ls, Answer(us, k, a, t), K)
<1> DEFINE v == Answer(us, k, a, t)
<1>1. /\ DOMAIN v = DOMAIN us
      /\ \A l \in DOMAIN us : l # k => v[l] = us[l]
      /\ \A l \in DOMAIN us : v[l].alone = us[l].alone
  BY AnswerIs
<1> HIDE DEF v
<1>2. Keeps(ls, v, K)
  BY <1>1 DEF Keeps
<1>3. QED BY <1>2 DEF v

LEMMA AloneIs ==
  ASSUME NEW ls \in Seq(ListenRecord), NEW l, NEW b \in BOOLEAN, NEW v,
         v = [ls EXCEPT ![l].alone = b]
  PROVE  /\ DOMAIN v = DOMAIN ls
         /\ \A k \in DOMAIN ls : k # l => v[k] = ls[k]
         /\ l \in DOMAIN ls => v[l].alone = b /\ v[l].status = ls[l].status
<1> DEFINE e == [ls[l] EXCEPT !.alone = b]
<1>1. v = [ls EXCEPT ![l] = e] /\ DOMAIN v = DOMAIN ls /\ \A k \in DOMAIN ls : k # l => v[k] = ls[k]
  OBVIOUS
<1>2. l \in DOMAIN ls => e.alone = b /\ e.status = ls[l].status
  <2> SUFFICES ASSUME l \in DOMAIN ls PROVE e.alone = b /\ e.status = ls[l].status
    OBVIOUS
  <2>1. ls[l] \in [status: Answers, take: Nat, alone: BOOLEAN]
    BY LenProperties, ElementOfSeq DEF ListenRecord
  <2>2. QED BY <2>1
<1> HIDE DEF e
<1>3. l \in DOMAIN ls => v[l] = e
  BY <1>1
<1>4. QED BY <1>1, <1>2, <1>3

Askers == {pending_listen, pending_rolling.listen, msg.listen}

LEMMA HandlerAnswers ==
  ASSUME TypeOK, CoordinatorNext, ~DaemonListen
  PROVE  Keeps(listens, listens', Askers)
<1>1. Keeps(listens, listens, Askers)
  BY DEF Keeps
<1>2. pending_listen \in Askers /\ pending_rolling.listen \in Askers /\ msg.listen \in Askers
  BY DEF Askers
<1>3. ASSUME NEW k \in Askers, NEW a, NEW t PROVE Keeps(listens, Answer(listens, k, a, t), Askers)
  BY <1>1, AnswerKeeps
<1>4. ASSUME NEW k \in Askers, NEW a, NEW t, NEW j \in Askers, NEW b, NEW u
      PROVE  Keeps(listens, Answer(Answer(listens, k, a, t), j, b, u), Askers)
  BY <1>3, AnswerKeeps
<1>5. CASE HoldKeyPressed \/ OtherKeyDuringHold \/ CancelRequested \/ RollingLate
  <2>1. listens' = listens
    BY <1>5 DEF HoldKeyPressed, OtherKeyDuringHold, CancelRequested, RollingLate,
       NoCapture, SendEnd
  <2>2. QED BY <1>1, <2>1
<1>6. CASE HoldKeyReleased \/ TrayToggleDictation
  <2>1. listens' = listens \/ listens' = Answer(listens, pending_listen, "err", 0)
    BY <1>6 DEF HoldKeyReleased, TrayToggleDictation, NoCapture, SendEnd, start_recording
  <2>2. QED BY <1>1, <1>2, <1>3, <2>1
<1>7. CASE Started
  <2>1. listens' = Answer(listens, pending_rolling.listen, "dropped", 0)
    BY <1>7 DEF Started
  <2>2. QED BY <1>2, <1>3, <2>1
<1>8. CASE Cancelled \/ NotRecording \/ AudioError
  <2>1. \/ listens' = listens
        \/ listens' = Answer(Answer(listens, pending_rolling.listen, "dropped", 0),
                             pending_listen, "err", 0)
    BY <1>8 DEF Cancelled, NotRecording, AudioError, AbandonRecording, history
  <2>2. QED BY <1>1, <1>2, <1>4, <2>1
<1>9. CASE Stopped \/ Disconnected
  <2>1. \/ listens' = listens
        \/ listens' = Answer(listens, pending_rolling.listen, "dropped", 0)
        \/ listens' = Answer(listens, pending_listen, "err", 0)
    BY <1>9 DEF Stopped, Disconnected
  <2>2. QED BY <1>1, <1>2, <1>3, <2>1
<1>10. CASE RollingFinal
  <2>1. \/ listens' = listens
        \/ listens' = Answer(listens, pending_rolling.listen, "ok", msg.take)
    BY <1>10 DEF RollingFinal, run_pipeline, finalize_dictation
  <2>2. QED BY <1>1, <1>2, <1>3, <2>1
<1>11. CASE RollingWorkerLost
  <2>1. \/ listens' = listens
        \/ listens' = Answer(listens, pending_rolling.listen, "err", 0)
    BY <1>11 DEF RollingWorkerLost, history
  <2>2. QED BY <1>1, <1>2, <1>3, <2>1
<1>12. CASE TranscribeResult \/ CleanupDone
  <2>1. \/ listens' = listens
        \/ listens' = Answer(listens, msg.listen, "ok", msg.take)
        \/ listens' = Answer(listens, msg.listen, "err", 0)
    BY <1>12 DEF TranscribeResult, CleanupDone, run_pipeline, finalize_dictation
  <2>2. QED BY <1>1, <1>2, <1>3, <2>1
<1>13. QED
  BY <1>5, <1>6, <1>7, <1>8, <1>9, <1>10, <1>11, <1>12 DEF CoordinatorNext

LEMMA DaemonAnswers ==
  ASSUME TypeOK, DaemonListen
  PROVE  /\ DOMAIN listens' = DOMAIN listens
         /\ \A k \in DOMAIN listens : k # msg.listen => listens'[k].alone = listens[k].alone
         /\ \A k \in DOMAIN listens : k \notin Askers => listens'[k] = listens[k]
<1>1. /\ Keeps(listens, listens, Askers) /\ msg.listen \in Askers
      /\ pending_listen \in Askers
  BY DEF Keeps, Askers
<1>2. CASE dictation_state # "Idle"
  <2>1. listens' = Answer(listens, msg.listen, "err", 0)
    BY <1>2 DEF DaemonListen
  <2>2. Keeps(listens, listens', Askers)
    BY <1>1, <2>1, AnswerKeeps
  <2>3. QED BY <2>2 DEF Keeps
<1>3. CASE dictation_state = "Idle"
  <2> DEFINE us == Answer(listens, pending_listen, "dropped", 0)
             vs == [us EXCEPT ![msg.listen].alone = NothingUnderWay]
  <2>1. us \in Seq(ListenRecord) /\ Keeps(listens, us, Askers)
    BY <1>1, AnswerType, AnswerKeeps DEF TypeOK, Answers
  <2>2. NothingUnderWay \in BOOLEAN
    BY DEF NothingUnderWay
  <2>3. start_recording(TRUE, msg.listen, msg.listen, vs)
    BY <1>3 DEF DaemonListen
  <2> HIDE DEF us
  <2>4. DOMAIN vs = DOMAIN us /\ \A k \in DOMAIN us : k # msg.listen => vs[k] = us[k]
    BY <2>1, <2>2, AloneIs
  <2> HIDE DEF vs
  <2>5. listens' = vs \/ listens' = Answer(vs, msg.listen, "err", 0)
    BY <2>3 DEF start_recording
  <2>6. /\ DOMAIN vs = DOMAIN listens
        /\ \A k \in DOMAIN listens : k # msg.listen => vs[k].alone = listens[k].alone
        /\ \A k \in DOMAIN listens : k \notin Askers => vs[k] = listens[k]
    BY <1>1, <2>1, <2>4 DEF Keeps
  <2>7. /\ DOMAIN listens' = DOMAIN vs
        /\ \A k \in DOMAIN vs : k # msg.listen => listens'[k] = vs[k]
    <3> DEFINE ws == Answer(vs, msg.listen, "err", 0)
    <3>1. DOMAIN ws = DOMAIN vs /\ \A k \in DOMAIN vs : k # msg.listen => ws[k] = vs[k]
      BY AnswerIs
    <3> HIDE DEF ws
    <3>2. listens' = vs \/ listens' = ws
      BY <2>5 DEF ws
    <3>3. QED BY <3>1, <3>2
  <2>8. QED BY <1>1, <2>6, <2>7
<1>4. QED BY <1>2, <1>3

-----------------------------------------------------------------------------
(* Who is asked for in the messages, step by step.                          *)
Unasked(m) == m.kind \in ReplyKinds \cup RollerKinds /\ m.listen = 0
SendsUnasked == \E m : Unasked(m) /\ inbox' = Append(inbox, m)

LEMMA ThreadsSend ==
  ASSUME AudioWorkerNext \/ RollerNext \/ RollerFails
  PROVE  inbox' = inbox \/ SendsUnasked
<1>1. /\ Unasked(Plain("Error")) /\ Unasked(Plain("NotRecording"))
      /\ \A t, b, c : /\ Unasked(StoppedMsg(t, b, c)) /\ Unasked(DisconnectedMsg(t, b, c))
                      /\ Unasked(CancelledMsg(t)) /\ Unasked(StartedMsg(t, b))
  BY DEF Unasked, Plain, Blank, StartedMsg, StoppedMsg, DisconnectedMsg, CancelledMsg,
         ReplyKinds, EndKinds
<1>2. \A t, e, p, o : /\ Unasked(FinalMsg(t, e, p, o)) /\ Unasked(LateMsg(t, e, o))
                     /\ Unasked(LostMsg(t, e))
  BY DEF Unasked, FinalMsg, LateMsg, LostMsg, Blank, RollerKinds
<1>3. CASE AudioWorkerNext
  BY <1>1, <1>3 DEF AudioWorkerNext, OpenMic, OpenFails, AckIdle, IgnoreStart, StopRecording,
     CancelRecording, AutoStop, DeviceLost, Reply, SendsUnasked
<1>4. CASE RollerNext \/ RollerFails
  BY <1>2, <1>4 DEF RollerNext, RollerFails, RollerFinal, RollerPartial, RollerLate,
     RollerPanicsLate, RollerAbandoned, RollerDies, Reply, SendsUnasked
<1>5. QED BY <1>3, <1>4

(* A job's result carries its take and its listen.                          *)
ResultOf(m, j) == m.kind \in ResultKinds /\ m.take = j.take /\ m.listen = j.listen

LEMMA JobSends ==
  ASSUME JobNext \/ JobFails
  PROVE  \E j \in jobs : \E m : /\ ResultOf(m, j)
                                  /\ inbox' = Append(inbox, m) /\ jobs' = jobs \ {j}
<1>1. \A j, o : /\ ResultOf(ResultMsg(j.take, j.listen, o), j)
               /\ ResultOf(CleanupDoneMsg(j.take, j.listen), j)
  BY DEF ResultOf, ResultMsg, CleanupDoneMsg, Blank, ResultKinds
<1>2. PICK j \in jobs : AsrDone(j) \/ AsrFails(j) \/ CleanDone(j)
  BY DEF JobNext, JobFails
<1>3. QED
  BY <1>1, <1>2 DEF AsrDone, AsrFails, CleanDone, Reply

LEMMA EnvSends ==
  ASSUME TypeOK, EnvNext
  PROVE  \/ /\ listens' = listens
            /\ \/ inbox' = inbox
               \/ \E m : /\ inbox' = Append(inbox, m) /\ m.kind # "DaemonListen"
                         /\ m.listen = 0
         \/ \E n : /\ n.alone = FALSE /\ n.status = "waiting"
                   /\ listens' = Append(listens, n)
                   /\ inbox' = Append(inbox, DaemonListenMsg(Len(listens) + 1))
<1> DEFINE Out == inbox' = inbox \/ \E m : /\ inbox' = Append(inbox, m)
                                           /\ m.kind # "DaemonListen" /\ m.listen = 0
<1>1. ASSUME NEW k \in {"HoldKeyPressed", "HoldKeyReleased", "OtherKeyDuringHold",
                        "CancelRequested", "TrayToggleDictation"}, Reply(Plain(k))
      PROVE  Out
  <2>1. Plain(k).kind = k /\ Plain(k).listen = 0
    BY DEF Plain, Blank
  <2>2. QED BY <1>1, <2>1 DEF Reply
<1>2. ASSUME Reply([Plain("OtherKeyDuringHold") EXCEPT !.flag = TRUE]) PROVE Out
  <2> DEFINE m == [Plain("OtherKeyDuringHold") EXCEPT !.flag = TRUE]
  <2>1. m.kind = "OtherKeyDuringHold" /\ m.listen = 0
    BY DEF Plain, Blank
  <2>2. inbox' = Append(inbox, m)
    BY <1>2 DEF Reply
  <2> HIDE DEF m
  <2>3. QED BY <2>1, <2>2
<1>3. CASE FlowListen
  <2> DEFINE n == [status |-> "waiting", take |-> 0, alone |-> FALSE]
  <2>1. /\ n.alone = FALSE /\ n.status = "waiting" /\ listens' = Append(listens, n)
        /\ inbox' = Append(inbox, DaemonListenMsg(Len(listens) + 1))
    BY <1>3 DEF FlowListen, Reply
  <2> HIDE DEF n
  <2>2. QED BY <2>1
<1>4. CASE ToggleRollingSetting
  BY <1>4 DEF ToggleRollingSetting
<1> HIDE DEF Out
<1>5. CASE ~FlowListen /\ ~ToggleRollingSetting
  <2>1. listens' = listens /\ Out
    BY <1>1, <1>2, <1>5 DEF EnvNext, PressKey, ReleaseKey, OtherKey, PressEscape,
       FlowCancel, TrayToggle
  <2>2. QED BY <2>1 DEF Out
<1>6. QED BY <1>3, <1>4, <1>5

LEMMA AskedOneMore ==
  ASSUME NEW q \in Seq(Message), NEW ls \in Seq(ListenRecord), Asked(q, ls),
         NEW n, n.alone = FALSE
  PROVE  Asked(Append(q, DaemonListenMsg(Len(ls) + 1)), Append(ls, n))
<1> DEFINE m == DaemonListenMsg(Len(ls) + 1)
           b == Append(q, m)
           us == Append(ls, n)
<1>1. m.kind = "DaemonListen" /\ m.listen = Len(ls) + 1
  BY DEF DaemonListenMsg, Blank
<1> HIDE DEF m
<1>2. /\ Len(q) \in Nat /\ DOMAIN q = 1..Len(q) /\ DOMAIN b = 1..(Len(q) + 1)
      /\ \A i \in 1..Len(q) : b[i] = q[i]
      /\ b[Len(q) + 1] = m
  BY AppendAt
<1>3. /\ Len(ls) \in Nat /\ DOMAIN ls = 1..Len(ls) /\ DOMAIN us = 1..(Len(ls) + 1)
      /\ \A i \in 1..Len(ls) : us[i] = ls[i]
      /\ us[Len(ls) + 1] = n
  BY AppendAt
<1> HIDE DEF b, us
<1>4. \A i \in DOMAIN b : (i \in DOMAIN q /\ b[i] = q[i]) \/ (i = Len(q) + 1 /\ b[i] = m)
  BY <1>2
<1>5. \A i \in DOMAIN q : q[i].kind = "DaemonListen" => q[i].listen # m.listen
  BY <1>1, <1>3 DEF Asked
<1>6. ASSUME NEW i \in DOMAIN b
      PROVE  /\ b[i].kind = "DaemonListen" => b[i].listen \in DOMAIN us /\ ~us[b[i].listen].alone
             /\ b[i].kind \notin {"DaemonListen"} \cup ResultKinds => b[i].listen = 0
  <2>1. CASE i \in DOMAIN q /\ b[i] = q[i]
    BY <1>3, <2>1 DEF Asked
  <2>2. CASE b[i] = m
    BY <1>1, <1>3, <2>2
  <2>3. QED BY <1>4, <2>1, <2>2
<1>7. ASSUME NEW i \in DOMAIN b, NEW j \in DOMAIN b, i # j,
             b[i].kind = "DaemonListen", b[j].kind = "DaemonListen"
      PROVE  b[i].listen # b[j].listen
  BY <1>4, <1>5, <1>7 DEF Asked
<1>8. Asked(b, us)
  BY <1>6, <1>7 DEF Asked
<1>9. QED BY <1>8 DEF b, us, m

LEMMA AskedStep ==
  ASSUME TypeOK, Asked(inbox, listens), "panic" \notin Faults, [Next]_vars
  PROVE  Asked(inbox', listens')
<1>1. inbox \in Seq(Message) /\ listens \in Seq(ListenRecord)
  BY DEF TypeOK
<1>2. CASE CoordinatorNext
  <2>1. inbox # <<>> /\ msg = Head(inbox) /\ Tail(inbox) \in Seq(Message)
    BY <1>2, HandlerInbox DEF msg
  <2>2. /\ DOMAIN listens' = DOMAIN listens
        /\ \A k \in DOMAIN listens :
             \/ listens'[k].alone = listens[k].alone
             \/ Head(inbox).kind = "DaemonListen" /\ k = Head(inbox).listen
    <3>1. CASE DaemonListen
      BY <2>1, <3>1, DaemonAnswers DEF DaemonListen, Receive
    <3>2. CASE ~DaemonListen
      BY <1>2, <3>2, HandlerAnswers DEF Keeps
    <3>3. QED BY <3>1, <3>2
  <2>3. Asked(Tail(inbox), listens')
    BY <1>1, <2>1, <2>2, AskedTail
  <2>4. CASE inbox' = Tail(inbox)
    BY <2>3, <2>4
  <2>5. CASE inbox' = Append(Tail(inbox), StoppedMsg(msg.take, FALSE, msg.audio /\ rolling_in = 0))
    <3> DEFINE m == StoppedMsg(msg.take, FALSE, msg.audio /\ rolling_in = 0)
    <3>1. m.kind # "DaemonListen" /\ m.listen = 0
      BY DEF StoppedMsg, Blank
    <3>2. inbox' = Append(Tail(inbox), m)
      BY <2>5
    <3> HIDE DEF m
    <3>3. QED BY <2>1, <2>3, <3>1, <3>2, AskedAppend
  <2>6. QED BY <1>2, <2>4, <2>5, HandlerInbox
<1>3. CASE CoordinatorPanic
  BY <1>3 DEF CoordinatorPanic, Fault
<1>4. CASE AudioWorkerNext \/ RollerNext \/ RollerFails
  <2>1. listens' = listens
    BY <1>4, WorkerFrame, RollerFrame
  <2>2. CASE inbox' = inbox
    BY <2>1, <2>2
  <2>3. CASE SendsUnasked
    <3>1. PICK m : Unasked(m) /\ inbox' = Append(inbox, m)
      BY <2>3 DEF SendsUnasked
    <3>2. m.kind # "DaemonListen" /\ m.listen = 0
      BY <3>1 DEF Unasked, ReplyKinds, EndKinds, RollerKinds
    <3>3. QED BY <1>1, <2>1, <3>1, <3>2, AskedAppend
  <2>4. QED BY <1>4, <2>2, <2>3, ThreadsSend
<1>5. CASE JobNext \/ JobFails
  <2>1. listens' = listens
    BY <1>5, JobFrame
  <2>2. PICK m : m.kind \in ResultKinds /\ inbox' = Append(inbox, m)
    BY <1>5, JobSends DEF ResultOf
  <2>3. m.kind # "DaemonListen"
    BY <2>2 DEF ResultKinds
  <2>4. QED BY <1>1, <2>1, <2>2, <2>3, AskedAppend
<1>6. CASE EnvNext
  <2>1. CASE \E n : /\ n.alone = FALSE /\ listens' = Append(listens, n)
                    /\ inbox' = Append(inbox, DaemonListenMsg(Len(listens) + 1))
    BY <1>1, <2>1, AskedOneMore
  <2>2. CASE listens' = listens /\ inbox' = inbox
    BY <2>2
  <2>3. CASE listens' = listens /\ \E m : /\ inbox' = Append(inbox, m)
                                          /\ m.kind # "DaemonListen" /\ m.listen = 0
    BY <1>1, <2>3, AskedAppend
  <2>4. QED BY <1>6, <2>1, <2>2, <2>3, EnvSends
<1>7. CASE FinisherNext \/ UNCHANGED vars
  BY <1>7, FinisherFrame, StutterFrame
<1>8. CASE TimerNext
  <2>1. inbox' = inbox
    BY <1>8, TimerFrame
  <2>2. listens' = listens \/ listens' = Answer(listens, pending_listen, "err", 0)
    BY <1>8 DEF TimerNext, TimerWakes, TimerSeesState, TimerStarts, NoCapture, start_recording
  <2>3. /\ DOMAIN listens' = DOMAIN listens
        /\ \A k \in DOMAIN listens : listens'[k].alone = listens[k].alone
    BY <2>2, AnswerIs
  <2>4. QED BY <2>1, <2>3 DEF Asked
<1>9. QED BY <1>2, <1>3, <1>4, <1>5, <1>6, <1>7, <1>8 DEF Next

-----------------------------------------------------------------------------
(* Epochs keep the worker whose sender is held apart from older ones, also  *)
(* when a lost device's Stopped is queued again.                            *)
LEMMA FinalsOld ==
  ASSUME TypeOK, CoordinatorNext, NEW i \in DOMAIN inbox', inbox'[i].kind = "Final"
  PROVE  \E k \in DOMAIN inbox : inbox[k] = inbox'[i]
<1>1. inbox # <<>> /\ inbox \in Seq(Message) /\ Tail(inbox) \in Seq(Message)
  BY HandlerInbox DEF TypeOK
<1>2. ASSUME NEW k \in DOMAIN Tail(inbox)
      PROVE  \E j \in DOMAIN inbox : inbox[j] = Tail(inbox)[k]
  <2>1. k + 1 \in DOMAIN inbox /\ inbox[k + 1] = Tail(inbox)[k]
    BY <1>1, TailAt
  <2>2. QED BY <2>1
<1>3. CASE inbox' = Tail(inbox)
  BY <1>2, <1>3
<1>4. CASE inbox' = Append(Tail(inbox), StoppedMsg(msg.take, FALSE, msg.audio /\ rolling_in = 0))
  <2> DEFINE m == StoppedMsg(msg.take, FALSE, msg.audio /\ rolling_in = 0)
  <2>1. m.kind = "Stopped"
    BY DEF StoppedMsg, Blank
  <2>2. inbox' = Append(Tail(inbox), m)
    BY <1>4
  <2> HIDE DEF m
  <2>3. (i \in DOMAIN Tail(inbox) /\ inbox'[i] = Tail(inbox)[i]) \/ inbox'[i] = m
    BY <1>1, <2>2, AppendAt
  <2>4. QED BY <1>2, <2>1, <2>3
<1>5. QED BY <1>3, <1>4, HandlerInbox

LEMMA HandlerTags ==
  ASSUME TypeOK, CoordinatorNext, ~Started
  PROVE  NoNewTags
<1> SUFFICES ASSUME NEW y \in Bearers'
             PROVE  \E x \in Bearers : x.take = y.take /\ x.epoch = y.epoch
  BY DEF NoNewTags
<1>1. CASE y \in rollers'
  <2>1. CASE rollers' = rollers
    BY <1>1, <2>1 DEF Bearers
  <2>2. CASE Stopped /\ rolling_in # 0
    <3>1. PICK r \in rollers : y = IF r.take = rolling_in /\ r.phase = "live"
                                   THEN [r EXCEPT !.phase = "finish"] ELSE r
      BY <1>1, <2>2 DEF Stopped
    <3>2. y.take = r.take /\ y.epoch = r.epoch
      BY <3>1 DEF TypeOK
    <3>3. QED BY <3>2 DEF Bearers
  <2>3. Stopped => rolling_in # 0 \/ rollers' = rollers
    BY DEF Stopped
  <2>4. ~Stopped => rollers' = rollers
    BY DEF CoordinatorNext, HoldKeyPressed, HoldKeyReleased,
     OtherKeyDuringHold, CancelRequested, TrayToggleDictation, DaemonListen,
     Disconnected, Cancelled, NotRecording, AudioError, RollingFinal, RollingLate,
     RollingWorkerLost, TranscribeResult, CleanupDone, gestureFrame, resultFrame
  <2>5. QED BY <2>1, <2>2, <2>3, <2>4
<1>2. CASE y \notin rollers'
  <2>1. PICK i \in DOMAIN inbox' : y = inbox'[i] /\ y.kind = "Final"
    BY <1>2 DEF Bearers
  <2>2. PICK k \in DOMAIN inbox : inbox[k] = y
    BY <2>1, FinalsOld
  <2>3. QED BY <2>1, <2>2 DEF Bearers
<1>3. QED BY <1>1, <1>2

LEMMA OwnWorkersKeep ==
  ASSUME TypeOK, OwnWorkers, NoNewTags,
         \/ UNCHANGED <<rolling_in, rolling_epoch>>
         \/ rolling_in' = 0 /\ rolling_epoch' \in {rolling_epoch, rolling_epoch + 1}
  PROVE  OwnWorkers'
<1>1. rolling_epoch \in Nat
  BY DEF TypeOK
<1>2. ASSUME NEW y \in Bearers'
      PROVE  /\ y.epoch <= rolling_epoch'
             /\ rolling_in' # 0 /\ y.epoch = rolling_epoch' => y.take = rolling_in'
  <2>1. PICK x \in Bearers : x.take = y.take /\ x.epoch = y.epoch
    BY DEF NoNewTags
  <2>2. x.epoch \in Nat
    BY BearerEpoch
  <2>3. QED BY <1>1, <2>1, <2>2 DEF OwnWorkers
<1>3. QED BY <1>2 DEF OwnWorkers

LEMMA StartedWorkers ==
  ASSUME TypeOK, OwnWorkers, Started
  PROVE  OwnWorkers'
<1> DEFINE n == [take |-> msg.take, epoch |-> NextEpoch, audio |-> msg.audio, phase |-> "live"]
<1>1. CoordinatorNext
  BY DEF CoordinatorNext
<1>2. rolling_epoch' = rolling_epoch + 1 /\ rolling_epoch \in Nat
  BY DEF Started, NextEpoch, TypeOK
<1>3. /\ rolling_in' # 0 => rolling_in' = msg.take
      /\ rollers' \subseteq rollers \cup {n}
  BY DEF Started, SpawnRollingWorker
<1>4. n.epoch = rolling_epoch' /\ n.take = msg.take
  BY <1>2 DEF NextEpoch
<1> HIDE DEF n
<1>5. ASSUME NEW y \in Bearers'
      PROVE  y = n \/ y \in Bearers
  <2>1. CASE y \in rollers'
    BY <1>3, <2>1 DEF Bearers
  <2>2. CASE y \notin rollers'
    <3>1. PICK i \in DOMAIN inbox' : y = inbox'[i] /\ y.kind = "Final"
      BY <2>2 DEF Bearers
    <3>2. PICK k \in DOMAIN inbox : inbox[k] = y
      BY <1>1, <3>1, FinalsOld
    <3>3. QED BY <3>1, <3>2 DEF Bearers
  <2>3. QED BY <2>1, <2>2
<1>6. ASSUME NEW y \in Bearers'
      PROVE  /\ y.epoch <= rolling_epoch'
             /\ rolling_in' # 0 /\ y.epoch = rolling_epoch' => y.take = rolling_in'
  <2>1. CASE y = n
    BY <1>2, <1>3, <1>4, <2>1
  <2>2. CASE y \in Bearers
    <3>1. y.epoch \in Nat /\ y.epoch <= rolling_epoch
      BY <2>2, BearerEpoch DEF OwnWorkers
    <3>2. QED BY <1>2, <3>1
  <2>3. QED BY <1>5, <2>1, <2>2
<1>7. QED BY <1>6 DEF OwnWorkers

LEMMA OwnWorkersStep ==
  ASSUME TypeOK, OwnWorkers, "panic" \notin Faults, [Next]_vars
  PROVE  OwnWorkers'
<1>1. CASE CoordinatorNext
  <2>1. CASE Started
    BY <2>1, StartedWorkers
  <2>2. CASE ~Started
    <3>1. \/ UNCHANGED <<rolling_in, rolling_epoch>>
          \/ rolling_in' = 0 /\ rolling_epoch' \in {rolling_epoch, rolling_epoch + 1}
      BY <1>1, <2>2 DEF CoordinatorNext, HoldKeyPressed, HoldKeyReleased,
       OtherKeyDuringHold, CancelRequested, TrayToggleDictation, DaemonListen,
       Stopped, Disconnected, Cancelled, NotRecording, AudioError, AbandonRecording,
       NextEpoch, RollingFinal, RollingLate, RollingWorkerLost, TranscribeResult,
       CleanupDone, gestureFrame, resultFrame
    <3>2. QED BY <1>1, <2>2, <3>1, HandlerTags, OwnWorkersKeep
  <2>3. QED BY <2>1, <2>2
<1>2. CASE CoordinatorPanic
  BY <1>2 DEF CoordinatorPanic, Fault
<1>3. CASE AudioWorkerNext
  <2>1. inbox' = inbox \/ \E m : inbox' = Append(inbox, m) /\ m.kind # "Final"
    BY <1>3, WorkerReplies DEF Sends, ReplyKinds, EndKinds
  <2>2. QED BY <1>3, <2>1, WorkerFrame, OldTags, OwnWorkersKeep
<1>4. CASE RollerNext \/ RollerFails
  BY <1>4, RollerTags, RollerFrame, OwnWorkersKeep
<1>5. CASE JobNext \/ JobFails
  <2>1. \E m : inbox' = Append(inbox, m) /\ m.kind # "Final"
    BY <1>5, JobReplies DEF Sends, ResultKinds
  <2>2. QED BY <1>5, <2>1, JobFrame, OldTags, OwnWorkersKeep
<1>6. CASE EnvNext
  <2>1. inbox' = inbox \/ \E m : inbox' = Append(inbox, m) /\ m.kind # "Final"
    BY <1>6, EnvReplies DEF Sends, InputMsgKinds
  <2>2. QED BY <1>6, <2>1, EnvFrame, OldTags, OwnWorkersKeep
<1>7. CASE TimerNext \/ FinisherNext \/ UNCHANGED vars
  BY <1>7, TimerFrame, FinisherFrame, StutterFrame, OldTags, OwnWorkersKeep
<1>8. QED
  BY <1>1, <1>2, <1>3, <1>4, <1>5, <1>6, <1>7 DEF Next

LEMMA PendingOrNotStep ==
  ASSUME TypeOK, PendingOrNot, [Next]_vars
  PROVE  PendingOrNot'
<1>1. CASE CoordinatorNext
  <2>1. \/ pending_rolling' \in {pending_rolling, NoPending}
        \/ pending_rolling' = Pending(msg.take, rolling_epoch, pending_listen)
    BY <1>1 DEF CoordinatorNext, HoldKeyPressed, HoldKeyReleased,
     OtherKeyDuringHold, CancelRequested, TrayToggleDictation, DaemonListen, Started,
     Stopped, Disconnected, Cancelled, NotRecording, AudioError, AbandonRecording,
     RollingFinal, RollingLate, RollingWorkerLost, TranscribeResult,
     CleanupDone, gestureFrame, resultFrame
  <2>2. Pending(msg.take, rolling_epoch, pending_listen).waiting
    BY DEF Pending
  <2>3. QED BY <2>1, <2>2 DEF PendingOrNot
<1>2. CASE CoordinatorPanic
  BY <1>2 DEF CoordinatorPanic, PendingOrNot
<1>3. CASE ~CoordinatorNext /\ ~CoordinatorPanic
  BY <1>3, WorkerFrame, RollerFrame, JobFrame, EnvFrame, TimerFrame, FinisherFrame,
     StutterFrame DEF Next, PendingOrNot
<1>4. QED BY <1>1, <1>2, <1>3

-----------------------------------------------------------------------------
(* An answered listen is left alone: nobody holds its number any more.      *)
LEMMA HandlerMoves ==
  ASSUME TypeOK, CoordinatorNext
  PROVE  /\ pending_listen' \in {pending_listen, msg.listen, 0}
         /\ pending_rolling' \in {pending_rolling, NoPending,
                                  Pending(msg.take, rolling_epoch, pending_listen)}
         /\ \A j \in jobs' : j \in jobs \/ j.listen \in Askers
<1>1. pending_listen' \in {pending_listen, msg.listen, 0}
  BY DEF CoordinatorNext, HoldKeyPressed, HoldKeyReleased, OtherKeyDuringHold,
     CancelRequested, TrayToggleDictation, DaemonListen, NoCapture, SendEnd, start_recording,
     Started, appVars, Stopped, Disconnected, Cancelled, NotRecording, AudioError,
     AbandonRecording, RollingFinal, RollingLate, RollingWorkerLost, TranscribeResult,
     CleanupDone, resultFrame
<1>2. pending_rolling' \in {pending_rolling, NoPending,
                            Pending(msg.take, rolling_epoch, pending_listen)}
  BY DEF CoordinatorNext, HoldKeyPressed, HoldKeyReleased, OtherKeyDuringHold,
     CancelRequested, TrayToggleDictation, DaemonListen, gestureFrame,
     Started, Stopped, Disconnected, Cancelled, NotRecording, AudioError,
     AbandonRecording, RollingFinal, RollingLate, RollingWorkerLost, TranscribeResult,
     CleanupDone
<1>3. ASSUME NEW j \in jobs', j \notin jobs PROVE j.listen \in Askers
  <2>1. CASE Stopped
    <3>1. j.listen = pending_listen
      BY <1>3, <2>1 DEF Stopped
    <3>2. QED BY <3>1 DEF Askers
  <2>2. CASE RollingFinal
    <3>1. j.listen = pending_rolling.listen
      BY <1>3, <2>2 DEF RollingFinal, run_pipeline
    <3>2. QED BY <3>1 DEF Askers
  <2>3. CASE TranscribeResult
    <3>1. j.listen = msg.listen
      BY <1>3, <2>3 DEF TranscribeResult, run_pipeline
    <3>2. QED BY <3>1 DEF Askers
  <2>4. CASE ~Stopped /\ ~RollingFinal /\ ~TranscribeResult
    <3>1. jobs' = jobs
      BY <2>4 DEF CoordinatorNext, HoldKeyPressed, HoldKeyReleased, OtherKeyDuringHold,
         CancelRequested, TrayToggleDictation, DaemonListen, gestureFrame,
         Started, Disconnected, Cancelled, NotRecording, AudioError,
         RollingLate, RollingWorkerLost, CleanupDone
    <3>2. QED BY <1>3, <3>1
  <2>5. QED BY <2>1, <2>2, <2>3, <2>4
<1>4. QED BY <1>1, <1>2, <1>3

LEMMA OnlyAskedAppend ==
  ASSUME NEW q \in Seq(Message), NEW m, NEW k, OnlyAsked(q, k),
         m.listen = k => m.kind = "DaemonListen"
  PROVE  OnlyAsked(Append(q, m), k)
<1> DEFINE b == Append(q, m)
<1>1. /\ DOMAIN q = 1..Len(q) /\ DOMAIN b = 1..(Len(q) + 1) /\ Len(q) \in Nat
      /\ \A i \in 1..Len(q) : b[i] = q[i]
      /\ b[Len(q) + 1] = m
  BY AppendAt
<1> HIDE DEF b
<1>2. \A i \in DOMAIN b : (i \in DOMAIN q /\ b[i] = q[i]) \/ b[i] = m
  BY <1>1
<1>3. OnlyAsked(b, k)
  BY <1>2 DEF OnlyAsked
<1>4. QED BY <1>3 DEF b

LEMMA OnlyAskedTail ==
  ASSUME NEW q \in Seq(Message), q # <<>>, NEW k, OnlyAsked(q, k)
  PROVE  /\ OnlyAsked(Tail(q), k)
         /\ Head(q).listen = k => Head(q).kind = "DaemonListen"
         /\ AsksFor(Tail(q), k) => AsksFor(q, k)
<1> DEFINE b == Tail(q)
<1>1. /\ DOMAIN q = 1..Len(q) /\ DOMAIN b = 1..(Len(q) - 1) /\ Len(q) \in Nat \ {0}
      /\ \A i \in 1..(Len(q) - 1) : b[i] = q[i + 1]
      /\ Head(q) = q[1]
  BY TailAt
<1> HIDE DEF b
<1>2. \A i \in DOMAIN b : i + 1 \in DOMAIN q /\ b[i] = q[i + 1]
  BY <1>1
<1>3. 1 \in DOMAIN q
  BY <1>1
<1>4. OnlyAsked(b, k) /\ (Head(q).listen = k => Head(q).kind = "DaemonListen")
  BY <1>1, <1>2, <1>3 DEF OnlyAsked
<1>5. AsksFor(b, k) => AsksFor(q, k)
  BY <1>2 DEF AsksFor
<1>6. QED BY <1>4, <1>5 DEF b

(* A listen not waited for is not answered, and is waited for only once its *)
(* own message is handled.                                                  *)
LEMMA UntouchedStep ==
  ASSUME TypeOK, "panic" \notin Faults, [Next]_vars, NEW k \in Nat \ {0}, Untouched(k),
         ~(DaemonListen /\ msg.listen = k)
  PROVE  Untouched(k)' /\ (k \in DOMAIN listens => listens'[k] = listens[k])
<1>1. inbox \in Seq(Message) /\ listens \in Seq(ListenRecord) /\ k # 0
  BY DEF TypeOK
<1>2. OnlyAsked(inbox, k) /\ pending_listen # k /\ pending_rolling.listen # k
      /\ \A j \in jobs : j.listen # k
  BY DEF Untouched
<1>3. ASSUME OnlyAsked(inbox', k), pending_listen' # k, pending_rolling'.listen # k,
             \A j \in jobs' : j.listen # k
      PROVE  Untouched(k)'
  BY <1>3 DEF Untouched
<1>4. NoPending.listen # k
  BY <1>1 DEF NoPending
<1>5. CASE CoordinatorNext
  <2>1. inbox # <<>> /\ msg = Head(inbox) /\ Tail(inbox) \in Seq(Message)
    BY <1>5, HandlerInbox DEF msg
  <2>2. OnlyAsked(Tail(inbox), k) /\ (msg.listen = k => msg.kind = "DaemonListen")
    BY <1>1, <1>2, <2>1, OnlyAskedTail
  <2>3. msg.listen # k
    <3>1. msg.kind = "DaemonListen" => DaemonListen
      BY <1>5 DEF CoordinatorNext, HoldKeyPressed, HoldKeyReleased, OtherKeyDuringHold,
         CancelRequested, TrayToggleDictation, Started, Stopped, Disconnected, Cancelled,
         NotRecording, AudioError, RollingFinal, RollingLate, RollingWorkerLost,
         TranscribeResult, CleanupDone, Receive
    <3>2. QED BY <2>2, <3>1
  <2>4. k \notin Askers
    BY <1>2, <2>3 DEF Askers
  <2>5. k \in DOMAIN listens => listens'[k] = listens[k]
    BY <1>5, <2>4, HandlerAnswers, DaemonAnswers DEF Keeps
  <2>6. OnlyAsked(inbox', k)
    <3> DEFINE m == StoppedMsg(msg.take, FALSE, msg.audio /\ rolling_in = 0)
    <3>1. m.listen # k
      BY <1>1 DEF StoppedMsg, Blank
    <3>2. inbox' = Tail(inbox) \/ inbox' = Append(Tail(inbox), m)
      BY <1>5, HandlerInbox
    <3> HIDE DEF m
    <3>3. QED BY <2>1, <2>2, <3>1, <3>2, OnlyAskedAppend
  <2>7. Pending(msg.take, rolling_epoch, pending_listen).listen = pending_listen
    BY DEF Pending
  <2>8. /\ pending_listen' # k /\ pending_rolling'.listen # k
        /\ \A j \in jobs' : j.listen # k
    BY <1>1, <1>2, <1>4, <1>5, <2>3, <2>4, <2>7, HandlerMoves
  <2>9. QED BY <1>3, <2>5, <2>6, <2>8
<1>6. CASE CoordinatorPanic
  BY <1>6 DEF CoordinatorPanic, Fault
<1>7. CASE AudioWorkerNext \/ RollerNext \/ RollerFails
  <2>1. UNCHANGED <<listens, pending_listen, pending_rolling, jobs>>
    BY <1>7, WorkerFrame, RollerFrame
  <2>2. OnlyAsked(inbox', k)
    BY <1>1, <1>2, <1>7, ThreadsSend, OnlyAskedAppend DEF SendsUnasked, Unasked
  <2>3. QED BY <1>2, <1>3, <2>1, <2>2
<1>8. CASE JobNext \/ JobFails
  <2>1. UNCHANGED <<listens, pending_listen, pending_rolling>>
    BY <1>8, JobFrame
  <2>2. PICK j \in jobs : \E m : /\ ResultOf(m, j)
                                 /\ inbox' = Append(inbox, m) /\ jobs' = jobs \ {j}
    BY <1>8, JobSends
  <2>3. PICK m : ResultOf(m, j) /\ inbox' = Append(inbox, m) /\ jobs' = jobs \ {j}
    BY <2>2
  <2>4. m.listen # k
    BY <1>2, <2>3 DEF ResultOf
  <2>5. OnlyAsked(inbox', k)
    BY <1>1, <1>2, <2>3, <2>4, OnlyAskedAppend
  <2>6. QED BY <1>2, <1>3, <2>1, <2>3, <2>5
<1>9. CASE EnvNext
  <2>1. UNCHANGED <<pending_listen, pending_rolling, jobs>>
    BY <1>9, EnvFrame
  <2>2. OnlyAsked(inbox', k) /\ (k \in DOMAIN listens => listens'[k] = listens[k])
    <3>1. CASE listens' = listens /\ inbox' = inbox
      BY <1>2, <3>1
    <3>2. CASE listens' = listens /\ \E m : inbox' = Append(inbox, m) /\ m.listen = 0
      BY <1>1, <1>2, <3>2, OnlyAskedAppend
    <3>3. CASE \E n : /\ listens' = Append(listens, n)
                      /\ inbox' = Append(inbox, DaemonListenMsg(Len(listens) + 1))
      <4> DEFINE m == DaemonListenMsg(Len(listens) + 1)
      <4>1. m.kind = "DaemonListen"
        BY DEF DaemonListenMsg, Blank
      <4>2. inbox' = Append(inbox, m)
        BY <3>3 DEF m
      <4> HIDE DEF m
      <4>3. k \in DOMAIN listens => listens'[k] = listens[k]
        BY <1>1, <3>3, AppendAt
      <4>4. QED BY <1>1, <1>2, <4>1, <4>2, <4>3, OnlyAskedAppend
    <3>4. QED BY <1>9, <3>1, <3>2, <3>3, EnvSends
  <2>3. QED BY <1>2, <1>3, <2>1, <2>2
<1>10. CASE FinisherNext \/ UNCHANGED vars
  <2>1. UNCHANGED <<listens, pending_listen, pending_rolling, jobs, inbox>>
    BY <1>10, FinisherFrame, StutterFrame
  <2>2. QED BY <1>2, <1>3, <2>1
<1>11. CASE TimerNext
  <2>1. UNCHANGED <<pending_rolling, jobs, inbox>>
    BY <1>11, TimerFrame
  <2>2. /\ pending_listen' \in {pending_listen, 0}
        /\ listens' = listens \/ listens' = Answer(listens, pending_listen, "err", 0)
    BY <1>11 DEF TimerNext, TimerWakes, TimerSeesState, TimerStarts, NoCapture, start_recording
  <2>3. k \in DOMAIN listens => listens'[k] = listens[k]
    BY <1>2, <2>2, AnswerIs
  <2>4. QED BY <1>1, <1>2, <1>3, <2>1, <2>2, <2>3
<1>12. QED
  BY <1>5, <1>6, <1>7, <1>8, <1>9, <1>10, <1>11 DEF Next

(* What is asked for: the head's listen once, and a new one's number.       *)
LEMMA AskedOnce ==
  ASSUME TypeOK, Asked(inbox, listens), "panic" \notin Faults, [Next]_vars,
         NEW k, AsksFor(inbox', k)
  PROVE  \/ AsksFor(inbox, k) /\ ~(DaemonListen /\ msg.listen = k)
         \/ /\ k = Len(listens) + 1 /\ ~CoordinatorNext
            /\ \E n : n.status = "waiting" /\ listens' = Append(listens, n)
<1>1. inbox \in Seq(Message) /\ listens \in Seq(ListenRecord)
  BY DEF TypeOK
<1>2. PICK i \in DOMAIN inbox' : inbox'[i].kind = "DaemonListen" /\ inbox'[i].listen = k
  BY DEF AsksFor
<1>3. ASSUME NEW m, inbox' = Append(inbox, m)
      PROVE  AsksFor(inbox, k) \/ (m.kind = "DaemonListen" /\ m.listen = k)
  <2>1. /\ Len(inbox) \in Nat /\ DOMAIN inbox = 1..Len(inbox)
        /\ DOMAIN inbox' = 1..(Len(inbox) + 1)
        /\ \A e \in 1..Len(inbox) : inbox'[e] = inbox[e]
        /\ inbox'[Len(inbox) + 1] = m
    BY <1>1, <1>3, AppendAt
  <2>2. (i \in DOMAIN inbox /\ inbox[i] = inbox'[i]) \/ inbox'[i] = m
    BY <2>1
  <2>3. QED BY <1>2, <2>2 DEF AsksFor
<1>4. CASE CoordinatorNext
  <2>1. inbox # <<>> /\ msg = Head(inbox) /\ Tail(inbox) \in Seq(Message)
    BY <1>4, HandlerInbox DEF msg
  <2> DEFINE q == Tail(inbox)
             m == StoppedMsg(msg.take, FALSE, msg.audio /\ rolling_in = 0)
  <2>2. inbox' = q \/ inbox' = Append(q, m)
    BY <1>4, HandlerInbox
  <2>3. m.kind # "DaemonListen"
    BY DEF StoppedMsg, Blank
  <2>4. /\ \A e \in DOMAIN q : e + 1 \in DOMAIN inbox /\ q[e] = inbox[e + 1]
        /\ msg.kind = "DaemonListen" =>
             \A e \in DOMAIN q : q[e].kind = "DaemonListen" => q[e].listen # msg.listen
    <3>1. \A e \in DOMAIN q : e + 1 \in DOMAIN inbox /\ q[e] = inbox[e + 1]
      BY <1>1, <2>1, TailAt
    <3>2. \A x \in DOMAIN listens : listens[x].alone = listens[x].alone
      OBVIOUS
    <3>3. QED BY <1>1, <2>1, <3>1, <3>2, AskedTail
  <2> HIDE DEF m
  <2>5. \E e \in DOMAIN q : q[e].kind = "DaemonListen" /\ q[e].listen = k
    <3>1. CASE inbox' = q
      BY <1>2, <3>1
    <3>2. CASE inbox' = Append(q, m)
      <4> HIDE DEF q
      <4>1. q \in Seq(Message)
        BY <2>1 DEF q
      <4>2. QED BY <1>2, <2>3, <3>2, <4>1, AppendAt
    <3>3. QED BY <2>2, <3>1, <3>2
  <2>6. QED BY <2>4, <2>5 DEF AsksFor, DaemonListen, Receive
<1>5. CASE CoordinatorPanic
  BY <1>5 DEF CoordinatorPanic, Fault
<1>6. ASSUME DaemonListen PROVE CoordinatorNext
  BY <1>6 DEF CoordinatorNext
<1>7. CASE AudioWorkerNext \/ RollerNext \/ RollerFails
  <2>1. inbox' = inbox \/ \E m : m.kind # "DaemonListen" /\ inbox' = Append(inbox, m)
    BY <1>7, ThreadsSend DEF SendsUnasked, Unasked, ReplyKinds, EndKinds, RollerKinds
  <2>2. AsksFor(inbox, k)
    BY <1>2, <1>3, <2>1 DEF AsksFor
  <2>3. ~CoordinatorNext => ~(DaemonListen /\ msg.listen = k)
    BY <1>6
  <2>4. QED BY <1>4, <2>2, <2>3
<1>8. CASE JobNext \/ JobFails
  <2>1. \E m : m.kind # "DaemonListen" /\ inbox' = Append(inbox, m)
    BY <1>8, JobSends DEF ResultOf, ResultKinds
  <2>2. QED BY <1>3, <1>4, <1>6, <2>1
<1>9. CASE EnvNext
  <2>1. CASE \E m : inbox' = Append(inbox, m) /\ m.kind # "DaemonListen"
    BY <1>3, <1>4, <1>6, <2>1
  <2>2. CASE inbox' = inbox
    BY <1>2, <1>4, <1>6, <2>2 DEF AsksFor
  <2>3. CASE \E n : /\ n.status = "waiting" /\ listens' = Append(listens, n)
                    /\ inbox' = Append(inbox, DaemonListenMsg(Len(listens) + 1))
    <3> DEFINE m == DaemonListenMsg(Len(listens) + 1)
    <3>1. m.listen = Len(listens) + 1
      BY DEF DaemonListenMsg, Blank
    <3> HIDE DEF m
    <3>2. inbox' = Append(inbox, m)
      BY <2>3 DEF m
    <3>3. QED BY <1>3, <1>4, <1>6, <2>3, <3>1, <3>2
  <2>4. QED BY <1>9, <2>1, <2>2, <2>3, EnvSends
<1>10. CASE TimerNext \/ FinisherNext \/ UNCHANGED vars
  <2>1. inbox' = inbox
    BY <1>10, TimerFrame, FinisherFrame, StutterFrame
  <2>2. QED BY <1>2, <1>4, <1>6, <2>1 DEF AsksFor
<1>11. QED BY <1>4, <1>5, <1>7, <1>8, <1>9, <1>10 DEF Next

LEMMA FreshStep ==
  ASSUME TypeOK, Asked(inbox, listens), Fresh, "panic" \notin Faults, [Next]_vars
  PROVE  Fresh'
<1>1. inbox \in Seq(Message) /\ listens \in Seq(ListenRecord)
      /\ DOMAIN listens = 1..Len(listens) /\ Len(listens) \in Nat
  BY LenProperties DEF TypeOK
<1>2. DOMAIN listens \subseteq DOMAIN listens'
  <2>1. CASE CoordinatorNext
    BY <2>1, HandlerAnswers, DaemonAnswers DEF Keeps
  <2>2. CASE TimerNext
    <3>1. listens' = listens \/ listens' = Answer(listens, pending_listen, "err", 0)
      BY <2>2 DEF TimerNext, TimerWakes, TimerSeesState, TimerStarts, NoCapture, start_recording
    <3>2. QED BY <3>1, AnswerIs
  <2>3. CASE EnvNext
    <3>1. ASSUME NEW n, listens' = Append(listens, n) PROVE DOMAIN listens \subseteq DOMAIN listens'
      BY <1>1, <3>1, AppendAt
    <3>2. QED BY <2>3, <3>1, EnvSends
  <2>4. CASE CoordinatorPanic
    BY <2>4 DEF CoordinatorPanic, Fault
  <2>5. QED
    BY <2>1, <2>2, <2>3, <2>4, WorkerFrame, RollerFrame, JobFrame, FinisherFrame, StutterFrame
       DEF Next
<1>3. ASSUME DaemonListen PROVE msg.listen \in DOMAIN listens
  <2>1. inbox # <<>> /\ msg.kind = "DaemonListen"
    BY <1>3 DEF DaemonListen, Receive
  <2>2. 1 \in DOMAIN inbox /\ inbox[1] = msg
    BY <1>1, <2>1, TailAt DEF msg
  <2>3. QED BY <2>1, <2>2 DEF Asked
<1>4. ASSUME NEW k \in Nat \ {0}, k \notin DOMAIN listens' PROVE Untouched(k)'
  <2>1. k \notin DOMAIN listens /\ ~(DaemonListen /\ msg.listen = k)
    BY <1>2, <1>3, <1>4
  <2>2. Untouched(k)
    BY <2>1 DEF Fresh
  <2>3. QED BY <2>1, <2>2, UntouchedStep
<1>5. ASSUME NEW k \in Nat \ {0}, AsksFor(inbox', k)
      PROVE  Untouched(k)' /\ listens'[k].status = "waiting"
  <2>1. CASE AsksFor(inbox, k) /\ ~(DaemonListen /\ msg.listen = k)
    <3>1. Untouched(k) /\ listens[k].status = "waiting"
      BY <2>1 DEF Fresh
    <3>2. k \in DOMAIN listens
      BY <2>1 DEF AsksFor, Asked
    <3>3. QED BY <2>1, <3>1, <3>2, UntouchedStep
  <2>2. CASE /\ k = Len(listens) + 1 /\ ~CoordinatorNext
             /\ \E n : n.status = "waiting" /\ listens' = Append(listens, n)
    <3>1. k \notin DOMAIN listens
      BY <1>1, <2>2
    <3>2. Untouched(k) /\ ~DaemonListen
      BY <2>2, <3>1 DEF Fresh, CoordinatorNext
    <3>3. listens'[k].status = "waiting"
      BY <1>1, <2>2, AppendAt
    <3>4. QED BY <3>2, <3>3, UntouchedStep
  <2>3. QED BY <1>5, <2>1, <2>2, AskedOnce
<1>6. QED BY <1>4, <1>5 DEF Fresh

LEMMA NowhereStep ==
  ASSUME TypeOK, Asked(inbox, listens), "panic" \notin Faults, [Next]_vars,
         NEW l \in DOMAIN listens, Nowhere(l)
  PROVE  Nowhere(l)' /\ listens'[l] = listens[l]
<1>1. listens \in Seq(ListenRecord) /\ inbox \in Seq(Message)
  BY DEF TypeOK
<1>2. l \in Nat \ {0} /\ l # Len(listens) + 1
  BY <1>1, LenProperties
<1>3. Untouched(l) /\ ~AsksFor(inbox, l)
  BY DEF Nowhere, Untouched, OnlyAsked, AsksFor
<1>4. ~(DaemonListen /\ msg.listen = l)
  <2> SUFFICES ASSUME DaemonListen PROVE msg.listen # l
    OBVIOUS
  <2>1. inbox # <<>>
    BY DEF DaemonListen, Receive
  <2>2. 1 \in DOMAIN inbox /\ inbox[1] = msg
    BY <1>1, <2>1, TailAt DEF msg
  <2>3. QED BY <2>2 DEF Nowhere
<1>5. ~AsksFor(inbox', l)
  BY <1>2, <1>3, AskedOnce
<1>6. Untouched(l)' /\ listens'[l] = listens[l]
  BY <1>2, <1>3, <1>4, UntouchedStep
<1>7. QED BY <1>5, <1>6 DEF Nowhere, Untouched, OnlyAsked, AsksFor

LEMMA AnsweredStep ==
  ASSUME TypeOK, Asked(inbox, listens), "panic" \notin Faults, [Next]_vars,
         NEW l \in DOMAIN listens, Answered(l)
  PROVE  Answered(l)'
<1>1. Nowhere(l)' /\ listens'[l] = listens[l]
  BY NowhereStep DEF Answered
<1>2. \A t, k : Recorded(t, k) => Recorded(t, k)'
  BY RecordedStep
<1>3. ASSUME listens[l].status = "ok"
      PROVE  listens[l].take \in DOMAIN takes' /\ takes'[listens[l].take].listen = l
  <2> DEFINE t == listens[l].take
  <2>1. Recorded(t, l)
    BY <1>3 DEF Answered
  <2> HIDE DEF t
  <2>2. t \in DOMAIN takes' /\ takes'[t].listen = l
    BY <1>2, <2>1 DEF Recorded
  <2>3. QED BY <2>2 DEF t
<1>4. QED BY <1>1, <1>3 DEF Answered, Recorded

-----------------------------------------------------------------------------
(* Most messages tell nothing of the recording or of its words: as they     *)
(* come and go an accepted listen is served as before.                      *)
NeutralInbox ==
  \/ inbox' = inbox
  \/ \E m : m.kind \notin MarkedKinds /\ inbox' = Append(inbox, m)
  \/ inbox # <<>> /\ msg.kind \notin MarkedKinds /\ inbox' = Tail(inbox)

LEMMA NeutralKeeps ==
  ASSUME TypeOK, NeutralInbox
  PROVE  /\ \A K \in SUBSET MarkedKinds : ~HasKind(inbox, K) => ~HasKind(inbox', K)
         /\ \A t : Announced(inbox, rolling_in, t) => Announced(inbox', rolling_in, t)
         /\ \A e : ClosesAt(inbox, rolling_in, e) =>
              \E f \in DOMAIN inbox' :
                ClosesAt(inbox', rolling_in, f) /\ inbox'[f] = inbox[e]
         /\ \A e, l : BackAt(inbox, e, l) =>
              \E f \in DOMAIN inbox' : BackAt(inbox', f, l) /\ inbox'[f] = inbox[e]
<1>1. inbox \in Seq(Message)
  BY DEF TypeOK
<1>2. CASE inbox' = inbox
  <2>1. \A e : ClosesAt(inbox, rolling_in, e) => e \in DOMAIN inbox
    BY DEF ClosesAt
  <2>2. \A e, l : BackAt(inbox, e, l) => e \in DOMAIN inbox
    BY DEF BackAt
  <2>3. QED BY <1>2, <2>1, <2>2
<1>3. CASE \E m : m.kind \notin MarkedKinds /\ inbox' = Append(inbox, m)
  <2>1. PICK m : m.kind \notin MarkedKinds /\ inbox' = Append(inbox, m)
    BY <1>3
  <2>2. /\ m.kind # "Started" /\ m.kind \notin {"Started"} \cup CloseKinds
        /\ m.kind \notin ResultKinds
    BY <2>1 DEF MarkedKinds
  <2>3. \A K \in SUBSET MarkedKinds : ~HasKind(inbox, K) => ~HasKind(inbox', K)
    BY <1>1, <2>1, WithoutAppend
  <2>4. \A t : Announced(inbox, rolling_in, t) => Announced(inbox', rolling_in, t)
    BY <1>1, <2>1, <2>2, AnnouncedAppend
  <2>5. ASSUME NEW e, ClosesAt(inbox, rolling_in, e)
        PROVE  \E f \in DOMAIN inbox' : ClosesAt(inbox', rolling_in, f) /\ inbox'[f] = inbox[e]
    BY <1>1, <2>1, <2>2, <2>5, ClosesAppend
  <2>6. ASSUME NEW e, NEW l, BackAt(inbox, e, l)
        PROVE  \E f \in DOMAIN inbox' : BackAt(inbox', f, l) /\ inbox'[f] = inbox[e]
    BY <1>1, <2>1, <2>2, <2>6, BackAppend
  <2>7. QED BY <2>3, <2>4, <2>5, <2>6
<1>4. CASE inbox # <<>> /\ msg.kind \notin MarkedKinds /\ inbox' = Tail(inbox)
  <2>1. /\ Head(inbox).kind # "Started" /\ Head(inbox).kind \notin CloseKinds
        /\ Head(inbox).kind \notin ResultKinds
    BY <1>4 DEF MarkedKinds, msg
  <2>2. HoldsOn(inbox, rolling_in, rolling_in)
    BY <2>1 DEF HoldsOn
  <2>3. \A K \in SUBSET MarkedKinds : ~HasKind(inbox, K) => ~HasKind(inbox', K)
    BY <1>1, <1>4, WithoutTail
  <2>4. \A t : Announced(inbox, rolling_in, t) => Announced(inbox', rolling_in, t)
    BY <1>1, <1>4, <2>2, AnnouncedTail
  <2>5. ASSUME NEW e, ClosesAt(inbox, rolling_in, e)
        PROVE  \E f \in DOMAIN inbox' : ClosesAt(inbox', rolling_in, f) /\ inbox'[f] = inbox[e]
    BY <1>1, <1>4, <2>1, <2>2, <2>5, ClosesTail
  <2>6. ASSUME NEW e, NEW l, BackAt(inbox, e, l)
        PROVE  \E f \in DOMAIN inbox' : BackAt(inbox', f, l) /\ inbox'[f] = inbox[e]
    BY <1>1, <1>4, <2>1, <2>6, BackTail
  <2>7. QED BY <2>3, <2>4, <2>5, <2>6
<1>5. QED BY <1>2, <1>3, <1>4 DEF NeutralInbox

(* The coordinator and the audio worker hold on to what they have.          *)
NeutralRest(l) ==
  /\ UNCHANGED <<dictation_state, pending_listen, rolling_in, pending_rolling, mic, jobs>>
  /\ NoStarts(cmds) => NoStarts(cmds')
  /\ StartsFor(cmds, l) => StartsFor(cmds', l)

LEMMA NeutralRecords ==
  ASSUME TypeOK, NEW l, Records(l), NeutralInbox, NeutralRest(l),
         \A t, k : Recorded(t, k) => Recorded(t, k)'
  PROVE  Records(l)'
<1>1. /\ {"Started"} \cup CloseKinds \in SUBSET MarkedKinds
      /\ CloseKinds \in SUBSET MarkedKinds /\ ResultKinds \in SUBSET MarkedKinds
  BY DEF MarkedKinds
<1>2. /\ dictation_state' = "Recording" /\ pending_listen' = l /\ pending_rolling' = NoPending
      /\ mic' = mic /\ rolling_in' = rolling_in
  BY DEF Records, NeutralRest
<1>3. NoJobs'
  BY <1>1, NeutralKeeps DEF Records, NoJobs, NeutralRest
<1>4. CASE Queued(l)
  <2>1. ~HasKind(inbox', {"Started"} \cup CloseKinds) /\ StartsFor(cmds', l)
    BY <1>1, <1>4, NeutralKeeps DEF Queued, NeutralRest
  <2>2. Queued(l)'
    BY <1>2, <1>4, <2>1 DEF Queued
  <2>3. QED BY <1>2, <1>3, <2>2 DEF Records
<1>5. CASE UnderWay(l)
  <2>1. ~HasKind(inbox', CloseKinds) /\ Announced(inbox', rolling_in, mic.take)
    BY <1>1, <1>5, NeutralKeeps DEF UnderWay
  <2>2. mic'.on /\ Recorded(mic.take, l)' /\ NoStarts(cmds')
    <3> DEFINE t == mic.take
    <3>1. mic.on /\ NoStarts(cmds) /\ Recorded(t, l)
      BY <1>5 DEF UnderWay
    <3>2. mic'.take = t
      BY <1>2
    <3> HIDE DEF t
    <3>3. t \in DOMAIN takes' /\ takes'[t].listen = l
      BY <3>1 DEF Recorded
    <3>4. QED BY <1>2, <3>1, <3>2, <3>3 DEF NeutralRest, Recorded
  <2>3. UnderWay(l)'
    BY <1>2, <2>1, <2>2 DEF UnderWay
  <2>4. QED BY <1>2, <1>3, <2>3 DEF Records
<1>6. CASE Over(l)
  <2>1. PICK e \in DOMAIN inbox :
               /\ ClosesAt(inbox, rolling_in, e)
               /\ inbox[e].kind \in {"Stopped", "Disconnected"} => Recorded(inbox[e].take, l)
    BY <1>6 DEF Over
  <2>2. PICK f \in DOMAIN inbox' : ClosesAt(inbox', rolling_in, f) /\ inbox'[f] = inbox[e]
    BY <2>1, NeutralKeeps
  <2>3. inbox'[f].kind \in {"Stopped", "Disconnected"} => Recorded(inbox[f].take, l)'
    BY <2>1, <2>2 DEF Recorded
  <2>4. ~mic'.on /\ NoStarts(cmds')
    BY <1>2, <1>6 DEF Over, NeutralRest
  <2>5. Over(l)'
    BY <1>2, <2>2, <2>3, <2>4 DEF Over
  <2>6. QED BY <1>2, <1>3, <2>5 DEF Records
<1>7. QED BY <1>4, <1>5, <1>6 DEF Records

-----------------------------------------------------------------------------
LEMMA NeutralTranscribes ==
  ASSUME TypeOK, NEW l, Transcribes(l), NeutralInbox, NeutralRest(l), NoNewTags,
         \A t, k : Recorded(t, k) => Recorded(t, k)'
  PROVE  Transcribes(l)'
<1>1. {"Started"} \cup CloseKinds \in SUBSET MarkedKinds /\ ResultKinds \in SUBSET MarkedKinds
  BY DEF MarkedKinds
<1>2. /\ dictation_state' = "Transcribing" /\ pending_listen' = 0 /\ ~mic'.on
      /\ NoStarts(cmds') /\ ~HasKind(inbox', {"Started"} \cup CloseKinds)
  BY <1>1, NeutralKeeps DEF Transcribes, NeutralRest
<1>3. pending_rolling' = pending_rolling /\ jobs' = jobs
  BY DEF NeutralRest
<1>4. ~HasKind(inbox, ResultKinds) => ~HasKind(inbox', ResultKinds)
  BY <1>1, NeutralKeeps
<1>5. CASE WithRoller(l)
  <2> DEFINE p == pending_rolling
  <2>1. p.take \in DOMAIN takes' /\ takes'[p.take].listen = l
    <3>1. Recorded(p.take, l)
      BY <1>5 DEF WithRoller
    <3> HIDE DEF p
    <3> DEFINE t == p.take
    <3>2. Recorded(t, l)
      BY <3>1
    <3> HIDE DEF t
    <3>3. t \in DOMAIN takes' /\ takes'[t].listen = l
      BY <3>2 DEF Recorded
    <3>4. QED BY <3>3 DEF t
  <2>2. \A y \in Bearers' : y.epoch = p.epoch => y.take = p.take
    BY <1>5 DEF WithRoller, NoNewTags
  <2>3. NoJobs'
    BY <1>3, <1>4, <1>5 DEF WithRoller, NoJobs
  <2>4. p.waiting /\ p.listen = l
    BY <1>5 DEF WithRoller
  <2>5. pending_rolling' = p
    BY <1>3
  <2> HIDE DEF p
  <2>6. WithRoller(l)'
    BY <2>1, <2>2, <2>3, <2>4, <2>5 DEF WithRoller, Recorded
  <2>7. QED BY <1>2, <2>6 DEF Transcribes
<1>6. CASE WithJob(l)
  <2>1. PICK j \in jobs : jobs = {j} /\ j.listen = l /\ Recorded(j.take, l)
    BY <1>6 DEF WithJob
  <2>2. j.take \in DOMAIN takes' /\ takes'[j.take].listen = l
    BY <2>1 DEF Recorded
  <2>3. WithJob(l)'
    BY <1>3, <1>4, <1>6, <2>1, <2>2 DEF WithJob, Recorded
  <2>4. QED BY <1>2, <2>3 DEF Transcribes
<1>7. CASE ComesBack(l)
  <2>1. PICK e \in DOMAIN inbox : BackAt(inbox, e, l) /\ Recorded(inbox[e].take, l)
    BY <1>7 DEF ComesBack
  <2>2. PICK f \in DOMAIN inbox' : BackAt(inbox', f, l) /\ inbox'[f] = inbox[e]
    BY <2>1, NeutralKeeps
  <2>3. inbox'[f].take \in DOMAIN takes' /\ takes'[inbox'[f].take].listen = l
    <3> DEFINE t == inbox[e].take
    <3>1. Recorded(t, l) /\ inbox'[f].take = t
      BY <2>1, <2>2
    <3> HIDE DEF t
    <3>2. t \in DOMAIN takes' /\ takes'[t].listen = l
      BY <3>1 DEF Recorded
    <3>3. QED BY <3>1, <3>2
  <2>4. ComesBack(l)'
    BY <1>3, <1>7, <2>2, <2>3 DEF ComesBack, Recorded
  <2>5. QED BY <1>2, <2>4 DEF Transcribes
<1>8. QED BY <1>5, <1>6, <1>7 DEF Transcribes

LEMMA NeutralServed ==
  ASSUME TypeOK, NEW l, Served(l), NeutralInbox, NeutralRest(l), NoNewTags,
         \A t, k : Recorded(t, k) => Recorded(t, k)',
         NoneGoes', listens'[l] = listens[l]
  PROVE  Served(l)'
<1>1. Records(l)' \/ Transcribes(l)'
  BY NeutralRecords, NeutralTranscribes DEF Served
<1>2. QED BY <1>1 DEF Served

-----------------------------------------------------------------------------
(* Commands that are not a Start, and the timers of a time that is not Idle.*)
LEMMA MoreCommands ==
  ASSUME TypeOK, NEW l, cmds' = cmds \/ \E e : e.kind # "Start" /\ cmds' = Append(cmds, e)
  PROVE  /\ NoStarts(cmds) => NoStarts(cmds')
         /\ StartsFor(cmds, l) => StartsFor(cmds', l)
<1>1. cmds \in Seq(AudioCommand)
  BY DEF TypeOK
<1>2. CASE cmds' = cmds
  BY <1>2
<1>3. CASE \E e : e.kind # "Start" /\ cmds' = Append(cmds, e)
  <2>1. PICK e : e.kind # "Start" /\ cmds' = Append(cmds, e)
    BY <1>3
  <2>2. /\ Len(cmds) \in Nat /\ DOMAIN cmds = 1..Len(cmds)
        /\ DOMAIN cmds' = 1..(Len(cmds) + 1)
        /\ \A i \in 1..Len(cmds) : cmds'[i] = cmds[i]
        /\ cmds'[Len(cmds) + 1] = e
    BY <1>1, <2>1, AppendAt
  <2>3. \A i \in DOMAIN cmds' : (i \in DOMAIN cmds /\ cmds'[i] = cmds[i]) \/ cmds'[i] = e
    BY <2>2
  <2>4. \A i \in DOMAIN cmds : i \in DOMAIN cmds' /\ cmds'[i] = cmds[i]
    BY <2>2
  <2>5. QED BY <2>1, <2>3, <2>4 DEF NoStarts, StartsFor
<1>4. QED BY <1>2, <1>3

LEMMA NoCommandTaken ==
  ASSUME TypeOK, NEW l, NEW k \in {"Stop", "Cancel"}, TakeCmd(k)
  PROVE  /\ NoStarts(cmds) => NoStarts(cmds')
         /\ ~StartsFor(cmds, l)
<1>1. cmds \in Seq(AudioCommand) /\ cmds # <<>> /\ cmds' = Tail(cmds) /\ Head(cmds).kind = k
  BY DEF TypeOK, TakeCmd
<1>2. Head(cmds) = cmds[1]
  BY <1>1, TailAt
<1>3. QED BY <1>1, <1>2, StartsTail DEF StartsFor

LEMMA TimersWait ==
  ASSUME TypeOK, NoneGoes, dictation_state # "Idle", TimerNext
  PROVE  /\ NoneGoes' /\ UNCHANGED <<dictation_state, pending_listen, listens, cmds>>
<1>1. PICK t \in timers : TimerWakes(t) \/ TimerSeesState(t) \/ TimerStarts(t)
  BY DEF TimerNext
<1>2. t.phase # "go" /\ t \in [tracker: Nat, gen: Nat, phase: TimerPhases]
  BY DEF NoneGoes, TypeOK
<1>3. TimerWakes(t) \/ TimerSeesState(t)
  BY <1>1, <1>2 DEF TimerStarts
<1>4. [t EXCEPT !.phase = "held"].phase # "go"
  BY <1>2
<1>5. timers' = timers \ {t} \/ timers' = (timers \ {t}) \cup {[t EXCEPT !.phase = "held"]}
  BY <1>3 DEF TimerWakes, TimerSeesState, Advance
<1>6. NoneGoes'
  <2> DEFINE n == [t EXCEPT !.phase = "held"]
  <2>1. n.phase # "go" /\ \A s \in timers' : s \in timers \/ s = n
    BY <1>4, <1>5
  <2> HIDE DEF n
  <2>2. QED BY <2>1 DEF NoneGoes
<1>7. QED BY <1>3, <1>6 DEF TimerWakes, TimerSeesState, NoCapture

-----------------------------------------------------------------------------
(* The threads that have no say in it: a listen is served on.               *)
RecordedKept == \A t, k : Recorded(t, k) => Recorded(t, k)'

LEMMA ServedBusy ==
  ASSUME NEW l, Served(l)
  PROVE  /\ dictation_state \in {"Recording", "Transcribing"}
         /\ NoneGoes /\ listens[l].status = "waiting"
BY DEF Served, Records, Transcribes

LEMMA SameRest ==
  ASSUME NEW l,
         UNCHANGED <<dictation_state, pending_listen, rolling_in, pending_rolling, mic, jobs>>,
         cmds' = cmds
  PROVE  NeutralRest(l)
BY DEF NeutralRest

LEMMA SentNeutral ==
  ASSUME NEW K, inbox' = inbox \/ Sends(K), K \cap MarkedKinds = {}
  PROVE  NeutralInbox
BY DEF NeutralInbox, Sends

LEMMA UnmarkedKinds ==
  InputMsgKinds \cap MarkedKinds = {} /\ RollerKinds \cap MarkedKinds = {}
BY DEF InputMsgKinds, RollerKinds, MarkedKinds, CloseKinds, ResultKinds

LEMMA EnvServed ==
  ASSUME TypeOK, RecordedKept, NEW l \in DOMAIN listens, Served(l), EnvNext
  PROVE  Served(l)'
<1>1. listens \in Seq(ListenRecord) /\ inbox \in Seq(Message)
  BY DEF TypeOK
<1>2. /\ UNCHANGED <<dictation_state, is_recording, hands_free_active, pending_listen>>
      /\ UNCHANGED <<hold, rolling_in, rolling_epoch, pending_rolling>>
      /\ UNCHANGED <<cmds, mic, timers, rollers, jobs, finishers, takes>>
  BY EnvFrame
<1>3. inbox' = inbox \/ Sends(InputMsgKinds)
  BY EnvReplies
<1>4. NeutralInbox
  BY <1>3, SentNeutral, UnmarkedKinds
<1>5. NeutralRest(l)
  BY <1>2, SameRest
<1>6. NoNewTags
  <2>1. \A m : m.kind \in InputMsgKinds => m.kind # "Final"
    BY DEF InputMsgKinds
  <2>2. rollers' \subseteq rollers
    BY <1>2
  <2>3. QED BY <1>3, <2>1, <2>2, OldTags DEF Sends
<1>7. NoneGoes'
  BY <1>2, ServedBusy DEF NoneGoes
<1>8. listens'[l] = listens[l]
  <2>1. CASE \E n : listens' = Append(listens, n)
    BY <1>1, <2>1, AppendAt
  <2>2. QED BY <2>1, EnvSends
<1>9. QED BY <1>4, <1>5, <1>6, <1>7, <1>8, NeutralServed DEF RecordedKept

LEMMA RollerServed ==
  ASSUME TypeOK, RecordedKept, NEW l \in DOMAIN listens, Served(l), RollerNext \/ RollerFails
  PROVE  Served(l)'
<1>1. NeutralInbox
  BY RollerReplies, SentNeutral, UnmarkedKinds
<1>2. NeutralRest(l) /\ timers' = timers /\ listens' = listens
  BY RollerFrame, SameRest
<1>3. NoneGoes'
  BY <1>2, ServedBusy DEF NoneGoes
<1>4. QED BY <1>1, <1>2, <1>3, RollerTags, NeutralServed DEF RecordedKept

LEMMA QuietServed ==
  ASSUME TypeOK, RecordedKept, NEW l \in DOMAIN listens, Served(l),
         TimerNext \/ FinisherNext \/ UNCHANGED vars
  PROVE  Served(l)'
<1>1. dictation_state \in {"Recording", "Transcribing"} /\ NoneGoes
  BY ServedBusy
<1>2. /\ UNCHANGED <<inbox, mic, rollers, jobs, rolling_in, pending_rolling, pending_listen>>
      /\ UNCHANGED <<dictation_state, listens, cmds>> /\ NoneGoes'
  <2>1. CASE TimerNext
    BY <1>1, <2>1, TimerFrame, TimersWait
  <2>2. CASE FinisherNext
    <3>1. dictation_state' = dictation_state
      BY <1>1, <2>2 DEF FinisherNext, FinishIdle, FinishClear
    <3>2. QED BY <1>1, <2>2, <3>1, FinisherFrame DEF NoneGoes
  <2>3. CASE UNCHANGED vars
    BY <1>1, <2>3, StutterFrame DEF NoneGoes
  <2>4. QED BY <2>1, <2>2, <2>3
<1>3. NeutralInbox /\ NeutralRest(l)
  BY <1>2, SameRest DEF NeutralInbox
<1>4. NoNewTags
  BY <1>2, OldTags
<1>5. QED BY <1>2, <1>3, <1>4, NeutralServed DEF RecordedKept

-----------------------------------------------------------------------------
(* The input handlers, once the coordinator is busy: at most they ask the   *)
(* audio worker to end the recording, and refuse another listen.            *)
InputHandler ==
  \/ HoldKeyPressed \/ HoldKeyReleased \/ OtherKeyDuringHold \/ CancelRequested
  \/ TrayToggleDictation \/ DaemonListen

LEMMA InputBusy ==
  ASSUME TypeOK, InputHandler, dictation_state \in {"Recording", "Transcribing"}
  PROVE  /\ UNCHANGED <<dictation_state, pending_listen, rolling_in, pending_rolling, mic,
                        jobs, timers>>
         /\ cmds' = cmds \/ \E e : e.kind # "Start" /\ cmds' = Append(cmds, e)
         /\ ~DaemonListen => listens' = listens
         /\ DaemonListen => listens' = Answer(listens, msg.listen, "err", 0)
         /\ inbox # <<>> /\ inbox' = Tail(inbox) /\ msg.kind \in InputMsgKinds
<1>1. StopCmd.kind # "Start" /\ CancelCmd.kind # "Start" /\ dictation_state # "Idle"
  BY DEF StopCmd, CancelCmd
<1>2. ASSUME SendEnd(StopCmd) \/ SendEnd(CancelCmd) \/ NoCapture
      PROVE  /\ UNCHANGED <<dictation_state, pending_listen, listens>>
             /\ cmds' = cmds \/ \E e : e.kind # "Start" /\ cmds' = Append(cmds, e)
  BY <1>1, <1>2 DEF SendEnd, NoCapture
<1>3. CASE HoldKeyPressed \/ OtherKeyDuringHold \/ CancelRequested
  <2>1. /\ SendEnd(StopCmd) \/ SendEnd(CancelCmd) \/ NoCapture
        /\ UNCHANGED gestureFrame /\ timers' = timers /\ msg.kind # "DaemonListen"
    BY <1>1, <1>3 DEF HoldKeyPressed, OtherKeyDuringHold, CancelRequested, Receive
  <2>2. inbox # <<>> /\ inbox' = Tail(inbox) /\ msg.kind \in InputMsgKinds
    BY <1>3 DEF HoldKeyPressed, OtherKeyDuringHold, CancelRequested, Receive, Handled,
       InputMsgKinds
  <2>3. QED BY <1>2, <2>1, <2>2 DEF gestureFrame, DaemonListen, Receive
<1>4. CASE HoldKeyReleased \/ TrayToggleDictation
  <2>1. /\ SendEnd(StopCmd) \/ NoCapture
        /\ UNCHANGED gestureFrame /\ timers' = timers /\ msg.kind # "DaemonListen"
    BY <1>1, <1>4 DEF HoldKeyReleased, TrayToggleDictation, Receive, decide_release
  <2>2. inbox # <<>> /\ inbox' = Tail(inbox) /\ msg.kind \in InputMsgKinds
    BY <1>4 DEF HoldKeyReleased, TrayToggleDictation, Receive, Handled, InputMsgKinds
  <2>3. QED BY <1>2, <2>1, <2>2 DEF gestureFrame, DaemonListen, Receive
<1>5. CASE DaemonListen
  <2>1. /\ UNCHANGED <<dictation_state, pending_listen, cmds, gestureFrame, timers>>
        /\ listens' = Answer(listens, msg.listen, "err", 0)
    BY <1>1, <1>5 DEF DaemonListen
  <2>2. inbox # <<>> /\ inbox' = Tail(inbox) /\ msg.kind \in InputMsgKinds
    BY <1>5 DEF DaemonListen, Receive, Handled, InputMsgKinds
  <2>3. QED BY <1>5, <2>1, <2>2 DEF gestureFrame
<1>6. QED BY <1>3, <1>4, <1>5 DEF InputHandler

(* A message for a recording or a dictation that is not the present one.    *)
StrayHandler ==
  \/ RollingLate
  \/ NotRecording /\ dictation_state # "Recording"
  \/ RollingFinal /\ ~(pending_rolling.waiting /\ pending_rolling.epoch = msg.epoch)
  \/ RollingWorkerLost /\ ~(pending_rolling.waiting /\ pending_rolling.epoch = msg.epoch)

LEMMA StrayStep ==
  ASSUME StrayHandler
  PROVE  /\ UNCHANGED <<dictation_state, pending_listen, rolling_in, pending_rolling, mic,
                        jobs, timers, cmds, listens>>
         /\ inbox # <<>> /\ inbox' = Tail(inbox) /\ msg.kind \notin MarkedKinds
<1>1. \A k \in {"Late", "NotRecording", "Final", "RollingWorkerLost"} : k \notin MarkedKinds
  BY DEF MarkedKinds, CloseKinds, ResultKinds
<1>2. CASE RollingLate
  BY <1>1, <1>2 DEF RollingLate, Receive, Handled, resultFrame, replyFrame
<1>3. CASE NotRecording /\ dictation_state # "Recording"
  BY <1>1, <1>3 DEF NotRecording, Receive, Handled, replyFrame, appVars, history
<1>4. CASE RollingFinal /\ ~(pending_rolling.waiting /\ pending_rolling.epoch = msg.epoch)
  <2> DEFINE route == route_rolling_final(pending_rolling, msg.epoch, msg.out = "text")
  <2>1. route # "Pipeline"
    BY <1>4 DEF route_rolling_final
  <2>2. /\ route = "Pipeline" \/ UNCHANGED <<dictation_state, jobs, listens, pending_rolling>>
        /\ UNCHANGED resultFrame /\ Receive("Final") /\ Handled
    BY <1>4 DEF RollingFinal
  <2> HIDE DEF route
  <2>3. QED BY <1>1, <2>1, <2>2 DEF Receive, Handled, resultFrame, replyFrame
<1>5. CASE RollingWorkerLost /\ ~(pending_rolling.waiting /\ pending_rolling.epoch = msg.epoch)
  BY <1>1, <1>5 DEF RollingWorkerLost, Receive, Handled, resultFrame, replyFrame, history
<1>6. QED BY <1>2, <1>3, <1>4, <1>5 DEF StrayHandler

LEMMA NeutralHandled ==
  ASSUME TypeOK, RecordedKept, Asked(inbox, listens),
         NEW l \in DOMAIN listens, listens[l].alone, Served(l),
         InputHandler \/ StrayHandler
  PROVE  Served(l)'
<1>1. dictation_state \in {"Recording", "Transcribing"} /\ NoneGoes
  BY ServedBusy
<1>2. inbox \in Seq(Message)
  BY DEF TypeOK
<1>3. /\ UNCHANGED <<dictation_state, pending_listen, rolling_in, pending_rolling, mic,
                     jobs, timers>>
      /\ inbox # <<>> /\ inbox' = Tail(inbox) /\ msg.kind \notin MarkedKinds
  BY <1>1, InputBusy, StrayStep, UnmarkedKinds
<1>4. cmds' = cmds \/ \E e : e.kind # "Start" /\ cmds' = Append(cmds, e)
  BY <1>1, InputBusy, StrayStep
<1>5. NeutralInbox
  BY <1>3 DEF NeutralInbox
<1>6. NeutralRest(l)
  BY <1>3, <1>4, MoreCommands DEF NeutralRest
<1>7. NoNewTags
  <2>1. ~Started
    BY <1>3 DEF Started, Receive, MarkedKinds
  <2>2. CoordinatorNext
    BY DEF InputHandler, StrayHandler, CoordinatorNext
  <2>3. QED BY <2>1, <2>2, HandlerTags
<1>8. NoneGoes'
  BY <1>1, <1>3 DEF NoneGoes
<1>9. listens'[l] = listens[l]
  <2>1. CASE DaemonListen
    <3>1. listens' = Answer(listens, msg.listen, "err", 0)
      BY <1>1, <2>1, InputBusy DEF InputHandler
    <3>2. 1 \in DOMAIN inbox /\ inbox[1] = msg
      BY <1>2, <1>3, TailAt DEF msg
    <3>3. msg.kind = "DaemonListen"
      BY <2>1 DEF DaemonListen, Receive
    <3>4. msg.listen # l
      BY <3>2, <3>3 DEF Asked
    <3>5. QED BY <3>1, <3>4, AnswerIs
  <2>2. CASE ~DaemonListen
    BY <1>1, <2>2, InputBusy, StrayStep
  <2>3. QED BY <2>1, <2>2
<1>10. QED BY <1>5, <1>6, <1>7, <1>8, <1>9, NeutralServed DEF RecordedKept

-----------------------------------------------------------------------------
(* The audio worker opens the microphone for the Start that was sent for    *)
(* the listen, and ends that recording once.                                *)
LEMMA RecordsOn ==
  ASSUME NEW l, Records(l), NEW m, m.kind \in ReplyKinds, TypeOK,
         inbox' = Append(inbox, m),
         UNCHANGED <<dictation_state, pending_listen, pending_rolling, jobs>>,
         Queued(l)' \/ UnderWay(l)' \/ Over(l)'
  PROVE  Records(l)'
<1>1. m.kind \notin ResultKinds
  BY DEF ReplyKinds, EndKinds, ResultKinds
<1>2. ~HasKind(inbox', ResultKinds)
  BY <1>1, WithoutAppend DEF Records, NoJobs, TypeOK
<1>3. NoJobs'
  BY <1>2 DEF Records, NoJobs
<1>4. QED BY <1>3 DEF Records

LEMMA OpenUnderWay ==
  ASSUME TypeOK, NEW l, Queued(l), OpenMic
  PROVE  /\ UnderWay(l)'
         /\ \E m : m.kind \in ReplyKinds /\ inbox' = Append(inbox, m)
<1> DEFINE t == Len(takes) + 1
           n == [fate |-> "capturing", listen |-> Head(cmds).listen, deliveries |-> 0]
           m == StartedMsg(t, Head(cmds).rolling)
<1>1. /\ inbox \in Seq(Message) /\ cmds \in Seq(AudioCommand) /\ cmds # <<>>
      /\ takes \in Seq(TakeRecord) /\ cmds' = Tail(cmds)
  BY DEF TypeOK, OpenMic, TakeCmd
<1>2. Head(cmds).listen = l /\ NoStarts(cmds')
  BY <1>1, TailAt, StartsTail DEF Queued, StartsFor
<1>3. m.kind = "Started" /\ m.take = t /\ n.listen = l
  BY <1>2 DEF StartedMsg, Blank
<1>4. mic'.on /\ mic'.take = t
  BY DEF OpenMic, Mic
<1>5. takes' = Append(takes, n) /\ inbox' = Append(inbox, m) /\ rolling_in' = rolling_in
  BY DEF OpenMic, Reply, workerFrame, localVars
<1> HIDE DEF n, m
<1>6. t \in DOMAIN takes' /\ takes'[t].listen = l
  BY <1>1, <1>3, <1>5, AppendAt
<1> HIDE DEF t
<1>7. m.kind \notin CloseKinds
  BY <1>3 DEF CloseKinds
<1>8. ~HasKind(inbox, CloseKinds) /\ ~HasKind(inbox, {"Started"})
  BY DEF Queued, HasKind
<1>9. ~HasKind(inbox', CloseKinds)
  BY <1>1, <1>5, <1>7, <1>8, WithoutAppend
<1>10. Announced(inbox', rolling_in, t)
  <2>1. /\ Len(inbox) \in Nat /\ DOMAIN inbox = 1..Len(inbox)
        /\ DOMAIN inbox' = 1..(Len(inbox) + 1)
        /\ \A i \in 1..Len(inbox) : inbox'[i] = inbox[i]
        /\ inbox'[Len(inbox) + 1] = m
    BY <1>1, <1>5, AppendAt
  <2>2. \A i \in DOMAIN inbox' : inbox'[i].kind = "Started" => inbox'[i] = m
    BY <1>8, <2>1 DEF HasKind
  <2>3. HasKind(inbox', {"Started"})
    BY <1>3, <2>1 DEF HasKind
  <2>4. QED BY <1>3, <2>2, <2>3 DEF Announced
<1>11. Recorded(mic.take, l)'
  BY <1>4, <1>6 DEF Recorded
<1>12. UnderWay(l)'
  BY <1>2, <1>4, <1>5, <1>9, <1>10, <1>11 DEF UnderWay
<1>13. m.kind \in ReplyKinds
  BY <1>3 DEF ReplyKinds
<1>14. QED BY <1>5, <1>12, <1>13

LEMMA OpenFailsOver ==
  ASSUME TypeOK, NEW l, Queued(l), OpenFails
  PROVE  /\ Over(l)'
         /\ \E m : m.kind \in ReplyKinds /\ inbox' = Append(inbox, m)
<1> DEFINE m == Plain("Error")
<1>1. /\ inbox \in Seq(Message) /\ cmds \in Seq(AudioCommand) /\ cmds # <<>>
      /\ cmds' = Tail(cmds) /\ inbox' = Append(inbox, m) /\ mic' = mic
  BY DEF TypeOK, OpenFails, TakeCmd, Reply
<1>2. NoStarts(cmds') /\ ~mic'.on
  BY <1>1, StartsTail DEF Queued, StartsFor
<1>3. m.kind = "Error" /\ m.kind \in CloseKinds /\ m.kind \in ReplyKinds
  BY DEF Plain, Blank, CloseKinds, ReplyKinds, EndKinds
<1> HIDE DEF m
<1>4. ~HasKind(inbox, CloseKinds)
  BY DEF Queued, HasKind
<1>5. PICK e \in DOMAIN inbox' : ClosesAt(inbox', rolling_in', e) /\ inbox'[e] = m
  BY <1>1, <1>3, <1>4, ClosesNow
<1>6. Over(l)'
  BY <1>2, <1>3, <1>5 DEF Over
<1>7. QED BY <1>1, <1>3, <1>6

CommandTaken == cmds' = cmds \/ (cmds # <<>> /\ cmds' = Tail(cmds))
Closes == StopRecording \/ CancelRecording \/ AutoStop \/ DeviceLost

LEMMA CloseSends ==
  ASSUME TypeOK, Closes
  PROVE  /\ mic.on /\ mic' = NoMic /\ rolling_in' = rolling_in
         /\ CommandTaken
         /\ \E m : /\ m.kind \in CloseKinds /\ m.kind \in ReplyKinds /\ m.take = mic.take
                   /\ inbox' = Append(inbox, m)
<1> DEFINE Out(m) == m.kind \in CloseKinds /\ m.kind \in ReplyKinds /\ m.take = mic.take
<1>1. \A b, c : /\ Out(StoppedMsg(mic.take, b, c)) /\ Out(DisconnectedMsg(mic.take, b, c))
                /\ Out(CancelledMsg(mic.take))
  BY DEF StoppedMsg, DisconnectedMsg, CancelledMsg, Blank, CloseKinds, ReplyKinds, EndKinds
<1> HIDE DEF Out
<1>2. \E m : Out(m) /\ inbox' = Append(inbox, m)
  BY <1>1 DEF Closes, StopRecording, CancelRecording, AutoStop, DeviceLost, Reply
<1>3. mic.on /\ mic' = NoMic /\ CommandTaken
  BY DEF Closes, StopRecording, CancelRecording, AutoStop, DeviceLost, CloseMic, TakeCmd, CommandTaken
<1>4. mic.on /\ mic' = NoMic /\ rolling_in' = rolling_in
  BY DEF Closes, StopRecording, CancelRecording, AutoStop, DeviceLost, CloseMic,
     workerFrame, localVars
<1>5. QED BY <1>2, <1>3, <1>4 DEF Out

LEMMA CloseOver ==
  ASSUME TypeOK, RecordedKept, NEW l, UnderWay(l), Closes
  PROVE  /\ Over(l)'
         /\ \E m : m.kind \in ReplyKinds /\ inbox' = Append(inbox, m)
<1>1. inbox \in Seq(Message) /\ cmds \in Seq(AudioCommand)
  BY DEF TypeOK
<1>2. /\ mic' = NoMic /\ rolling_in' = rolling_in
      /\ CommandTaken
  BY CloseSends
<1>3. PICK m : /\ m.kind \in CloseKinds /\ m.kind \in ReplyKinds /\ m.take = mic.take
               /\ inbox' = Append(inbox, m)
  BY CloseSends
<1>4. NoStarts(cmds')
  BY <1>1, <1>2, StartsTail DEF UnderWay, CommandTaken
<1>5. PICK e \in DOMAIN inbox' : ClosesAt(inbox', rolling_in, e) /\ inbox'[e] = m
  BY <1>1, <1>3, ClosesNow DEF UnderWay
<1>6. m.take \in DOMAIN takes' /\ takes'[m.take].listen = l
  <2> DEFINE t == mic.take
  <2>1. Recorded(t, l) /\ m.take = t
    BY <1>3 DEF UnderWay
  <2> HIDE DEF t
  <2>2. t \in DOMAIN takes' /\ takes'[t].listen = l
    BY <2>1 DEF RecordedKept, Recorded
  <2>3. QED BY <2>1, <2>2
<1>7. Recorded(inbox[e].take, l)'
  BY <1>5, <1>6 DEF Recorded
<1>8. ~mic'.on
  BY <1>2 DEF NoMic
<1>9. Over(l)'
  BY <1>2, <1>4, <1>5, <1>7, <1>8 DEF Over
<1>10. QED BY <1>3, <1>9

LEMMA WorkerServed ==
  ASSUME TypeOK, RecordedKept, NEW l \in DOMAIN listens, Served(l), AudioWorkerNext
  PROVE  Served(l)'
<1>1. /\ UNCHANGED <<dictation_state, is_recording, hands_free_active, pending_listen>>
      /\ UNCHANGED <<hold, rolling_in, rolling_epoch, pending_rolling>>
      /\ UNCHANGED <<timers, rollers, jobs, finishers>>
      /\ UNCHANGED <<rolling_enabled, key_held, listens>>
  BY WorkerFrame
<1>2. NoneGoes' /\ listens[l]'.status = "waiting"
  BY <1>1, ServedBusy DEF NoneGoes
<1>3. inbox \in Seq(Message) /\ cmds \in Seq(AudioCommand)
  BY DEF TypeOK
<1>4. ASSUME TakeCmd("Start") PROVE ~NoStarts(cmds)
  <2>1. cmds # <<>> /\ Head(cmds).kind = "Start"
    BY <1>4 DEF TakeCmd
  <2>2. QED BY <1>3, <2>1, StartsTail
<1>5. CASE AckIdle
  <2>1. PICK k \in {"Stop", "Cancel"} : TakeCmd(k)
    BY <1>5 DEF AckIdle
  <2>2. NeutralRest(l)
    BY <1>1, <1>5, <2>1, NoCommandTaken DEF NeutralRest, AckIdle
  <2> DEFINE m == Plain("NotRecording")
  <2>3. inbox' = Append(inbox, m)
    BY <1>5 DEF AckIdle, Reply
  <2>4. m.kind \notin MarkedKinds /\ m.kind # "Final"
    BY DEF Plain, Blank, MarkedKinds, CloseKinds, ResultKinds
  <2> HIDE DEF m
  <2>5. NeutralInbox /\ NoNewTags
    BY <1>1, <2>3, <2>4, OldTags DEF NeutralInbox
  <2>6. QED BY <1>1, <1>2, <2>2, <2>5, NeutralServed DEF RecordedKept
<1>6. CASE OpenMic \/ OpenFails
  <2>1. ~mic.on /\ TakeCmd("Start")
    BY <1>6 DEF OpenMic, OpenFails
  <2>2. Records(l) /\ Queued(l)
    BY <1>4, <2>1 DEF Served, Records, Transcribes, UnderWay, Over
  <2>3. Records(l)'
    BY <1>1, <1>6, <2>2, OpenUnderWay, OpenFailsOver, RecordsOn
  <2>4. QED BY <1>2, <2>3 DEF Served
<1>7. CASE Closes
  <2>1. mic.on
    BY <1>7, CloseSends
  <2>2. Records(l) /\ UnderWay(l)
    BY <2>1 DEF Served, Records, Transcribes, Queued, Over
  <2>3. Records(l)'
    BY <1>1, <1>7, <2>2, CloseOver, RecordsOn
  <2>4. QED BY <1>2, <2>3 DEF Served
<1>8. CASE IgnoreStart
  <2>1. mic.on /\ TakeCmd("Start")
    BY <1>8 DEF IgnoreStart
  <2>2. FALSE
    BY <1>4, <2>1 DEF Served, Records, Transcribes, Queued, UnderWay, Over
  <2>3. QED BY <2>2
<1>9. QED BY <1>5, <1>6, <1>7, <1>8 DEF AudioWorkerNext, Closes

-----------------------------------------------------------------------------
(* The job sends the listen's result.                                       *)
LEMMA JobServed ==
  ASSUME TypeOK, RecordedKept, NEW l \in DOMAIN listens, Served(l), JobNext \/ JobFails
  PROVE  Served(l)'
<1>1. /\ UNCHANGED <<dictation_state, is_recording, hands_free_active, pending_listen>>
      /\ UNCHANGED <<hold, rolling_in, rolling_epoch, pending_rolling>>
      /\ UNCHANGED <<cmds, mic, timers, rollers, finishers>>
      /\ UNCHANGED <<rolling_enabled, key_held, takes, listens>>
  BY JobFrame
<1>2. PICK j \in jobs : \E m : /\ ResultOf(m, j)
                               /\ inbox' = Append(inbox, m) /\ jobs' = jobs \ {j}
  BY JobSends
<1>3. PICK m : ResultOf(m, j) /\ inbox' = Append(inbox, m) /\ jobs' = jobs \ {j}
  BY <1>2
<1>4. Transcribes(l) /\ WithJob(l)
  BY <1>2 DEF Served, Records, Transcribes, WithRoller, ComesBack, NoJobs
<1>5. jobs = {j} /\ j.listen = l /\ Recorded(j.take, l)
  BY <1>2, <1>4 DEF WithJob
<1>6. inbox \in Seq(Message)
  BY DEF TypeOK
<1>7. m.kind \notin {"Started"} \cup CloseKinds
  BY <1>3 DEF ResultOf, ResultKinds, CloseKinds
<1>8. ~HasKind(inbox', {"Started"} \cup CloseKinds)
  BY <1>3, <1>4, <1>6, <1>7, WithoutAppend DEF Transcribes
<1>9. PICK e \in DOMAIN inbox' : BackAt(inbox', e, m.listen) /\ inbox'[e] = m
  BY <1>3, <1>4, <1>6, BackNow DEF WithJob, ResultOf
<1>10. j.take \in DOMAIN takes' /\ takes'[j.take].listen = l
  BY <1>1, <1>5 DEF Recorded
<1>11. inbox'[e].take \in DOMAIN takes' /\ takes'[inbox'[e].take].listen = l
  BY <1>3, <1>9, <1>10 DEF ResultOf
<1>12. BackAt(inbox', e, l) /\ jobs' = {}
  BY <1>3, <1>5, <1>9 DEF ResultOf
<1>13. ComesBack(l)'
  BY <1>1, <1>4, <1>9, <1>11, <1>12 DEF ComesBack, WithJob, Recorded
<1>14. Transcribes(l)'
  BY <1>1, <1>4, <1>8, <1>13 DEF Transcribes
<1>15. NoneGoes' /\ listens[l]'.status = "waiting"
  BY <1>1, ServedBusy DEF NoneGoes
<1>16. QED BY <1>14, <1>15 DEF Served

-----------------------------------------------------------------------------
(* What the head of the channel tells.                                      *)
LEMMA EndHead ==
  ASSUME TypeOK, NEW l, Records(l), inbox # <<>>, msg.kind \in CloseKinds
  PROVE  /\ ~mic.on /\ NoStarts(cmds)
         /\ ~HasKind(Tail(inbox), {"Started"} \cup CloseKinds)
         /\ msg.kind \in {"Stopped", "Disconnected"} =>
              Recorded(msg.take, l) /\ rolling_in \in {0, msg.take}
<1>1. /\ inbox \in Seq(Message) /\ HasKind(inbox, CloseKinds)
      /\ HasKind(inbox, {"Started"} \cup CloseKinds)
  <2>1. HasKind(inbox, CloseKinds)
    BY HeadKind
  <2>2. QED BY <2>1 DEF HasKind, TypeOK
<1>2. Over(l)
  BY <1>1 DEF Records, Queued, UnderWay
<1>3. PICK e \in DOMAIN inbox :
             /\ ClosesAt(inbox, rolling_in, e)
             /\ inbox[e].kind \in {"Stopped", "Disconnected"} => Recorded(inbox[e].take, l)
  BY <1>2 DEF Over
<1> DEFINE q == Tail(inbox)
<1>4. /\ Len(inbox) \in Nat \ {0} /\ DOMAIN inbox = 1..Len(inbox)
      /\ DOMAIN q = 1..(Len(inbox) - 1)
      /\ \A i \in 1..(Len(inbox) - 1) : q[i] = inbox[i + 1]
      /\ inbox[1] = msg
  BY <1>1, TailAt DEF msg
<1> HIDE DEF q
<1>5. e = 1
  BY <1>3, <1>4 DEF ClosesAt
<1>6. \A i \in DOMAIN q : i + 1 \in DOMAIN inbox /\ i + 1 # 1 /\ ~(i + 1 < 1) /\ q[i] = inbox[i + 1]
  BY <1>4
<1>7. ~HasKind(q, {"Started"} \cup CloseKinds)
  BY <1>3, <1>5, <1>6 DEF ClosesAt, HasKind
<1>8. ASSUME msg.kind \in {"Stopped", "Disconnected"}
      PROVE  Recorded(msg.take, l) /\ rolling_in \in {0, msg.take}
  <2>1. Recorded(msg.take, l) /\ Announced(inbox, rolling_in, msg.take)
    BY <1>3, <1>4, <1>5, <1>8 DEF ClosesAt
  <2>2. ~HasKind(inbox, {"Started"})
    <3>1. \A i \in DOMAIN inbox : inbox[i].kind = "Started" => i < 1
      BY <1>3, <1>5 DEF ClosesAt
    <3>2. QED BY <1>4, <3>1 DEF HasKind
  <2>3. QED BY <2>1, <2>2 DEF Announced
<1>9. QED BY <1>2, <1>7, <1>8 DEF Over, q

LEMMA ResultHead ==
  ASSUME TypeOK, NEW l, Transcribes(l), inbox # <<>>, msg.kind \in ResultKinds
  PROVE  /\ pending_rolling = NoPending /\ jobs = {}
         /\ msg.listen = l /\ Recorded(msg.take, l)
         /\ ~HasKind(Tail(inbox), ResultKinds)
<1>1. inbox \in Seq(Message) /\ HasKind(inbox, ResultKinds)
  BY HeadKind DEF TypeOK
<1>2. ComesBack(l)
  BY <1>1 DEF Transcribes, WithRoller, WithJob, NoJobs
<1>3. PICK e \in DOMAIN inbox : BackAt(inbox, e, l) /\ Recorded(inbox[e].take, l)
  BY <1>2 DEF ComesBack
<1> DEFINE q == Tail(inbox)
<1>4. /\ Len(inbox) \in Nat \ {0} /\ DOMAIN inbox = 1..Len(inbox)
      /\ DOMAIN q = 1..(Len(inbox) - 1)
      /\ \A i \in 1..(Len(inbox) - 1) : q[i] = inbox[i + 1]
      /\ inbox[1] = msg
  BY <1>1, TailAt DEF msg
<1> HIDE DEF q
<1>5. e = 1
  BY <1>3, <1>4 DEF BackAt
<1>6. \A i \in DOMAIN q : i + 1 \in DOMAIN inbox /\ i + 1 # 1 /\ q[i] = inbox[i + 1]
  BY <1>4
<1>7. ~HasKind(q, ResultKinds)
  BY <1>3, <1>5, <1>6 DEF BackAt, HasKind
<1>8. QED BY <1>2, <1>3, <1>4, <1>5, <1>7 DEF ComesBack, BackAt, q

LEMMA TailWithout ==
  ASSUME TypeOK, inbox # <<>>, NEW K, ~HasKind(inbox, K)
  PROVE  ~HasKind(Tail(inbox), K) /\ msg.kind \notin K
<1>1. inbox \in Seq(Message)
  BY DEF TypeOK
<1>2. QED BY <1>1, WithoutTail DEF msg

-----------------------------------------------------------------------------
(* The listen has its answer: nothing else holds it.                        *)
LEMMA AnsweredNow ==
  ASSUME Asked(inbox', listens'), TypeOK',
         NEW l \in DOMAIN listens', listens'[l].alone,
         pending_listen' = 0, pending_rolling' = NoPending, NoJobs',
         listens'[l].status \in {"ok", "err"},
         listens'[l].status = "ok" => Recorded(listens[l].take, l)'
  PROVE  Answered(l)'
<1>1. l # 0
  <2>1. listens' \in Seq(ListenRecord)
    BY DEF TypeOK
  <2>2. DOMAIN listens' = 1..Len(listens') /\ Len(listens') \in Nat
    BY <2>1, LenProperties
  <2>3. QED BY <2>2
<1>2. NoPending.listen = 0
  BY DEF NoPending
<1>3. \A i \in DOMAIN inbox' : inbox'[i].listen # l
  <2> SUFFICES ASSUME NEW i \in DOMAIN inbox' PROVE inbox'[i].listen # l
    OBVIOUS
  <2>1. inbox'[i].kind \notin ResultKinds
    BY DEF NoJobs, HasKind
  <2>2. CASE inbox'[i].kind = "DaemonListen"
    BY <2>2 DEF Asked
  <2>3. CASE inbox'[i].kind # "DaemonListen"
    BY <1>1, <2>1, <2>3 DEF Asked
  <2>4. QED BY <2>2, <2>3
<1>4. Nowhere(l)'
  BY <1>1, <1>2, <1>3 DEF Nowhere, NoJobs
<1>5. QED BY <1>4 DEF Answered

-----------------------------------------------------------------------------
(* The audio worker's replies, while the listen's recording is under way.   *)
LEMMA AnswerZero ==
  ASSUME NEW a, NEW t
  PROVE  Answer(listens, NoPending.listen, a, t) = listens
BY DEF Answer, NoPending

(* AnsweredNow, for the listen a handler answered.                          *)
AnswerSent(l) ==
  /\ pending_listen' = 0 /\ pending_rolling' = NoPending /\ NoJobs'
  /\ \/ listens' = Answer(listens, l, "err", 0)
     \/ \E t : listens' = Answer(listens, l, "ok", t) /\ Recorded(t, l)'

LEMMA AnswerArrives ==
  ASSUME TypeOK', Asked(inbox', listens'), TypeOK,
         NEW l \in DOMAIN listens, listens[l].alone, AnswerSent(l)
  PROVE  Answered(l)'
<1>1. l # 0
  <2>1. listens \in Seq(ListenRecord)
    BY DEF TypeOK
  <2>2. DOMAIN listens = 1..Len(listens) /\ Len(listens) \in Nat
    BY <2>1, LenProperties
  <2>3. QED BY <2>2
<1>2. \A a, t : /\ DOMAIN Answer(listens, l, a, t) = DOMAIN listens
                /\ Answer(listens, l, a, t)[l].alone
  BY AnswerIs
<1>3. \A a, t : Answer(listens, l, a, t)[l].status = a /\ Answer(listens, l, a, t)[l].take = t
  BY <1>1, AnswerGiven
<1>4. DOMAIN listens' = DOMAIN listens /\ listens'[l].alone
  BY <1>2 DEF AnswerSent
<1>5. /\ listens'[l].status \in {"ok", "err"}
      /\ listens'[l].status = "ok" => \E t : listens'[l].take = t /\ Recorded(t, l)'
  BY <1>3 DEF AnswerSent
<1>6. listens'[l].status = "ok" => Recorded(listens[l].take, l)'
  BY <1>5 DEF Recorded
<1>7. QED BY <1>4, <1>5, <1>6, AnsweredNow DEF AnswerSent

LEMMA StartedServed ==
  ASSUME TypeOK, RecordedKept, NEW l \in DOMAIN listens, Served(l), Started
  PROVE  Served(l)'
<1>1. /\ inbox # <<>> /\ msg.kind = "Started" /\ inbox' = Tail(inbox)
      /\ UNCHANGED <<dictation_state, pending_listen, jobs, cmds, mic, timers>>
      /\ rolling_in' \in {0, msg.take} /\ pending_rolling' = NoPending
      /\ listens' = Answer(listens, pending_rolling.listen, "dropped", 0)
  BY DEF Started, Receive, Handled, SpawnRollingWorker, replyFrame, appVars
<1>2. inbox \in Seq(Message) /\ HasKind(inbox, {"Started"})
  BY <1>1, HeadKind DEF TypeOK
<1>3. HasKind(inbox, {"Started"} \cup CloseKinds)
  BY <1>2 DEF HasKind
<1>4. Records(l)
  BY <1>3 DEF Served, Transcribes
<1>5. listens' = listens
  BY <1>1, <1>4, AnswerZero DEF Records
<1>6. NoJobs'
  BY <1>1, <1>4, TailWithout DEF Records, NoJobs
<1>7. HoldsOn(inbox, rolling_in, rolling_in')
  BY <1>1 DEF HoldsOn, msg
<1>8. Head(inbox).kind \notin CloseKinds
  BY <1>1 DEF msg, CloseKinds
<1>9. mic' = mic /\ cmds' = cmds
  BY <1>1
<1>10. ASSUME UnderWay(l) PROVE UnderWay(l)'
  <2>1. ~HasKind(inbox', CloseKinds)
    BY <1>1, <1>10, TailWithout DEF UnderWay
  <2>2. Announced(inbox', rolling_in', mic.take)
    BY <1>1, <1>2, <1>7, <1>10, AnnouncedTail DEF UnderWay
  <2> DEFINE t == mic.take
  <2>3. Recorded(t, l) /\ mic'.take = t
    BY <1>1, <1>10 DEF UnderWay
  <2> HIDE DEF t
  <2>4. Recorded(mic.take, l)'
    BY <2>3 DEF RecordedKept, Recorded
  <2>5. /\ mic'.on /\ NoStarts(cmds')
        /\ Announced(inbox', rolling_in', mic'.take)
    BY <1>10, <1>9, <2>2 DEF UnderWay
  <2>6. UnderWay(l)'
    BY <2>1, <2>4, <2>5 DEF UnderWay
  <2>7. QED BY <2>6
<1>11. ASSUME Over(l) PROVE Over(l)'
  <2>1. PICK e \in DOMAIN inbox :
               /\ ClosesAt(inbox, rolling_in, e)
               /\ inbox[e].kind \in {"Stopped", "Disconnected"} => Recorded(inbox[e].take, l)
    BY <1>11 DEF Over
  <2>2. PICK f \in DOMAIN inbox' : ClosesAt(inbox', rolling_in', f) /\ inbox'[f] = inbox[e]
    BY <1>1, <1>2, <1>7, <1>8, <2>1, ClosesTail
  <2>3. inbox'[f].kind \in {"Stopped", "Disconnected"} => Recorded(inbox[f].take, l)'
    BY <2>1, <2>2 DEF RecordedKept, Recorded
  <2>4. ~mic'.on /\ NoStarts(cmds')
    BY <1>11, <1>9 DEF Over
  <2>5. Over(l)'
    BY <2>2, <2>3, <2>4 DEF Over
  <2>6. QED BY <2>5
<1>12. Records(l)'
  <2>1. dictation_state' = "Recording" /\ pending_listen' = l /\ pending_rolling' = NoPending
    BY <1>1, <1>4 DEF Records
  <2>2. ~Queued(l)
    BY <1>3 DEF Queued
  <2>3. UnderWay(l)' \/ Over(l)'
    BY <1>4, <1>10, <1>11, <2>2 DEF Records
  <2>4. QED BY <1>6, <2>1, <2>3 DEF Records
<1>13. NoneGoes' /\ listens[l]'.status = "waiting"
  BY <1>1, <1>5, ServedBusy DEF NoneGoes
<1>14. QED BY <1>12, <1>13 DEF Served

LEMMA AbandonAnswers ==
  ASSUME TypeOK, NEW l, Records(l), inbox # <<>>, Handled, AbandonRecording(listens),
         UNCHANGED jobs
  PROVE  AnswerSent(l)
<1>1. inbox' = Tail(inbox) /\ pending_rolling = NoPending /\ pending_listen = l
  BY DEF Handled, Records
<1>2. NoJobs'
  BY <1>1, TailWithout DEF Records, NoJobs
<1>3. listens' = Answer(listens, l, "err", 0)
  BY <1>1, AnswerZero DEF AbandonRecording
<1>4. QED BY <1>2, <1>3 DEF AnswerSent, AbandonRecording

LEMMA StoppedServed ==
  ASSUME TypeOK, RecordedKept, OwnWorkers, NEW l \in DOMAIN listens, Served(l), Stopped
  PROVE  Served(l)' \/ AnswerSent(l)
<1>1. /\ inbox # <<>> /\ msg.kind = "Stopped" /\ inbox' = Tail(inbox)
      /\ UNCHANGED <<cmds, mic, timers, rolling_epoch>> /\ pending_listen' = 0
  BY DEF Stopped, Receive, Handled, replyFrame
<1>2. HasKind(inbox, {"Stopped"})
  BY <1>1, HeadKind
<1>3. HasKind(inbox, {"Started"} \cup CloseKinds)
  BY <1>2 DEF HasKind, CloseKinds
<1>4. Records(l)
  BY <1>3 DEF Served, Transcribes
<1>5. /\ ~mic.on /\ NoStarts(cmds)
      /\ ~HasKind(inbox', {"Started"} \cup CloseKinds)
      /\ Recorded(msg.take, l) /\ rolling_in \in {0, msg.take}
  BY <1>1, <1>4, EndHead DEF CloseKinds
<1>6. /\ pending_rolling = NoPending /\ pending_listen = l /\ jobs = {}
      /\ ~HasKind(inbox', ResultKinds)
  BY <1>1, <1>4, TailWithout DEF Records, NoJobs
<1>7. NoneGoes'
  BY <1>1, ServedBusy DEF NoneGoes
<1>8. msg.take \in DOMAIN takes' /\ takes'[msg.take].listen = l
  <2> DEFINE t == msg.take
  <2>1. Recorded(t, l)
    BY <1>5
  <2> HIDE DEF t
  <2>2. t \in DOMAIN takes' /\ takes'[t].listen = l
    BY <2>1 DEF RecordedKept, Recorded
  <2>3. QED BY <2>2 DEF t
<1>9. ASSUME dictation_state' = "Transcribing", listens' = listens,
             WithRoller(l)' \/ WithJob(l)'
      PROVE  Served(l)'
  <2>1. Transcribes(l)'
    BY <1>1, <1>5, <1>9 DEF Transcribes
  <2>2. QED BY <1>7, <1>9, <2>1, ServedBusy DEF Served
<1>10. CASE rolling_in # 0
  <2> DEFINE p == Pending(msg.take, rolling_epoch, pending_listen)
  <2>1. p.waiting /\ p.listen = l /\ p.take = msg.take /\ p.epoch = rolling_epoch
    BY <1>6 DEF Pending
  <2>2. /\ dictation_state' = "Transcribing" /\ pending_rolling' = p /\ UNCHANGED jobs
        /\ listens' = Answer(listens, pending_rolling.listen, "dropped", 0)
    BY <1>10 DEF Stopped, set_dictation_state
  <2> HIDE DEF p
  <2>3. listens' = listens
    BY <1>6, <2>2, AnswerZero
  <2>4. NoNewTags
    <3>1. CoordinatorNext /\ ~Started
      BY <1>1 DEF CoordinatorNext, Started, Receive
    <3>2. QED BY <3>1, HandlerTags
  <2>5. \A y \in Bearers' : y.epoch = p.epoch => y.take = p.take
    BY <1>5, <1>10, <2>1, <2>4 DEF NoNewTags, OwnWorkers
  <2>6. NoJobs'
    BY <1>6, <2>2 DEF NoJobs
  <2>7. WithRoller(l)'
    BY <1>8, <2>1, <2>2, <2>5, <2>6 DEF WithRoller, Recorded
  <2>8. QED BY <1>9, <2>2, <2>3, <2>7
<1>11. CASE rolling_in = 0
  <2> DEFINE j == [stage |-> "asr", take |-> msg.take, listen |-> pending_listen,
                   audio |-> msg.audio]
  <2>1. j.take = msg.take /\ j.listen = l
    BY <1>6
  <2>2. pending_rolling' = NoPending
    BY <1>6, <1>11 DEF Stopped
  <2>3. CASE /\ dictation_state' = "Transcribing" /\ jobs' = jobs \cup {j}
             /\ listens' = listens
    <3> HIDE DEF j
    <3>1. jobs' = {j}
      BY <1>6, <2>3
    <3>2. WithJob(l)'
      BY <1>6, <1>8, <2>1, <2>2, <3>1 DEF WithJob, Recorded
    <3>3. QED BY <1>9, <2>3, <3>2
  <2>4. CASE listens' = Answer(listens, pending_listen, "err", 0) /\ jobs' = jobs
    <3>1. NoJobs'
      BY <1>6, <2>4 DEF NoJobs
    <3>2. QED BY <1>1, <1>6, <2>2, <2>4, <3>1 DEF AnswerSent
  <2>5. QED BY <1>11, <2>3, <2>4 DEF Stopped, set_dictation_state
<1>12. QED BY <1>10, <1>11

-----------------------------------------------------------------------------
LEMMA AbandonServed ==
  ASSUME TypeOK, NEW l \in DOMAIN listens, Served(l),
         Cancelled \/ AudioError \/ (NotRecording /\ dictation_state = "Recording")
  PROVE  AnswerSent(l)
<1>1. inbox # <<>> /\ Handled /\ AbandonRecording(listens) /\ UNCHANGED jobs
  BY DEF Cancelled, AudioError, NotRecording, Receive
<1>2. Records(l)
  <2>1. CASE NotRecording /\ dictation_state = "Recording"
    BY <2>1 DEF Served, Transcribes
  <2>2. CASE Cancelled \/ AudioError
    <3>1. msg.kind \in {"Cancelled", "Error"}
      BY <2>2 DEF Cancelled, AudioError, Receive
    <3>2. HasKind(inbox, {"Cancelled", "Error"})
      BY <1>1, <3>1, HeadKind
    <3>3. HasKind(inbox, {"Started"} \cup CloseKinds)
      BY <3>2 DEF HasKind, CloseKinds
    <3>4. QED BY <3>3 DEF Served, Transcribes
  <2>3. QED BY <2>1, <2>2
<1>3. QED BY <1>1, <1>2, AbandonAnswers

(* A lost device's take worth keeping is ended by a second Stopped.         *)
LEMMA DisconnectedServed ==
  ASSUME TypeOK, RecordedKept, NEW l \in DOMAIN listens, Served(l), Disconnected
  PROVE  Served(l)' \/ AnswerSent(l)
<1>1. /\ inbox # <<>> /\ msg.kind = "Disconnected"
      /\ UNCHANGED <<cmds, mic, timers, jobs, pending_rolling>>
  BY DEF Disconnected, Receive, replyFrame
<1>2. HasKind(inbox, {"Disconnected"})
  BY <1>1, HeadKind
<1>3. HasKind(inbox, {"Started"} \cup CloseKinds)
  BY <1>2 DEF HasKind, CloseKinds
<1>4. Records(l)
  BY <1>3 DEF Served, Transcribes
<1> DEFINE q == Tail(inbox)
<1>5. /\ ~mic.on /\ NoStarts(cmds)
      /\ ~HasKind(q, {"Started"} \cup CloseKinds)
      /\ Recorded(msg.take, l) /\ rolling_in \in {0, msg.take}
  BY <1>1, <1>4, EndHead DEF CloseKinds
<1>6. /\ pending_rolling = NoPending /\ pending_listen = l /\ jobs = {}
      /\ dictation_state = "Recording" /\ ~HasKind(q, ResultKinds)
  BY <1>1, <1>4, TailWithout DEF Records, NoJobs
<1>7. NoneGoes'
  BY <1>1, ServedBusy DEF NoneGoes
<1>8. q \in Seq(Message)
  BY <1>1, HeadTailProperties DEF TypeOK
<1>9. CASE /\ inbox' = Append(q, StoppedMsg(msg.take, FALSE, msg.audio /\ rolling_in = 0))
           /\ UNCHANGED <<dictation_state, pending_listen, rolling_in, listens>>
  <2> DEFINE m == StoppedMsg(msg.take, FALSE, msg.audio /\ rolling_in = 0)
  <2>1. m.kind = "Stopped" /\ m.take = msg.take
    BY DEF StoppedMsg, Blank
  <2>2. inbox' = Append(q, m)
    BY <1>9
  <2> HIDE DEF m, q
  <2>3. m.kind \in CloseKinds /\ m.kind \notin ResultKinds
    BY <2>1 DEF CloseKinds, ResultKinds
  <2>4. ~HasKind(q, CloseKinds) /\ ~HasKind(q, {"Started"})
    BY <1>5 DEF HasKind
  <2>5. Announced(q, rolling_in, m.take)
    BY <1>5, <2>1, <2>4 DEF Announced, HasKind
  <2>6. PICK e \in DOMAIN inbox' : ClosesAt(inbox', rolling_in, e) /\ inbox'[e] = m
    BY <1>8, <2>2, <2>3, <2>5, <2>4, ClosesNow
  <2>7. Recorded(inbox[e].take, l)'
    <3> DEFINE t == msg.take
    <3>1. Recorded(t, l) /\ inbox'[e].take = t
      BY <1>5, <2>1, <2>6
    <3> HIDE DEF t
    <3>2. QED BY <3>1 DEF RecordedKept, Recorded
  <2>8. ~mic'.on /\ NoStarts(cmds')
    BY <1>1, <1>5
  <2>9. Over(l)'
    BY <1>9, <2>6, <2>7, <2>8 DEF Over
  <2>10. ~HasKind(inbox', ResultKinds)
    BY <1>6, <1>8, <2>2, <2>3, WithoutAppend
  <2>11. NoJobs'
    BY <1>1, <1>6, <2>10 DEF NoJobs
  <2>12. Records(l)'
    BY <1>1, <1>6, <1>9, <2>9, <2>11 DEF Records
  <2>13. QED BY <1>7, <1>9, <2>12, ServedBusy DEF Served
<1>10. CASE /\ inbox' = q /\ pending_listen' = 0
            /\ listens' = Answer(listens, pending_listen, "err", 0)
  <2>1. NoJobs'
    BY <1>1, <1>6, <1>10 DEF NoJobs
  <2>2. QED BY <1>1, <1>6, <1>10, <2>1 DEF AnswerSent
<1>11. QED BY <1>9, <1>10 DEF Disconnected, Handled

-----------------------------------------------------------------------------
(* The words come back from the rolling worker or the job.                  *)
LEMMA PipelineServed ==
  ASSUME TypeOK, RecordedKept, NEW l \in DOMAIN listens, Served(l), Transcribes(l),
         Recorded(msg.take, l), run_pipeline(msg.take, l, msg.out = "text"),
         UNCHANGED <<pending_listen, mic, cmds, timers>>, jobs = {},
         pending_rolling' = NoPending, inbox # <<>>, inbox' = Tail(inbox),
         ~HasKind(Tail(inbox), ResultKinds)
  PROVE  Served(l)' \/ AnswerSent(l)
<1>1. ~HasKind(inbox', {"Started"} \cup CloseKinds)
  BY TailWithout DEF Transcribes
<1>2. msg.take \in DOMAIN takes' /\ takes'[msg.take].listen = l
  <2> DEFINE t == msg.take
  <2>1. Recorded(t, l)
    OBVIOUS
  <2> HIDE DEF t
  <2>2. t \in DOMAIN takes' /\ takes'[t].listen = l
    BY <2>1 DEF RecordedKept, Recorded
  <2>3. QED BY <2>2 DEF t
<1>3. CASE listens' = Answer(listens, l, "ok", msg.take) /\ UNCHANGED jobs
  <2>1. PICK t : t = msg.take /\ Recorded(t, l)
    OBVIOUS
  <2>2. listens' = Answer(listens, l, "ok", t)
    BY <1>3, <2>1
  <2>3. Recorded(t, l)'
    BY <2>1 DEF RecordedKept
  <2>4. NoJobs'
    BY <1>3 DEF NoJobs
  <2>5. pending_listen' = 0
    BY DEF Transcribes
  <2>6. QED BY <2>2, <2>3, <2>4, <2>5 DEF AnswerSent
<1> DEFINE j == [stage |-> "clean", take |-> msg.take, listen |-> l, audio |-> TRUE]
<1>4. CASE jobs' = jobs \cup {j} /\ UNCHANGED <<dictation_state, listens>>
  <2>1. j.take = msg.take /\ j.listen = l
    OBVIOUS
  <2> HIDE DEF j
  <2>2. jobs' = {j}
    BY <1>4
  <2>3. WithJob(l)'
    BY <1>2, <2>1, <2>2 DEF WithJob, Recorded
  <2>4. Transcribes(l)'
    BY <1>1, <1>4, <2>3 DEF Transcribes
  <2>5. NoneGoes'
    BY ServedBusy DEF NoneGoes
  <2>6. QED BY <1>4, <2>4, <2>5, ServedBusy DEF Served
<1>5. QED BY <1>3, <1>4 DEF run_pipeline, finalize_dictation

LEMMA FinalServed ==
  ASSUME TypeOK, RecordedKept, NEW l \in DOMAIN listens, Served(l), RollingFinal,
         pending_rolling.waiting, pending_rolling.epoch = msg.epoch
  PROVE  Served(l)' \/ AnswerSent(l)
<1>1. /\ inbox # <<>> /\ msg.kind = "Final" /\ inbox' = Tail(inbox)
      /\ UNCHANGED <<pending_listen, mic, cmds, timers>>
  BY DEF RollingFinal, Receive, Handled, resultFrame, replyFrame
<1>2. ~NoPending.waiting
  BY DEF NoPending
<1>3. Transcribes(l) /\ WithRoller(l)
  BY <1>2 DEF Served, Records, Transcribes, WithJob, ComesBack
<1>4. /\ run_pipeline(msg.take, pending_rolling.listen, msg.out = "text")
      /\ pending_rolling' = NoPending
  BY DEF RollingFinal, route_rolling_final
<1>5. msg \in Bearers
  <2>1. inbox \in Seq(Message)
    BY DEF TypeOK
  <2>2. 1 \in DOMAIN inbox /\ inbox[1] = msg
    BY <1>1, <2>1, TailAt DEF msg
  <2>3. QED BY <1>1, <2>2 DEF Bearers
<1>6. msg.take = pending_rolling.take
  BY <1>3, <1>5 DEF WithRoller
<1>7. Recorded(msg.take, l)
  BY <1>3, <1>6 DEF WithRoller
<1>8. pending_rolling.listen = l /\ jobs = {} /\ ~HasKind(Tail(inbox), ResultKinds)
  BY <1>1, <1>3, TailWithout DEF WithRoller, NoJobs
<1>9. QED BY <1>1, <1>3, <1>4, <1>7, <1>8, PipelineServed

LEMMA LostServed ==
  ASSUME TypeOK, NEW l \in DOMAIN listens, Served(l), RollingWorkerLost,
         pending_rolling.waiting, pending_rolling.epoch = msg.epoch
  PROVE  AnswerSent(l)
<1>1. /\ inbox # <<>> /\ inbox' = Tail(inbox) /\ UNCHANGED <<pending_listen, jobs>>
      /\ pending_rolling' = NoPending
      /\ listens' = Answer(listens, pending_rolling.listen, "err", 0)
  BY DEF RollingWorkerLost, Receive, Handled, resultFrame
<1>2. ~NoPending.waiting
  BY DEF NoPending
<1>3. Transcribes(l) /\ WithRoller(l)
  BY <1>2 DEF Served, Records, Transcribes, WithJob, ComesBack
<1>4. NoJobs' /\ pending_rolling.listen = l
  BY <1>1, <1>3, TailWithout DEF WithRoller, NoJobs
<1>5. QED BY <1>1, <1>3, <1>4 DEF AnswerSent, Transcribes

LEMMA ResultServed ==
  ASSUME TypeOK, RecordedKept, NEW l \in DOMAIN listens, Served(l),
         TranscribeResult \/ CleanupDone
  PROVE  Served(l)' \/ AnswerSent(l)
<1>1. /\ inbox # <<>> /\ msg.kind \in ResultKinds /\ inbox' = Tail(inbox)
      /\ UNCHANGED <<pending_listen, mic, cmds, timers, pending_rolling>>
  BY DEF TranscribeResult, CleanupDone, Receive, Handled, resultFrame, replyFrame, ResultKinds
<1>2. HasKind(inbox, ResultKinds)
  BY <1>1, HeadKind
<1>3. Transcribes(l)
  BY <1>2 DEF Served, Records, NoJobs
<1>4. /\ pending_rolling = NoPending /\ jobs = {}
      /\ msg.listen = l /\ Recorded(msg.take, l)
      /\ ~HasKind(Tail(inbox), ResultKinds)
  BY <1>1, <1>3, ResultHead
<1>5. CASE run_pipeline(msg.take, msg.listen, msg.out = "text")
  BY <1>1, <1>3, <1>4, <1>5, PipelineServed
<1>6. CASE listens' = Answer(listens, msg.listen, "err", 0) /\ UNCHANGED jobs
  <2>1. NoJobs'
    BY <1>1, <1>4, <1>6 DEF NoJobs
  <2>2. QED BY <1>1, <1>3, <1>4, <1>6, <2>1 DEF AnswerSent, Transcribes
<1>7. CASE CleanupDone
  <2>1. /\ listens' = Answer(listens, l, "ok", msg.take) /\ UNCHANGED jobs
    BY <1>4, <1>7 DEF CleanupDone, finalize_dictation
  <2>2. PICK t : Recorded(t, l) /\ listens' = Answer(listens, l, "ok", t)
    BY <1>4, <2>1
  <2>3. Recorded(t, l)'
    BY <2>2 DEF RecordedKept
  <2>4. NoJobs'
    BY <1>1, <1>4, <2>1 DEF NoJobs
  <2>5. QED BY <1>1, <1>3, <1>4, <2>2, <2>3, <2>4 DEF AnswerSent, Transcribes
<1>8. QED BY <1>5, <1>6, <1>7 DEF TranscribeResult

-----------------------------------------------------------------------------
LEMMA HandlerServed ==
  ASSUME TypeOK, TypeOK', RecordedKept, Asked(inbox, listens), Asked(inbox', listens'),
         OwnWorkers, NEW l \in DOMAIN listens, listens[l].alone, Served(l), CoordinatorNext
  PROVE  Served(l)' \/ Answered(l)'
<1>1. AnswerSent(l) => Answered(l)'
  BY AnswerArrives
<1>2. CASE InputHandler
  BY <1>2, NeutralHandled
<1>3. CASE Started
  BY <1>3, StartedServed
<1>4. CASE Stopped
  BY <1>1, <1>4, StoppedServed
<1>5. CASE Disconnected
  BY <1>1, <1>5, DisconnectedServed
<1>6. CASE Cancelled \/ AudioError \/ NotRecording
  BY <1>1, <1>6, AbandonServed, NeutralHandled DEF StrayHandler
<1>7. CASE RollingFinal
  BY <1>1, <1>7, FinalServed, NeutralHandled DEF StrayHandler
<1>8. CASE RollingWorkerLost
  BY <1>1, <1>8, LostServed, NeutralHandled DEF StrayHandler
<1>9. CASE RollingLate
  BY <1>9, NeutralHandled DEF StrayHandler
<1>10. CASE TranscribeResult \/ CleanupDone
  BY <1>1, <1>10, ResultServed
<1>11. QED
  BY <1>2, <1>3, <1>4, <1>5, <1>6, <1>7, <1>8, <1>9, <1>10
     DEF CoordinatorNext, InputHandler

-----------------------------------------------------------------------------
(* A listen is accepted as alone in one step only, and then it is served.   *)
LEMMA AcceptedAnswers ==
  ASSUME TypeOK, Asked(inbox, listens), DaemonListen, dictation_state = "Idle"
  PROVE  /\ msg.listen \in DOMAIN listens /\ AsksFor(inbox, msg.listen)
         /\ \E vs : /\ start_recording(TRUE, msg.listen, msg.listen, vs)
                    /\ DOMAIN vs = DOMAIN listens
                    /\ vs[msg.listen].alone = NothingUnderWay
                    /\ pending_listen # msg.listen =>
                         vs[msg.listen].status = listens[msg.listen].status
<1>1. /\ inbox \in Seq(Message) /\ listens \in Seq(ListenRecord)
      /\ inbox # <<>> /\ msg.kind = "DaemonListen"
  BY DEF DaemonListen, Receive, TypeOK
<1>2. 1 \in DOMAIN inbox /\ inbox[1] = msg
  BY <1>1, TailAt DEF msg
<1>3. msg.listen \in DOMAIN listens /\ AsksFor(inbox, msg.listen)
  BY <1>1, <1>2 DEF Asked, AsksFor
<1> DEFINE us == Answer(listens, pending_listen, "dropped", 0)
           vs == [us EXCEPT ![msg.listen].alone = NothingUnderWay]
<1>4. start_recording(TRUE, msg.listen, msg.listen, vs)
  BY DEF DaemonListen
<1>5. /\ us \in Seq(ListenRecord) /\ DOMAIN us = DOMAIN listens
      /\ pending_listen # msg.listen => us[msg.listen] = listens[msg.listen]
  BY <1>1, <1>3, AnswerType, AnswerIs DEF Answers
<1> HIDE DEF us
<1>6. NothingUnderWay \in BOOLEAN
  BY DEF NothingUnderWay
<1>7. /\ DOMAIN vs = DOMAIN us
      /\ msg.listen \in DOMAIN us => /\ vs[msg.listen].alone = NothingUnderWay
                                     /\ vs[msg.listen].status = us[msg.listen].status
  BY <1>5, <1>6, AloneIs
<1> HIDE DEF vs
<1>8. QED BY <1>3, <1>4, <1>5, <1>7

LEMMA AcceptedServed ==
  ASSUME TypeOK, TypeOK', Asked(inbox, listens), Asked(inbox', listens'), Fresh,
         PendingOrNot, DaemonListen, dictation_state = "Idle", NothingUnderWay,
         NEW l, l = msg.listen
  PROVE  Served(l)' \/ Answered(l)'
<1>1. /\ inbox \in Seq(Message) /\ listens \in Seq(ListenRecord) /\ inbox # <<>>
      /\ inbox' = Tail(inbox) /\ timers' = timers
      /\ UNCHANGED <<rolling_in, pending_rolling, mic, jobs>>
  BY DEF TypeOK, DaemonListen, Receive, Handled, gestureFrame
<1>2. l \in DOMAIN listens /\ AsksFor(inbox, l)
  BY AcceptedAnswers
<1>3. PICK vs : /\ start_recording(TRUE, l, l, vs) /\ DOMAIN vs = DOMAIN listens
                /\ vs[l].alone = NothingUnderWay
                /\ pending_listen # l => vs[l].status = listens[l].status
  BY AcceptedAnswers
<1>4. l \in Nat \ {0}
  BY <1>1, <1>2, LenProperties
<1>5. vs[l].status = "waiting" /\ vs[l].alone
  <2>1. Untouched(l) /\ listens[l].status = "waiting"
    BY <1>2, <1>4 DEF Fresh
  <2>2. QED BY <1>3, <2>1 DEF Untouched
<1>6. /\ ~mic.on /\ cmds = <<>> /\ jobs = {} /\ pending_rolling = NoPending /\ NoneGoes
      /\ ~HasKind(inbox, {"Started"} \cup CloseKinds) /\ ~HasKind(inbox, ResultKinds)
  BY DEF NothingUnderWay, PendingOrNot, NoneGoes, HasKind, CloseKinds, ResultKinds
<1>7. ~HasKind(inbox', {"Started"} \cup CloseKinds) /\ NoJobs'
  BY <1>1, <1>6, TailWithout DEF NoJobs
<1>8. NoneGoes'
  BY <1>1, <1>6 DEF NoneGoes
<1> DEFINE c == StartCmd(rolling_enabled, l)
<1>9. CASE /\ dictation_state' = "Recording" /\ pending_listen' = l /\ listens' = vs
           /\ cmds' = Append(cmds, c)
  <2>1. c.kind = "Start" /\ c.listen = l
    BY DEF StartCmd
  <2> HIDE DEF c
  <2>2. cmds' = <<c>>
    BY <1>6, <1>9
  <2>3. DOMAIN cmds' = {1} /\ cmds'[1] = c
    BY <2>2
  <2>4. StartsFor(cmds', l)
    BY <2>1, <2>3 DEF StartsFor
  <2>5. ~mic'.on /\ pending_rolling' = NoPending
    BY <1>1, <1>6
  <2>6. Queued(l)'
    BY <1>7, <2>4, <2>5 DEF Queued
  <2>7. Records(l)'
    BY <1>7, <1>9, <2>5, <2>6 DEF Records
  <2>8. QED BY <1>5, <1>8, <1>9, <2>7 DEF Served
<1>10. CASE pending_listen' = 0 /\ listens' = Answer(vs, l, "err", 0)
  <2>1. DOMAIN listens' = DOMAIN listens /\ listens'[l].alone
    BY <1>2, <1>3, <1>5, <1>10, AnswerIs
  <2>2. listens'[l].status = "err"
    BY <1>2, <1>3, <1>4, <1>10, AnswerGiven
  <2>3. pending_rolling' = NoPending
    BY <1>1, <1>6
  <2>4. QED BY <1>2, <1>7, <1>10, <2>1, <2>2, <2>3, AnsweredNow
<1>11. QED BY <1>3, <1>9, <1>10 DEF start_recording, set_dictation_state

LEMMA NewlyAlone ==
  ASSUME TypeOK, Asked(inbox, listens), "panic" \notin Faults, [Next]_vars,
         NEW l \in DOMAIN listens', listens'[l].alone
  PROVE  \/ l \in DOMAIN listens /\ listens[l].alone
         \/ /\ DaemonListen /\ dictation_state = "Idle" /\ NothingUnderWay
            /\ l = msg.listen
<1>1. listens \in Seq(ListenRecord)
  BY DEF TypeOK
<1>2. CASE CoordinatorNext /\ ~DaemonListen
  BY <1>2, HandlerAnswers DEF Keeps
<1>3. CASE DaemonListen
  <2>1. CASE l # msg.listen
    BY <1>3, <2>1, DaemonAnswers
  <2>2. CASE dictation_state # "Idle"
    <3>1. listens' = Answer(listens, msg.listen, "err", 0)
      BY <1>3, <2>2 DEF DaemonListen
    <3>2. QED BY <3>1, AnswerIs
  <2>3. CASE dictation_state = "Idle" /\ l = msg.listen
    <3>1. PICK vs : /\ start_recording(TRUE, l, l, vs) /\ DOMAIN vs = DOMAIN listens
                    /\ vs[l].alone = NothingUnderWay /\ l \in DOMAIN listens
      BY <1>3, <2>3, AcceptedAnswers
    <3>2. listens' = vs \/ listens' = Answer(vs, l, "err", 0)
      BY <3>1 DEF start_recording
    <3>3. listens'[l].alone = vs[l].alone
      <4> DEFINE ws == Answer(vs, l, "err", 0)
      <4>1. ws[l].alone = vs[l].alone
        BY <3>1, AnswerIs
      <4> HIDE DEF ws
      <4>2. listens' = vs \/ listens' = ws
        BY <3>2 DEF ws
      <4>3. QED BY <4>1, <4>2
    <3>4. QED BY <1>3, <2>3, <3>1, <3>3
  <2>4. QED BY <2>1, <2>2, <2>3
<1>4. CASE TimerNext
  <2>1. listens' = listens \/ listens' = Answer(listens, pending_listen, "err", 0)
    BY <1>4 DEF TimerNext, TimerWakes, TimerSeesState, TimerStarts, NoCapture, start_recording
  <2>2. QED BY <2>1, AnswerIs
<1>5. CASE EnvNext
  <2>1. CASE listens' = listens
    BY <2>1
  <2>2. CASE \E n : n.alone = FALSE /\ listens' = Append(listens, n)
    <3>1. PICK n : n.alone = FALSE /\ listens' = Append(listens, n)
      BY <2>2
    <3>2. /\ Len(listens) \in Nat /\ DOMAIN listens = 1..Len(listens)
          /\ DOMAIN listens' = 1..(Len(listens) + 1)
          /\ \A i \in 1..Len(listens) : listens'[i] = listens[i]
          /\ listens'[Len(listens) + 1] = n
      BY <1>1, <3>1, AppendAt
    <3>3. QED BY <3>1, <3>2
  <2>3. QED BY <1>5, <2>1, <2>2, EnvSends
<1>6. CASE CoordinatorPanic
  BY <1>6 DEF CoordinatorPanic, Fault
<1>7. CASE AudioWorkerNext \/ RollerNext \/ RollerFails \/ JobNext \/ JobFails
           \/ FinisherNext \/ UNCHANGED vars
  <2>1. listens' = listens
    BY <1>7, WorkerFrame, RollerFrame, JobFrame, FinisherFrame, StutterFrame
  <2>2. QED BY <2>1
<1>8. QED BY <1>2, <1>3, <1>4, <1>5, <1>6, <1>7 DEF Next, CoordinatorNext

-----------------------------------------------------------------------------
LEMMA ServedStep ==
  ASSUME TypeOK, TypeOK', Asked(inbox, listens), Asked(inbox', listens'), OwnWorkers,
         "panic" \notin Faults, [Next]_vars,
         NEW l \in DOMAIN listens, listens[l].alone, Served(l)
  PROVE  Served(l)' \/ Answered(l)'
<1>1. RecordedKept
  BY RecordedStep DEF RecordedKept
<1>2. CASE CoordinatorNext
  BY <1>1, <1>2, HandlerServed
<1>3. CASE AudioWorkerNext
  BY <1>1, <1>3, WorkerServed
<1>4. CASE RollerNext \/ RollerFails
  BY <1>1, <1>4, RollerServed
<1>5. CASE JobNext \/ JobFails
  BY <1>1, <1>5, JobServed
<1>6. CASE EnvNext
  BY <1>1, <1>6, EnvServed
<1>7. CASE TimerNext \/ FinisherNext \/ UNCHANGED vars
  BY <1>1, <1>7, QuietServed
<1>8. CASE CoordinatorPanic
  BY <1>8 DEF CoordinatorPanic, Fault
<1>9. QED BY <1>2, <1>3, <1>4, <1>5, <1>6, <1>7, <1>8 DEF Next

LEMMA ListenInvInit == Init => ListenInv
<1> SUFFICES ASSUME Init PROVE ListenInv
  OBVIOUS
<1>1. inbox = <<>> /\ listens = <<>> /\ rollers = {} /\ jobs = {} /\ pending_listen = 0
      /\ pending_rolling = NoPending /\ NoPending.listen = 0
  BY DEF Init, NoPending
<1>2. DOMAIN inbox = {} /\ DOMAIN listens = {}
  BY <1>1
<1>3. Bearers = {}
  BY <1>1, <1>2 DEF Bearers
<1>4. \A k \in Nat \ {0} : Untouched(k) /\ ~AsksFor(inbox, k)
  BY <1>1, <1>2 DEF Untouched, OnlyAsked, AsksFor
<1>5. QED BY <1>1, <1>2, <1>3, <1>4 DEF ListenInv, Asked, Fresh, OwnWorkers, PendingOrNot

LEMMA ListenInvStep ==
  ASSUME TypeOK, TypeOK', ListenInv, "panic" \notin Faults, [Next]_vars
  PROVE  ListenInv'
<1>1. Asked(inbox, listens) /\ Fresh /\ OwnWorkers /\ PendingOrNot
  BY DEF ListenInv
<1>2. Asked(inbox', listens')
  BY <1>1, AskedStep
<1>3. Fresh' /\ OwnWorkers' /\ PendingOrNot'
  BY <1>1, FreshStep, OwnWorkersStep, PendingOrNotStep
<1>4. ASSUME NEW l \in DOMAIN listens', listens'[l].alone
      PROVE  Answered(l)' \/ Served(l)'
  <2>1. CASE l \in DOMAIN listens /\ listens[l].alone
    <3>1. Answered(l) \/ Served(l)
      BY <2>1 DEF ListenInv
    <3>2. QED BY <1>1, <1>2, <2>1, <3>1, AnsweredStep, ServedStep
  <2>2. CASE /\ DaemonListen /\ dictation_state = "Idle" /\ NothingUnderWay
             /\ l = msg.listen
    BY <1>1, <1>2, <2>2, AcceptedServed
  <2>3. QED BY <1>1, <1>4, <2>1, <2>2, NewlyAlone
<1>5. QED BY <1>2, <1>3, <1>4 DEF ListenInv

LEMMA ServedKeepsPromise == ListenInv => ListenAnswersItsOwnTake
<1> SUFFICES ASSUME ListenInv, NEW l \in DOMAIN listens, listens[l].alone
             PROVE  /\ listens[l].status # "dropped"
                    /\ listens[l].status = "ok" => takes[listens[l].take].listen = l
  BY DEF ListenAnswersItsOwnTake
<1>1. CASE Answered(l)
  BY <1>1 DEF Answered, Recorded
<1>2. CASE Served(l)
  BY <1>2 DEF Served
<1>3. QED BY <1>1, <1>2 DEF ListenInv

(* A daemon listen accepted when nothing of another recording was under way *)
(* is answered with the words of its own recording or with an error, and    *)
(* its channel never just dropped, whatever comes while it records: keys,   *)
(* cancels, other listens, a lost device, an early death of the rolling     *)
(* worker, the manager gone.  A panic drops what the handlers held.         *)
THEOREM ListenServed ==
  "panic" \notin Faults => (Spec => []ListenAnswersItsOwnTake)
<1> SUFFICES ASSUME "panic" \notin Faults PROVE Spec => []ListenAnswersItsOwnTake
  OBVIOUS
<1>1. Init => ListenInv
  BY ListenInvInit
<1>2. TypeOK /\ TypeOK' /\ ListenInv /\ [Next]_vars => ListenInv'
  BY ListenInvStep
<1>3. ListenInv => ListenAnswersItsOwnTake
  BY ServedKeepsPromise
<1>4. QED BY <1>1, <1>2, <1>3, TypeCorrect, PTL DEF Spec
=============================================================================
