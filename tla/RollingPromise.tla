---------------------------- MODULE RollingPromise ----------------------------
(***************************************************************************)
(* What the transcription of a recording under way promises the            *)
(* coordinator, and what module Dictation takes it to be: an abandoned or  *)
(* dead worker says it is lost; told to finish, it answers once, completely *)
(* or partially, however the engine behaves; after a partial answer it may *)
(* follow up once, and ends.                                               *)
(***************************************************************************)
EXTENDS Sequences

VARIABLES stage, sent

Ends(answers) == stage' = "over" /\ sent' = sent \o answers

Release   == stage = "recording" /\ stage' = "finishing" /\ UNCHANGED sent
Disappear == stage = "recording" /\ Ends(<<"RollingWorkerLost">>)

Answer == /\ stage = "finishing"
          /\ \E a \in {"complete", "partial"} : Ends(<<a>>)

AnswerPartially ==
  /\ stage = "finishing"
  /\ stage' = "late" /\ sent' = Append(sent, "partial")

(* The rest; or nothing more; or, after a panic, the audio once again.      *)
FollowUp == /\ stage = "late"
            /\ \E answers \in {<<"Late">>, <<>>, <<"partial">>} : Ends(answers)

Init == stage = "recording" /\ sent = <<>>
Next == Release \/ Disappear \/ Answer \/ AnswerPartially \/ FollowUp

Spec == /\ Init /\ [][Next]_<<stage, sent>>
        /\ WF_<<stage, sent>>(Answer \/ AnswerPartially \/ FollowUp)
=============================================================================
