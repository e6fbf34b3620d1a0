------------------------------- MODULE MCMeeting ------------------------------
(* A few frames per source; only the microphone's hover between thresholds.  *)
EXTENDS MeetingProperties

MCLevels == [s \in Sources |-> IF s = "Me" THEN {"speech", "band", "silence"}
                                           ELSE {"speech", "silence"}]
MCHeard == [s \in Sources |-> IF s = "Me" THEN 3 ELSE 2]
=============================================================================
