----------------------------- MODULE SharedProofs -----------------------------
(***************************************************************************)
(* Safety theorems about the model files and the control socket, for every *)
(* size of a model and every number of failures, calls and launches: of    *)
(* one caller that installs, and of one process of the app at a time.      *)
(***************************************************************************)
EXTENDS SharedProperties, SequenceTheorems, FiniteSetTheorems, TLAPS

-----------------------------------------------------------------------------
(* The model files, with one caller.                                        *)

(* `flow models download` does not run beside the app (two at a time swap   *)
(* in each other's half of a directory).                                    *)
OneCaller == \A c, d \in Clients : c = d

DownloadStages ==
  {"idle", "check", "request", "fresh", "stream", "verify", "promote", "mark", "clear", "unpack",
   "unpacking", "replace", "move", "tidy"}
Callers ==
  [at : DownloadStages, file : Nat, appends : BOOLEAN, downloaded : Nat, next : Nat, total : Nat]

FilesShape ==
  /\ kind \in {"parakeet", "cleanup"}
  /\ inodes \in Seq(Seq(Nat))
  /\ partial \in 0..Len(inodes) /\ dest \in 0..Len(inodes)
  /\ client \in [Clients -> Callers]

(* The caller writes to the staging file, which is not the destination.     *)
StagedApart ==
  /\ partial # 0 => partial # dest
  /\ \A c \in Clients : At(c, "stream") => partial # 0 /\ client[c].file = partial

(* Each stage has what the one before it found or made.                     *)
Proven ==
  \A c \in Clients :
    /\ At(c, "promote") => partial # 0 /\ inodes[partial] = Right
    /\ At(c, "mark") => kind = "cleanup" /\ dest # 0 /\ inodes[dest] = Right
    /\ client[c].at \in {"clear", "unpack", "unpacking", "replace", "move", "tidy"} =>
         kind = "parakeet"
    /\ client[c].at \in {"replace", "move"} => extracted = "whole"

(* The sentinel is beside a model that is right; the directory is whole.    *)
Good ==
  /\ sentinel => kind = "cleanup" /\ dest # 0 /\ inodes[dest] = Right
  /\ target \in {"none", "whole"}

DownloadInv == FilesShape /\ StagedApart /\ Proven /\ Good

LEMMA IdleIs == Idle \in Callers /\ Idle.at = "idle"
BY DEF Idle, Callers, DownloadStages

LEMMA RightIs == Right \in Seq(Nat) /\ Len(Right) = Size /\ Size \in Nat /\ Size > 0
<1>1. Size \in Nat /\ Size > 0
  BY DownloadAssumption
<1>2. \A i \in 1..Size : i \in Nat
  OBVIOUS
<1>3. Right = [i \in 1..Size |-> i]
  BY DEF Right
<1>4. QED BY <1>1, <1>2, <1>3, IsASeq

LEMMA DownloadStarts == DownloadInit => DownloadInv
<1> SUFFICES ASSUME DownloadInit PROVE DownloadInv
  OBVIOUS
<1>1. PICK staged \in {SubSeq(Right, 1, n) : n \in 0..Size} \cup {[i \in 1..n |-> 0] : n \in 1..Size+1},
           kept \in {Right, [Right EXCEPT ![Size] = 0]} :
        inodes = <<staged, kept>> /\ partial \in {0, 1}
  BY DEF DownloadInit
<1>2. staged \in Seq(Nat)
  <2>1. ASSUME NEW n \in 0..Size PROVE SubSeq(Right, 1, n) \in Seq(Nat)
    BY RightIs, SubSeqProperties
  <2>2. ASSUME NEW n \in 1..Size+1 PROVE [i \in 1..n |-> 0] \in Seq(Nat)
    BY RightIs, IsASeq
  <2>3. QED BY <1>1, <2>1, <2>2
<1>3. kept \in Seq(Nat)
  <2>1. Size \in 1..Len(Right) /\ 0 \in Nat
    BY RightIs
  <2>2. [Right EXCEPT ![Size] = 0] \in Seq(Nat)
    BY <2>1, RightIs, ExceptSeq
  <2>3. QED BY <1>1, <2>2, RightIs
<1>4. inodes \in Seq(Seq(Nat)) /\ Len(inodes) = 2
  BY <1>1, <1>2, <1>3
<1>5. /\ client = [c \in Clients |-> Idle] /\ dest \in {0, 2} /\ sentinel = FALSE /\ target = "none"
      /\ kind \in {"parakeet", "cleanup"}
  BY DEF DownloadInit
<1>6. client \in [Clients -> Callers] /\ \A c \in Clients : client[c].at = "idle"
  BY <1>5, IdleIs
<1>7. FilesShape
  BY <1>1, <1>4, <1>5, <1>6 DEF FilesShape
<1>8. StagedApart /\ Proven /\ Good
  BY <1>1, <1>5, <1>6 DEF StagedApart, Proven, Good, At
<1>9. QED BY <1>7, <1>8 DEF DownloadInv

LEMMA DownloadStands ==
  ASSUME DownloadInv, UNCHANGED downloadVars
  PROVE  DownloadInv'
<1>1. UNCHANGED <<kind, inodes, partial, dest, sentinel, extracted, target, client>>
  BY DEF downloadVars, paths
<1>2. QED BY <1>1 DEF DownloadInv, FilesShape, StagedApart, Proven, Good, At

(* The caller goes from a stage to another and no file is touched.          *)
LEMMA CallerMoves ==
  ASSUME OneCaller, DownloadInv, NEW c \in Clients,
         UNCHANGED <<kind, inodes, partial, dest, extracted, target>>,
         NEW new \in Callers, client' = [client EXCEPT ![c] = new],
         sentinel' => sentinel,
         \/ new.at \in {"idle", "check", "request", "fresh", "verify"}
         \/ new.at = "stream" /\ partial # 0 /\ new.file = partial
         \/ new.at = "promote" /\ partial # 0 /\ inodes[partial] = Right
  PROVE  DownloadInv'
<1> USE DEF DownloadInv
<1>1. client' \in [Clients -> Callers] /\ \A d \in Clients : client'[d] = new
  BY DEF FilesShape, OneCaller
<1>2. FilesShape'
  BY <1>1 DEF FilesShape
<1>3. StagedApart'
  BY <1>1 DEF StagedApart, At
<1>4. Proven'
  BY <1>1 DEF Proven, At
<1>5. Good'
  BY DEF Good
<1>6. QED BY <1>2, <1>3, <1>4, <1>5

LEMMA CallerIs ==
  ASSUME DownloadInv, NEW c \in Clients
  PROVE  /\ client[c] \in Callers
         /\ \A stage \in DownloadStages :
              /\ [client[c] EXCEPT !.at = stage] \in Callers
              /\ [client[c] EXCEPT !.at = stage].at = stage
              /\ [client[c] EXCEPT !.at = stage].file = client[c].file
              /\ [client EXCEPT ![c].at = stage] = [client EXCEPT ![c] = [client[c] EXCEPT !.at = stage]]
<1>1. client[c] \in Callers
  BY DEF DownloadInv, FilesShape
<1>2. QED BY <1>1 DEF Callers

LEMMA StagesAre ==
  {"idle", "check", "request", "fresh", "stream", "verify", "promote", "mark", "clear", "unpack",
   "unpacking", "replace", "move", "tidy"} \subseteq DownloadStages
BY DEF DownloadStages

LEMMA MovesStep ==
  ASSUME OneCaller, DownloadInv, NEW c \in Clients,
         Begin(c) \/ Resume(c) \/ RequestFails(c) \/ BodyEnds(c) \/ ProcessEnds(c)
  PROVE  DownloadInv'
<1>1. UNCHANGED <<kind, inodes, partial, dest, sentinel, extracted, target>>
  BY DEF Begin, Resume, RequestFails, BodyEnds, ProcessEnds, paths
<1>2. CASE client' = [client EXCEPT ![c] = Idle]
  BY <1>1, <1>2, IdleIs, CallerMoves
<1>3. CASE Begin(c)
  <2>1. client' = [client EXCEPT ![c] = [client[c] EXCEPT !.at = "check"]]
    BY <1>3, CallerIs, StagesAre DEF Begin, GoTo
  <2>2. QED BY <1>1, <2>1, CallerIs, StagesAre, CallerMoves
<1>4. CASE Resume(c)
  <2> DEFINE new == Streaming(partial, TRUE, Existing, Size)
  <2>1. client' = [client EXCEPT ![c] = new] /\ Existing \in 1 .. Size - 1
    BY <1>4 DEF Resume
  <2>2. partial # 0 /\ partial \in Nat
    BY <2>1, RightIs DEF Existing, DownloadInv, FilesShape
  <2>3. new \in Callers /\ new.at = "stream" /\ new.file = partial
    BY <2>1, <2>2, RightIs DEF Streaming, Callers, DownloadStages
  <2>4. QED BY <1>1, <2>1, <2>2, <2>3, CallerMoves
<1>5. CASE BodyEnds(c) /\ GoTo(c, "verify")
  <2>1. client' = [client EXCEPT ![c] = [client[c] EXCEPT !.at = "verify"]]
    BY <1>5, CallerIs, StagesAre DEF GoTo
  <2>2. QED BY <1>1, <2>1, CallerIs, StagesAre, CallerMoves
<1>6. QED
  BY <1>2, <1>3, <1>4, <1>5 DEF RequestFails, BodyEnds, ProcessEnds, Fails, Ends

(* A model that is there and right is given its sentinel.                   *)
LEMMA CheckStep ==
  ASSUME OneCaller, DownloadInv, NEW c \in Clients, CheckModel(c)
  PROVE  DownloadInv'
<1>1. UNCHANGED <<kind, inodes, partial, dest, extracted, target>>
  BY DEF CheckModel
<1>2. CASE GoTo(c, "request") /\ UNCHANGED sentinel
  <2>1. client' = [client EXCEPT ![c] = [client[c] EXCEPT !.at = "request"]]
    BY <1>2, CallerIs, StagesAre DEF GoTo
  <2>2. QED BY <1>1, <1>2, <2>1, CallerIs, StagesAre, CallerMoves
<1>3. CASE /\ Trusted \/ (kind = "cleanup" /\ dest # 0 /\ inodes[dest] = Right)
           /\ Ends(c, "Done") /\ sentinel' = (kind = "cleanup")
  <2> USE DEF DownloadInv
  <2>1. kind = "cleanup" => dest # 0 /\ inodes[dest] = Right
    BY <1>3 DEF Trusted, Good
  <2>2. /\ client' \in [Clients -> Callers] /\ \A d \in Clients : client'[d].at = "idle"
    BY <1>3, IdleIs DEF Ends, FilesShape, OneCaller
  <2>3. FilesShape' /\ StagedApart' /\ Proven'
    BY <1>1, <2>2 DEF FilesShape, StagedApart, Proven, At
  <2>4. Good'
    BY <1>1, <1>3, <2>1 DEF Good
  <2>5. QED BY <2>3, <2>4
<1>4. QED BY <1>2, <1>3 DEF CheckModel

(* The staging file grows, or is made anew; the destination is another.     *)
LEMMA StagingWritten ==
  ASSUME OneCaller, DownloadInv, NEW c \in Clients,
         UNCHANGED <<kind, dest, sentinel, extracted, target>>,
         inodes' \in Seq(Seq(Nat)), partial' \in 1..Len(inodes'), Len(inodes) <= Len(inodes'),
         partial' # dest, dest # 0 => inodes'[dest] = inodes[dest],
         NEW new \in Callers, client' = [client EXCEPT ![c] = new],
         new.at = "stream" /\ new.file = partial'
  PROVE  DownloadInv'
<1> USE DEF DownloadInv
<1>1. client' \in [Clients -> Callers] /\ \A d \in Clients : client'[d] = new
  BY DEF FilesShape, OneCaller
<1>2. dest \in 0..Len(inodes') /\ partial' # 0 /\ partial' \in 0..Len(inodes')
  <2>1. Len(inodes) \in Nat /\ Len(inodes') \in Nat
    BY LenProperties DEF FilesShape
  <2>2. QED BY <2>1 DEF FilesShape
<1>3. FilesShape'
  BY <1>1, <1>2 DEF FilesShape
<1>4. StagedApart' /\ Proven'
  BY <1>1, <1>2 DEF StagedApart, Proven, At
<1>5. Good'
  BY DEF Good
<1>6. QED BY <1>3, <1>4, <1>5

LEMMA FreshStep ==
  ASSUME OneCaller, DownloadInv, NEW c \in Clients, StartFresh(c)
  PROVE  DownloadInv'
<1> USE DEF DownloadInv
<1>1. PICK total \in {0, Size} : client' = [client EXCEPT ![c] = Streaming(partial', FALSE, 0, total)]
  BY DEF StartFresh
<1> DEFINE new == Streaming(partial', FALSE, 0, total)
<1>2. inodes \in Seq(Seq(Nat)) /\ <<>> \in Seq(Nat) /\ Len(inodes) \in Nat
      /\ dest \in 0..Len(inodes) /\ partial \in 0..Len(inodes)
  BY EmptySeq, LenProperties DEF FilesShape
<1>3. /\ inodes' \in Seq(Seq(Nat)) /\ partial' \in 1..Len(inodes') /\ Len(inodes) <= Len(inodes')
      /\ partial' # dest /\ (dest # 0 => inodes'[dest] = inodes[dest])
  <2>1. CASE partial # 0
    <3>1. inodes' = [inodes EXCEPT ![partial] = <<>>] /\ partial' = partial
      BY <2>1 DEF StartFresh
    <3>2. partial \in 1..Len(inodes) /\ partial # dest
      BY <1>2, <2>1 DEF StagedApart
    <3>3. inodes' \in Seq(Seq(Nat)) /\ Len(inodes') = Len(inodes)
          /\ \A i \in 1..Len(inodes) : i # partial => inodes'[i] = inodes[i]
      BY <1>2, <3>1, <3>2, ExceptSeq
    <3>4. dest # 0 => dest \in 1..Len(inodes)
      BY <1>2
    <3>5. QED BY <1>2, <3>1, <3>2, <3>3, <3>4
  <2>2. CASE partial = 0
    <3>1. inodes' = Append(inodes, <<>>) /\ partial' = Len(inodes) + 1
      BY <2>2 DEF StartFresh
    <3>2. inodes' \in Seq(Seq(Nat)) /\ Len(inodes') = Len(inodes) + 1
          /\ \A i \in 1..Len(inodes) : inodes'[i] = inodes[i]
      BY <1>2, <3>1, AppendProperties
    <3>3. dest # 0 => dest \in 1..Len(inodes)
      BY <1>2
    <3>4. QED BY <1>2, <3>1, <3>2, <3>3
  <2>3. QED BY <2>1, <2>2
<1>4. partial' \in Nat /\ total \in Nat
  <2>1. Len(inodes') \in Nat
    BY <1>3, LenProperties
  <2>2. QED BY <1>3, <2>1, RightIs
<1>5. new \in Callers /\ new.at = "stream" /\ new.file = partial'
  BY <1>4 DEF Streaming, Callers, DownloadStages
<1>6. UNCHANGED <<kind, dest, sentinel, extracted, target>>
  BY DEF StartFresh
<1> HIDE DEF new
<1>7. client' = [client EXCEPT ![c] = new]
  BY <1>1 DEF new
<1>8. QED BY <1>3, <1>5, <1>6, <1>7, StagingWritten

LEMMA WrittenIs ==
  ASSUME NEW content \in Seq(Nat), NEW offset \in Nat, NEW unit \in Nat
  PROVE  Written(content, offset, unit) \in Seq(Nat)
<1> DEFINE n == IF offset > Len(content) THEN offset ELSE Len(content)
<1>1. n \in Nat /\ Len(content) \in Nat
  BY LenProperties
<1>2. \A i \in 1..n :
        (IF i = offset THEN unit ELSE IF i <= Len(content) THEN content[i] ELSE 0) \in Nat
  <2>1. SUFFICES ASSUME NEW i \in 1..n, i <= Len(content)
                 PROVE  content[i] \in Nat
    OBVIOUS
  <2>2. i \in 1..Len(content)
    BY <1>1, <2>1
  <2>3. QED BY <2>2, ElementOfSeq
<1>3. QED BY <1>1, <1>2, IsASeq DEF Written

LEMMA ReceiveStep ==
  ASSUME OneCaller, DownloadInv, NEW c \in Clients, Receive(c)
  PROVE  DownloadInv'
<1> USE DEF DownloadInv
<1> DEFINE file == client[c].file
           new == [client[c] EXCEPT !.downloaded = client[c].downloaded + 1,
                                    !.next = client[c].next + 1]
<1>1. /\ inodes \in Seq(Seq(Nat)) /\ Len(inodes) \in Nat /\ partial \in 0..Len(inodes)
      /\ dest \in 0..Len(inodes) /\ client[c] \in Callers /\ client \in [Clients -> Callers]
  BY LenProperties DEF FilesShape
<1>2. /\ client[c].at = "stream" /\ file = partial /\ partial \in 1..Len(inodes) /\ partial # dest
      /\ UNCHANGED <<kind, partial, dest, sentinel, extracted, target>>
  BY <1>1 DEF Receive, At, StagedApart, paths
<1>3. PICK unit \in {client[c].next, 0} :
        inodes' = [inodes EXCEPT ![file] =
                     Written(inodes[file],
                             IF client[c].appends THEN Len(inodes[file]) + 1
                                                  ELSE client[c].downloaded + 1, unit)]
  BY DEF Receive
<1> DEFINE offset == IF client[c].appends THEN Len(inodes[file]) + 1 ELSE client[c].downloaded + 1
           content == Written(inodes[file], offset, unit)
<1>4. /\ client[c].next \in Nat /\ client[c].downloaded \in Nat /\ unit \in Nat
      /\ inodes[file] \in Seq(Nat)
  <2>1. client[c].next \in Nat /\ client[c].downloaded \in Nat
    BY <1>1 DEF Callers
  <2>2. QED BY <1>1, <1>2, <2>1, ElementOfSeq
<1>5. offset \in Nat
  <2>1. Len(inodes[file]) \in Nat
    BY <1>4, LenProperties
  <2>2. QED BY <1>4, <2>1
<1>6. content \in Seq(Nat)
  BY <1>4, <1>5, WrittenIs
<1>7. inodes' = [inodes EXCEPT ![partial] = content]
  BY <1>2, <1>3
<1> HIDE DEF content, offset
<1>8. inodes' \in Seq(Seq(Nat)) /\ Len(inodes') = Len(inodes)
      /\ \A i \in 1..Len(inodes) : i # partial => inodes'[i] = inodes[i]
  BY <1>1, <1>2, <1>6, <1>7, ExceptSeq
<1>9. dest # 0 => dest \in 1..Len(inodes)
  BY <1>1
<1>10. client' = [client EXCEPT ![c] = new]
  BY <1>1 DEF Receive, Callers
<1>11. new \in Callers /\ new.at = "stream" /\ new.file = partial
  <2>1. client[c].downloaded + 1 \in Nat /\ client[c].next + 1 \in Nat
    BY <1>4
  <2>2. QED BY <1>1, <1>2, <2>1 DEF Callers
<1> HIDE DEF new, file
<1>12. partial' \in 1..Len(inodes') /\ Len(inodes) <= Len(inodes') /\ partial' # dest
       /\ partial' = partial
  BY <1>1, <1>2, <1>8
<1>13. dest # 0 => inodes'[dest] = inodes[dest]
  BY <1>2, <1>8, <1>9
<1>14. QED BY <1>2, <1>8, <1>10, <1>11, <1>12, <1>13, StagingWritten

(* The staging file is given up, or found right.                            *)
LEMMA StagingRemoved ==
  ASSUME OneCaller, DownloadInv, NEW c \in Clients,
         UNCHANGED <<kind, inodes, dest, sentinel, extracted, target>>, partial' = 0,
         NEW new \in Callers, client' = [client EXCEPT ![c] = new],
         new.at \in {"idle", "fresh"}
  PROVE  DownloadInv'
<1> USE DEF DownloadInv
<1>1. client' \in [Clients -> Callers] /\ \A d \in Clients : client'[d] = new
  BY DEF FilesShape, OneCaller
<1>2. FilesShape'
  <2>1. 0 \in 0..Len(inodes)
    BY LenProperties DEF FilesShape
  <2>2. QED BY <1>1, <2>1 DEF FilesShape
<1>3. StagedApart' /\ Proven' /\ Good'
  BY <1>1 DEF StagedApart, Proven, Good, At
<1>4. QED BY <1>2, <1>3

LEMMA VerifyStep ==
  ASSUME OneCaller, DownloadInv, NEW c \in Clients, RangeNotSatisfiable(c) \/ Verify(c)
  PROVE  DownloadInv'
<1>1. UNCHANGED <<kind, inodes, dest, sentinel, extracted, target>>
  BY DEF RangeNotSatisfiable, Verify
<1>2. CASE RangeNotSatisfiable(c)
  <2>1. client' = [client EXCEPT ![c] = [client[c] EXCEPT !.at = "fresh"]] /\ partial' = 0
    BY <1>2, CallerIs, StagesAre DEF RangeNotSatisfiable, GoTo
  <2>2. QED BY <1>1, <2>1, CallerIs, StagesAre, StagingRemoved
<1>3. CASE Verify(c) /\ partial # 0 /\ HashMatches
  <2>1. client' = [client EXCEPT ![c] = [client[c] EXCEPT !.at = "promote"]] /\ UNCHANGED partial
    BY <1>3, CallerIs, StagesAre DEF Verify, GoTo
  <2>2. inodes[partial] = Right
    BY <1>3 DEF HashMatches
  <2>3. QED BY <1>1, <1>3, <2>1, <2>2, CallerIs, StagesAre, CallerMoves
<1>4. CASE Verify(c) /\ partial = 0
  <2>1. client' = [client EXCEPT ![c] = Idle] /\ UNCHANGED partial
    BY <1>4 DEF Verify, Fails, Ends
  <2>2. QED BY <1>1, <2>1, IdleIs, CallerMoves
<1>5. CASE Verify(c) /\ partial # 0 /\ ~HashMatches
  <2>1. client' = [client EXCEPT ![c] = Idle] /\ partial' = 0
    BY <1>5 DEF Verify, Fails, Ends
  <2>2. QED BY <1>1, <2>1, IdleIs, StagingRemoved
<1>6. QED BY <1>2, <1>3, <1>4, <1>5

(* What was proven is renamed to the destination; the sentinel comes after. *)
LEMMA PromoteStep ==
  ASSUME OneCaller, DownloadInv, NEW c \in Clients, Promote(c)
  PROVE  DownloadInv'
<1> USE DEF DownloadInv
<1>1. partial # 0 /\ inodes[partial] = Right
  BY DEF Promote, Proven
<1> DEFINE stage == IF kind = "cleanup" THEN "mark" ELSE "clear"
<1>2. /\ dest' = partial /\ partial' = 0 /\ UNCHANGED <<kind, inodes, sentinel, extracted, target>>
      /\ client' = [client EXCEPT ![c] = [client[c] EXCEPT !.at = stage]]
  BY <1>1, CallerIs, StagesAre DEF Promote, GoTo
<1>3. [client[c] EXCEPT !.at = stage] \in Callers /\ [client[c] EXCEPT !.at = stage].at = stage
  BY CallerIs, StagesAre
<1>4. client' \in [Clients -> Callers] /\ \A d \in Clients : client'[d].at = stage
  BY <1>2, <1>3 DEF FilesShape, OneCaller
<1>5. kind \in {"parakeet", "cleanup"}
  BY DEF FilesShape
<1>6. FilesShape'
  <2>1. 0 \in 0..Len(inodes)
    BY LenProperties DEF FilesShape
  <2>2. QED BY <1>2, <1>4, <2>1 DEF FilesShape
<1>7. StagedApart' /\ Proven' /\ Good'
  BY <1>1, <1>2, <1>4, <1>5 DEF StagedApart, Proven, Good, At
<1>8. QED BY <1>6, <1>7

LEMMA MarkStep ==
  ASSUME OneCaller, DownloadInv, NEW c \in Clients, MarkVerified(c)
  PROVE  DownloadInv'
<1> USE DEF DownloadInv
<1>1. /\ kind = "cleanup" /\ dest # 0 /\ inodes[dest] = Right
      /\ UNCHANGED <<kind, inodes, partial, dest, extracted, target>>
      /\ client' = [client EXCEPT ![c] = Idle]
  BY DEF MarkVerified, Proven, Ends
<1>2. client' \in [Clients -> Callers] /\ \A d \in Clients : client'[d].at = "idle"
  BY <1>1, IdleIs DEF FilesShape, OneCaller
<1>3. FilesShape' /\ StagedApart' /\ Proven' /\ Good'
  BY <1>1, <1>2 DEF FilesShape, StagedApart, Proven, Good, At
<1>4. QED BY <1>3

(* The archive is unpacked aside, and only a whole directory is moved.      *)
LEMMA UnpackStep ==
  ASSUME OneCaller, DownloadInv, NEW c \in Clients,
         \/ ClearExtracted(c) \/ Unpack(c) \/ Unpacked(c)
         \/ RemoveTarget(c) \/ MoveExtracted(c) \/ RemoveStaging(c)
  PROVE  DownloadInv'
<1> USE DEF DownloadInv
<1>1. kind = "parakeet" /\ UNCHANGED <<kind, inodes, sentinel>>
  BY DEF Proven, ClearExtracted, Unpack, Unpacked, RemoveTarget, MoveExtracted, RemoveStaging, At
<1>2. ASSUME NEW stage \in {"unpack", "unpacking", "replace", "move", "tidy"}, GoTo(c, stage)
      PROVE  client' \in [Clients -> Callers] /\ \A d \in Clients : client'[d].at = stage
  <2>1. client' = [client EXCEPT ![c] = [client[c] EXCEPT !.at = stage]]
        /\ [client[c] EXCEPT !.at = stage] \in Callers /\ [client[c] EXCEPT !.at = stage].at = stage
    BY <1>2, CallerIs, StagesAre DEF GoTo
  <2>2. QED BY <2>1 DEF FilesShape, OneCaller
<1>3. ASSUME NEW phase, Ends(c, phase)
      PROVE  client' \in [Clients -> Callers] /\ \A d \in Clients : client'[d].at = "idle"
  BY <1>3, IdleIs DEF Ends, FilesShape, OneCaller
<1>4. /\ partial' \in {0, partial} /\ dest' \in {0, dest}
      /\ client' \in [Clients -> Callers]
      /\ \A d \in Clients : client'[d].at \in {"idle", "unpack", "unpacking", "replace", "move", "tidy"}
  BY <1>2, <1>3 DEF ClearExtracted, Unpack, Unpacked, RemoveTarget, MoveExtracted, RemoveStaging,
         Fails
<1>5. 0 \in 0..Len(inodes)
  BY LenProperties DEF FilesShape
<1>6. FilesShape'
  BY <1>1, <1>4, <1>5 DEF FilesShape
<1>7. StagedApart'
  BY <1>4 DEF StagedApart, At
<1>8. target' \in {"none", "whole"}
  BY DEF ClearExtracted, Unpack, Unpacked, RemoveTarget, MoveExtracted, RemoveStaging, Good, Proven,
         At
<1>9. Good'
  BY <1>1, <1>8 DEF Good
<1>10. \A d \in Clients : client'[d].at \in {"replace", "move"} => extracted' = "whole"
  BY <1>2, <1>3 DEF ClearExtracted, Unpack, Unpacked, RemoveTarget, MoveExtracted, RemoveStaging,
                    Fails, Proven, At
<1>11. Proven'
  BY <1>1, <1>4, <1>10 DEF Proven, At
<1>12. QED BY <1>6, <1>7, <1>9, <1>11

LEMMA DownloadStep ==
  ASSUME OneCaller, DownloadInv, [DownloadNext]_downloadVars
  PROVE  DownloadInv'
BY MovesStep, CheckStep, FreshStep, ReceiveStep, VerifyStep, PromoteStep, MarkStep, UnpackStep,
   DownloadStands DEF DownloadNext, Works

(* One caller, whatever was staged before, however often the transfer fails *)
(* and wherever the process ends: a model that is taken for installed is    *)
(* the right one, whole (download_verified, check_cleanup_model, models.rs).*)
THEOREM InstalledIsGood ==
  ASSUME OneCaller
  PROVE  SharedSpec => []TrustedIsGood
<1>1. SharedInit => DownloadInv
  BY DownloadStarts DEF SharedInit
<1>2. DownloadInv /\ [OfSocket \/ OfDownload]_<<focus, socketVars, downloadVars>> => DownloadInv'
  BY OneCaller, DownloadStep DEF OfSocket, OfDownload
<1>3. DownloadInv => TrustedIsGood
  BY DEF DownloadInv, FilesShape, Good, Trusted, TrustedIsGood
<1>4. QED BY <1>1, <1>2, <1>3, PTL DEF SharedSpec, SharedSafety

-----------------------------------------------------------------------------
(* The control socket, with one process of the app at a time.               *)

AppStages == {"probe", "remove", "bind", "bound", "serving", "plain", "ended"}
IsAppRecord(app) ==
  app = [stage |-> app.stage, backlog |-> app.backlog, at |-> app.at, call |-> app.call]
IsSequence(s) == \E S : s \in Seq(S)

AppsShape ==
  /\ IsSequence(apps) /\ socket_path \in DOMAIN apps \cup {0}
  /\ \A p \in DOMAIN apps : IsAppRecord(apps[p]) /\ apps[p].stage \in AppStages
OneRuns == \A p, q \in DOMAIN apps : Running(p) /\ Running(q) => p = q
PathIsBound == \A p \in DOMAIN apps : Stage(p) \in {"bound", "serving"} => socket_path = p

SocketInv == AppsShape /\ OneRuns /\ PathIsBound

LEMMA IndicesOf ==
  ASSUME NEW s, IsSequence(s)
  PROVE  /\ Len(s) \in Nat /\ DOMAIN s = 1..Len(s) /\ 0 \notin DOMAIN s
<1>1. PICK S : s \in Seq(S)
  BY DEF IsSequence
<1>2. QED BY <1>1, LenProperties

(* One process changes; it may move to another stage of its life.           *)
LEMMA ExceptApp ==
  ASSUME IsSequence(apps), NEW q \in DOMAIN apps, NEW new, apps' = [apps EXCEPT ![q] = new]
  PROVE  /\ IsSequence(apps') /\ DOMAIN apps' = DOMAIN apps /\ apps'[q] = new
         /\ \A p \in DOMAIN apps : p # q => apps'[p] = apps[p]
<1>1. PICK S : apps \in Seq(S)
  BY DEF IsSequence
<1> DEFINE T == S \cup {new}
<1>2. DOMAIN apps = 1..Len(apps) /\ Len(apps) \in Nat
  BY <1>1, LenProperties
<1>3. apps \in Seq(T)
  <2>1. \A i \in 1..Len(apps) : apps[i] \in T
    BY <1>1, ElementOfSeq
  <2>2. apps = [i \in 1..Len(apps) |-> apps[i]]
    BY <1>1
  <2>3. QED BY <1>2, <2>1, <2>2, IsASeq
<1>4. new \in T
  OBVIOUS
<1> HIDE DEF T
<1>5. apps' \in Seq(T) /\ Len(apps') = Len(apps)
      /\ \A j \in 1..Len(apps) : apps'[j] = IF j = q THEN new ELSE apps[j]
  BY <1>2, <1>3, <1>4, ExceptSeq
<1>6. QED BY <1>2, <1>5, LenProperties DEF IsSequence

(* A step of the server, or of a caller: nobody starts or ends.             *)
LEMMA StagesKept ==
  ASSUME SocketInv, UNCHANGED socket_path, NEW q \in DOMAIN apps, NEW new,
         apps' = [apps EXCEPT ![q] = new], IsAppRecord(new), new.stage = apps[q].stage
  PROVE  SocketInv'
<1> USE DEF SocketInv
<1>1. /\ IsSequence(apps') /\ DOMAIN apps' = DOMAIN apps /\ apps'[q] = new
      /\ \A p \in DOMAIN apps : p # q => apps'[p] = apps[p]
  BY ExceptApp DEF AppsShape
<1>2. \A p \in DOMAIN apps : apps'[p].stage = apps[p].stage
  BY <1>1
<1>3. AppsShape'
  BY <1>1, <1>2 DEF AppsShape, IsAppRecord
<1>4. OneRuns' /\ PathIsBound'
  BY <1>1, <1>2 DEF OneRuns, PathIsBound, Running, Stage
<1>5. QED BY <1>3, <1>4

LEMMA AppsKept ==
  ASSUME SocketInv, UNCHANGED <<socket_path, apps>>
  PROVE  SocketInv'
BY DEF SocketInv, AppsShape, OneRuns, PathIsBound, Running, Stage

(* A process is started when none runs.                                     *)
LEMMA LaunchStep ==
  ASSUME MaxApps = 1, SocketInv, Launch
  PROVE  SocketInv'
<1> USE DEF SocketInv
<1> DEFINE up == {p \in DOMAIN apps : Running(p)}
<1>1. PICK S : apps \in Seq(S)
  BY DEF AppsShape, IsSequence
<1>2. Len(apps) \in Nat /\ DOMAIN apps = 1..Len(apps)
  BY <1>1, LenProperties
<1>3. up = {}
  <2>1. IsFiniteSet(1..Len(apps))
    BY <1>2, FS_Interval
  <2>2. IsFiniteSet(up) /\ Cardinality(up) < 1
    BY <1>2, <2>1, FS_Subset DEF Launch
  <2>3. Cardinality(up) \in Nat
    BY <2>2, FS_CardinalityType
  <2>4. Cardinality(up) = 0
    BY <2>2, <2>3
  <2>5. QED BY <2>2, <2>4, FS_EmptySet
<1>4. \A p \in DOMAIN apps : apps[p].stage = "ended"
  BY <1>3 DEF Running, Stage
<1> DEFINE T == S \cup {NewApp}
<1>5. apps \in Seq(T) /\ NewApp \in T
  <2>1. \A i \in 1..Len(apps) : apps[i] \in T
    BY <1>1, ElementOfSeq
  <2>2. apps = [i \in 1..Len(apps) |-> apps[i]]
    BY <1>1
  <2>3. QED BY <1>2, <2>1, <2>2, IsASeq
<1> HIDE DEF T
<1>6. apps' = Append(apps, NewApp) /\ UNCHANGED socket_path
  BY DEF Launch
<1>7. /\ apps' \in Seq(T) /\ Len(apps') = Len(apps) + 1 /\ apps'[Len(apps) + 1] = NewApp
      /\ \A i \in 1..Len(apps) : apps'[i] = apps[i]
  BY <1>5, <1>6, AppendProperties
<1>8. DOMAIN apps' = 1 .. Len(apps) + 1
  BY <1>7, LenProperties
<1>9. IsAppRecord(NewApp) /\ NewApp.stage = "probe"
  BY DEF IsAppRecord, NewApp
<1>10. \A p \in DOMAIN apps' : (p \in DOMAIN apps /\ apps'[p] = apps[p])
                               \/ (p = Len(apps) + 1 /\ apps'[p] = NewApp)
  BY <1>2, <1>7, <1>8
<1>11. AppsShape'
  <2>1. IsSequence(apps') /\ socket_path' \in DOMAIN apps' \cup {0}
    BY <1>2, <1>6, <1>7, <1>8 DEF AppsShape, IsSequence
  <2>2. \A p \in DOMAIN apps' : IsAppRecord(apps'[p]) /\ apps'[p].stage \in AppStages
    BY <1>9, <1>10 DEF AppsShape, AppStages
  <2>3. QED BY <2>1, <2>2 DEF AppsShape, IsAppRecord
<1>12. OneRuns'
  BY <1>4, <1>10 DEF OneRuns, Running, Stage
<1>13. PathIsBound'
  BY <1>4, <1>9, <1>10 DEF PathIsBound, Stage
<1>14. QED BY <1>11, <1>12, <1>13

(* The one process that runs moves on, or ends.                             *)
LEMMA LifeStep ==
  ASSUME SocketInv, NEW p \in DOMAIN apps, Running(p), NEW new, IsAppRecord(new),
         apps' = [apps EXCEPT ![p] = new], new.stage \in AppStages,
         socket_path' \in DOMAIN apps \cup {0},
         new.stage \in {"bound", "serving"} => socket_path' = p
  PROVE  SocketInv'
<1> USE DEF SocketInv
<1>1. /\ IsSequence(apps') /\ DOMAIN apps' = DOMAIN apps /\ apps'[p] = new
      /\ \A q \in DOMAIN apps : q # p => apps'[q] = apps[q]
  BY ExceptApp DEF AppsShape
<1>2. \A q \in DOMAIN apps : q # p => apps[q].stage = "ended"
  BY DEF OneRuns, Running, Stage
<1>3. AppsShape'
  <2>1. \A q \in DOMAIN apps' : IsAppRecord(apps'[q]) /\ apps'[q].stage \in AppStages
    BY <1>1 DEF AppsShape
  <2>2. QED BY <1>1, <2>1 DEF AppsShape, IsAppRecord
<1>4. OneRuns' /\ PathIsBound'
  BY <1>1, <1>2 DEF OneRuns, PathIsBound, Running, Stage
<1>5. QED BY <1>3, <1>4

(* The record of a process with another stage, or with other work in hand.  *)
LEMMA StagedRecord ==
  ASSUME NEW app, IsAppRecord(app), NEW s
  PROVE  IsAppRecord([app EXCEPT !.stage = s]) /\ [app EXCEPT !.stage = s].stage = s
<1>1. [app EXCEPT !.stage = s]
        = [stage |-> s, backlog |-> app.backlog, at |-> app.at, call |-> app.call]
  BY DEF IsAppRecord
<1>2. QED BY <1>1 DEF IsAppRecord

LEMMA QueuedRecord ==
  ASSUME NEW app, IsAppRecord(app), NEW b
  PROVE  IsAppRecord([app EXCEPT !.backlog = b]) /\ [app EXCEPT !.backlog = b].stage = app.stage
<1>1. [app EXCEPT !.backlog = b]
        = [stage |-> app.stage, backlog |-> b, at |-> app.at, call |-> app.call]
  BY DEF IsAppRecord
<1>2. QED BY <1>1 DEF IsAppRecord

LEMMA AtRecord ==
  ASSUME NEW app, IsAppRecord(app), NEW at
  PROVE  IsAppRecord([app EXCEPT !.at = at]) /\ [app EXCEPT !.at = at].stage = app.stage
<1>1. [app EXCEPT !.at = at]
        = [stage |-> app.stage, backlog |-> app.backlog, at |-> at, call |-> app.call]
  BY DEF IsAppRecord
<1>2. QED BY <1>1 DEF IsAppRecord

LEMMA CallRecord ==
  ASSUME NEW app, IsAppRecord(app), NEW call
  PROVE  IsAppRecord([app EXCEPT !.call = call]) /\ [app EXCEPT !.call = call].stage = app.stage
<1>1. [app EXCEPT !.call = call]
        = [stage |-> app.stage, backlog |-> app.backlog, at |-> app.at, call |-> call]
  BY DEF IsAppRecord
<1>2. QED BY <1>1 DEF IsAppRecord

Working(app, at, call) == [app EXCEPT !.at = at, !.call = call]
Taking(app, b, at, call) == [app EXCEPT !.backlog = b, !.at = at, !.call = call]

LEMMA WorkingRecord ==
  ASSUME NEW app, IsAppRecord(app), NEW at, NEW call
  PROVE  IsAppRecord(Working(app, at, call)) /\ Working(app, at, call).stage = app.stage
<1>1. PICK moved : moved = [app EXCEPT !.at = at]
  OBVIOUS
<1>2. IsAppRecord(moved) /\ moved.stage = app.stage
  BY <1>1, AtRecord
<1>3. Working(app, at, call) = [moved EXCEPT !.call = call]
  BY <1>1 DEF Working
<1>4. QED BY <1>2, <1>3, CallRecord

LEMMA TakingRecord ==
  ASSUME NEW app, IsAppRecord(app), NEW b, NEW at, NEW call
  PROVE  IsAppRecord(Taking(app, b, at, call)) /\ Taking(app, b, at, call).stage = app.stage
<1>1. PICK queued : queued = [app EXCEPT !.backlog = b]
  OBVIOUS
<1>2. IsAppRecord(queued) /\ queued.stage = app.stage
  BY <1>1, QueuedRecord
<1>3. Taking(app, b, at, call) = Working(queued, at, call)
  BY <1>1 DEF Taking, Working
<1>4. QED BY <1>2, <1>3, WorkingRecord

(* A process whose next stage is not one of a listener, or whose path is.   *)
LEMMA StageStep ==
  ASSUME SocketInv, NEW p \in DOMAIN apps, Running(p), NEW s \in AppStages, ToStage(p, s),
         socket_path' \in DOMAIN apps \cup {0},
         s \in {"bound", "serving"} => socket_path' = p
  PROVE  SocketInv'
<1> DEFINE new == [apps[p] EXCEPT !.stage = s]
<1>1. apps' = [apps EXCEPT ![p] = new]
  BY DEF ToStage
<1>2. IsAppRecord(new) /\ new.stage = s
  BY StagedRecord DEF SocketInv, AppsShape
<1> HIDE DEF new
<1>3. QED BY <1>1, <1>2, LifeStep

(* The test of the path: the process that is there to answer would be       *)
(* another one that runs.                                                   *)
LEMMA ProbeStep ==
  ASSUME SocketInv, NEW p \in DOMAIN apps, ProbePath(p)
  PROVE  SocketInv'
<1>1. Stage(p) = "probe" /\ Running(p) /\ UNCHANGED socket_path
  BY DEF ProbePath, Running
<1>2. ~TakenPath
  <2>1. SUFFICES ASSUME TakenPath PROVE FALSE
    OBVIOUS
  <2>2. socket_path \in DOMAIN apps /\ Stage(socket_path) = "serving"
    BY <2>1 DEF TakenPath, IsAlive, SocketInv, AppsShape
  <2>3. QED BY <1>1, <2>2 DEF SocketInv, OneRuns, Running
<1>3. PICK s \in {"bind", "remove"} : ToStage(p, s)
  BY <1>2 DEF ProbePath
<1>4. s \in AppStages /\ s \notin {"bound", "serving"}
  BY DEF AppStages
<1>5. socket_path' \in DOMAIN apps \cup {0}
  BY <1>1 DEF SocketInv, AppsShape
<1>6. QED BY <1>1, <1>3, <1>4, <1>5, StageStep

LEMMA RemoveStep ==
  ASSUME SocketInv, NEW p \in DOMAIN apps, RemoveStale(p)
  PROVE  SocketInv'
<1>1. Running(p) /\ socket_path' = 0
  BY DEF RemoveStale, Running
<1>2. PICK s \in {"bind", "plain"} : ToStage(p, s)
  BY DEF RemoveStale
<1>3. s \in AppStages /\ s \notin {"bound", "serving"}
  BY DEF AppStages
<1>4. QED BY <1>1, <1>2, <1>3, StageStep

LEMMA BindStep ==
  ASSUME SocketInv, NEW p \in DOMAIN apps, Bind(p)
  PROVE  SocketInv'
<1>1. Running(p)
  BY DEF Bind, Running
<1>2. CASE socket_path' = p /\ ToStage(p, "bound")
  <2>1. "bound" \in AppStages
    BY DEF AppStages
  <2>2. QED BY <1>1, <1>2, <2>1, StageStep
<1>3. CASE ToStage(p, "plain") /\ UNCHANGED socket_path
  <2>1. "plain" \in AppStages /\ "plain" \notin {"bound", "serving"}
    BY DEF AppStages
  <2>2. socket_path' \in DOMAIN apps \cup {0}
    BY <1>3 DEF SocketInv, AppsShape
  <2>3. QED BY <1>1, <1>3, <2>1, <2>2, StageStep
<1>4. QED BY <1>2, <1>3 DEF Bind

LEMMA ServeStep ==
  ASSUME SocketInv, NEW p \in DOMAIN apps, Serve(p)
  PROVE  SocketInv'
<1>1. Stage(p) = "bound" /\ Running(p) /\ ToStage(p, "serving") /\ UNCHANGED socket_path
  BY DEF Serve, Running
<1>2. socket_path' = p
  BY <1>1 DEF SocketInv, PathIsBound
<1>3. "serving" \in AppStages
  BY DEF AppStages
<1>4. QED BY <1>1, <1>2, <1>3, StageStep

(* The end of a process: the path is removed, or left behind.               *)
LEMMA GoneStep ==
  ASSUME SocketInv, NEW p \in DOMAIN apps, Quit(p) \/ Crash(p)
  PROVE  SocketInv'
<1> DEFINE new == [NewApp EXCEPT !.stage = "ended"]
<1>1. Running(p) /\ apps' = [apps EXCEPT ![p] = new]
  BY DEF Quit, Crash, ProcessGone, Running
<1>2. IsAppRecord(new) /\ new.stage = "ended"
  BY DEF IsAppRecord, NewApp
<1>3. socket_path' \in DOMAIN apps \cup {0}
  BY DEF Quit, Crash, SocketInv, AppsShape
<1>4. "ended" \in AppStages /\ "ended" \notin {"bound", "serving"}
  BY DEF AppStages
<1> HIDE DEF new
<1>5. QED BY <1>1, <1>2, <1>3, <1>4, LifeStep

(* A connection is queued, by a caller, at the process that is there.       *)
LEMMA QueueStep ==
  ASSUME SocketInv, NEW c, IsAlive(socket_path), Queue(c), UNCHANGED socket_path
  PROVE  SocketInv'
<1> DEFINE new == [apps[socket_path] EXCEPT !.backlog = Append(apps[socket_path].backlog, c)]
<1>1. socket_path \in DOMAIN apps
  BY DEF IsAlive, SocketInv, AppsShape
<1>2. apps' = [apps EXCEPT ![socket_path] = new]
  BY DEF Queue
<1>3. IsAppRecord(new) /\ new.stage = apps[socket_path].stage
  BY <1>1, QueuedRecord DEF SocketInv, AppsShape
<1> HIDE DEF new
<1>4. QED BY <1>1, <1>2, <1>3, StagesKept

LEMMA ReachStep ==
  ASSUME SocketInv, NEW c, Reaches(c)
  PROVE  SocketInv'
<1>1. UNCHANGED socket_path
  BY DEF Reaches, IsDaemonRunning, Connect
<1>2. UNCHANGED apps \/ (IsAlive(socket_path) /\ \E k : Queue(k))
  BY DEF Reaches, IsDaemonRunning, Connect, Unreachable
<1>3. QED BY <1>1, <1>2, AppsKept, QueueStep

(* The server's thread takes a connection, or has answered one.             *)
LEMMA ServerStep ==
  ASSUME SocketInv, NEW p \in DOMAIN apps, Serves(p)
  PROVE  SocketInv'
<1>1. UNCHANGED socket_path
  BY DEF Serves, AcceptTest, HandleStatus, HandlePost, HandleListen, HandleTranscribe, Respond
<1>2. IsAppRecord(apps[p])
  BY DEF SocketInv, AppsShape
<1>3. \/ \E at, c : Handling(p, at, c)
      \/ apps' = [apps EXCEPT ![p].at = "accept", ![p].call = 0]
  BY DEF Serves, AcceptTest, HandleStatus, HandlePost, HandleListen, HandleTranscribe, Respond
<1>4. CASE \E at, c : Handling(p, at, c)
  <2>1. PICK at, c : Handling(p, at, c)
    BY <1>4
  <2> DEFINE new == Taking(apps[p], Tail(apps[p].backlog), at, c)
  <2>2. apps' = [apps EXCEPT ![p] = new]
    BY <2>1 DEF Handling, Taking
  <2>3. IsAppRecord(new) /\ new.stage = apps[p].stage
    BY <1>2, TakingRecord
  <2> HIDE DEF new
  <2>4. QED BY <1>1, <2>2, <2>3, StagesKept
<1>5. CASE apps' = [apps EXCEPT ![p].at = "accept", ![p].call = 0]
  <2> DEFINE new == Working(apps[p], "accept", 0)
  <2>1. apps' = [apps EXCEPT ![p] = new]
    BY <1>5 DEF Working
  <2>2. IsAppRecord(new) /\ new.stage = apps[p].stage
    BY <1>2, WorkingRecord
  <2> HIDE DEF new
  <2>3. QED BY <1>1, <2>1, <2>2, StagesKept
<1>6. QED BY <1>3, <1>4, <1>5

LEMMA SocketStep ==
  ASSUME MaxApps = 1, SocketInv, [SocketNext]_socketVars
  PROVE  SocketInv'
<1>1. ASSUME NEW p \in DOMAIN apps, StartsUp(p)
      PROVE  SocketInv'
  BY <1>1, ProbeStep, RemoveStep, BindStep, ServeStep DEF StartsUp
<1>2. ASSUME NEW p \in DOMAIN apps, UserToggles(p) \/ Coordinates(p) \/ Wedge(p)
      PROVE  SocketInv'
  BY <1>2, AppsKept DEF UserToggles, Coordinates, Wedge, TakeToggle, TakeCancel, TakeListen,
                        RecordingEnds, DictationEnds
<1>3. ASSUME NEW c, Call(c) \/ GiveUp(c)
      PROVE  SocketInv'
  BY <1>3, AppsKept DEF Call, GiveUp
<1>4. CASE UNCHANGED socketVars
  BY <1>4, AppsKept DEF socketVars
<1>5. QED
  BY <1>1, <1>2, <1>3, <1>4, LaunchStep, GoneStep, ServerStep, ReachStep DEF SocketNext

(* With one process of the app at a time a server can be reached by the     *)
(* path for as long as it serves, whatever file a process that was killed   *)
(* left there: what does not hold of two (README, What does not hold) takes *)
(* two (bind, is_alive, cleanup in ipc.rs).                                 *)
THEOREM OneProcessIsReachable ==
  ASSUME MaxApps = 1
  PROVE  SharedSpec => []ServerIsReachable
<1>1. SharedInit => SocketInv
  <2>1. << >> \in Seq({}) /\ DOMAIN << >> = {}
    BY EmptySeq, LenProperties
  <2>2. QED BY <2>1 DEF SharedInit, SocketInit, SocketInv, AppsShape, IsSequence, OneRuns,
                        PathIsBound
<1>2. SocketInv /\ [OfSocket \/ OfDownload]_<<focus, socketVars, downloadVars>> => SocketInv'
  <2> SUFFICES ASSUME SocketInv, [OfSocket \/ OfDownload]_<<focus, socketVars, downloadVars>>
               PROVE  SocketInv'
    OBVIOUS
  <2>1. [SocketNext]_socketVars
    BY DEF OfSocket, OfDownload
  <2>2. QED BY MaxApps = 1, <2>1, SocketStep
<1>3. SocketInv => ServerIsReachable
  BY DEF SocketInv, PathIsBound, ServerIsReachable, IsAlive
<1>4. QED BY <1>1, <1>2, <1>3, PTL DEF SharedSpec, SharedSafety
=============================================================================
