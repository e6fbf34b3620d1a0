----------------------------- MODULE ModelDownload -----------------------------
(***************************************************************************)
(* Fetching a model (flow-core/src/models.rs): resumed into a staging file,*)
(* hashed, renamed over the destination; the speech model's archive is then*)
(* unpacked and its directory swapped in.  The callers are the worker of   *)
(* the settings window (commands.rs) and `flow models download`, a process *)
(* of its own that knows nothing of the first.                             *)
(*                                                                         *)
(* A file is an inode: a path that is removed or renamed leaves those who  *)
(* opened it writing where they were.  Its contents are units 1..Size, in  *)
(* that order when they are right, 0 being a unit that is wrong.           *)
(***************************************************************************)
EXTENDS Integers, Sequences

CONSTANTS
  Clients,     \* of "app" and "cli"
  Size,        \* units of the file on the server
  MaxFaults,   \* bound: lost connections, wrong bytes, processes that end
  MaxInodes    \* bound: files created

ASSUME DownloadAssumption ==
  /\ Clients \subseteq {"app", "cli"} /\ Size \in Nat \ {0}
  /\ MaxFaults \in Nat /\ MaxInodes \in Nat \ {0, 1}

VARIABLES
  kind,        \* DownloadKind: "parakeet" or "cleanup"
  inodes,      \* contents of the files created so far
  partial,     \* the inode at <dest>.partial, or 0
  dest,        \* the inode at dest (for the speech model, its archive), or 0
  sentinel,    \* is the .ok file beside the clean-up model there
  extracted,   \* the directory the archive is unpacked into
  target,      \* the speech model's directory
  client,      \* what each caller is doing
  slot,        \* ModelDownload of state.rs: active_kind is set, and the phase shown
  mishaps

paths == <<partial, dest, sentinel, extracted, target>>
downloadVars == <<kind, inodes, paths, client, slot, mishaps>>

Right == [i \in 1..Size |-> i]

(* A caller, the inode it has open and whether it only appends to it, how   *)
(* far it has written, the next unit of the body, and the total it was told,*)
(* 0 if the server did not say.                                             *)
Idle == [at |-> "idle", file |-> 0, appends |-> FALSE, downloaded |-> 0, next |-> 0, total |-> 0]

(* Leftovers of earlier runs: a staging file, whole or not, from this or    *)
(* from another version of the file; a clean-up model without its sentinel. *)
DownloadInit ==
  /\ kind \in {"parakeet", "cleanup"}
  /\ \E staged \in {SubSeq(Right, 1, n) : n \in 0..Size}
                     \cup {[i \in 1..n |-> 0] : n \in 1..Size+1} :
       \E kept \in {Right, [Right EXCEPT ![Size] = 0]} :
         /\ inodes = <<staged, kept>>
         /\ partial \in {0, 1} /\ (partial = 0 => staged = << >>)
  /\ dest \in IF kind = "cleanup" THEN {0, 2} ELSE {0}
  /\ sentinel = FALSE /\ extracted = "none" /\ target = "none"
  /\ client = [c \in Clients |-> Idle]
  /\ slot = [active |-> FALSE, phase |-> "Idle"]
  /\ mishaps = MaxFaults

Mishap == mishaps > 0 /\ mishaps' = mishaps - 1
At(c, stage) == client[c].at = stage
GoTo(c, stage) == client' = [client EXCEPT ![c].at = stage]

(* check_parakeet_model finds the names of the files, check_cleanup_model   *)
(* the file and its sentinel.                                               *)
Trusted == IF kind = "parakeet" THEN target # "none" ELSE dest # 0 /\ sentinel

(* run_model_download's end: the phase and the slot, of the app only.       *)
Ends(c, phase) ==
  /\ client' = [client EXCEPT ![c] = Idle]
  /\ slot' = IF c = "app" THEN [active |-> FALSE, phase |-> phase] ELSE slot
Fails(c) == Ends(c, "Error")

(* progress: the phase shown.                                               *)
Progress(c, downloaded, total) ==
  slot' = IF c = "app" /\ total > 0 /\ downloaded >= total
          THEN [slot EXCEPT !.phase = "Verifying"] ELSE slot

-----------------------------------------------------------------------------
(* start_model_download: one at a time in the app; a full disk refuses it.  *)
Begin(c) ==
  /\ At(c, "idle") /\ ~Trusted
  /\ c = "app" => ~slot.active
  /\ slot' = IF c = "app" THEN [active |-> TRUE, phase |-> "Downloading"] ELSE slot
  /\ GoTo(c, "check")
  /\ UNCHANGED <<kind, inodes, paths, mishaps>>

(* Already there: nothing to do.  A clean-up model without a sentinel is    *)
(* hashed once, and given one if it is right.                               *)
CheckModel(c) ==
  /\ At(c, "check")
  /\ LET heals == kind = "cleanup" /\ dest # 0 /\ inodes[dest] = Right
     IN  IF Trusted \/ heals
         THEN Ends(c, "Done") /\ sentinel' = (kind = "cleanup")
         ELSE GoTo(c, "request") /\ UNCHANGED <<slot, sentinel>>
  /\ UNCHANGED <<kind, inodes, partial, dest, extracted, target, mishaps>>

-----------------------------------------------------------------------------
(* download_verified.                                                       *)
Existing == IF partial = 0 THEN 0 ELSE Len(inodes[partial])

Streaming(file, appends, downloaded, total) ==
  [at |-> "stream", file |-> file, appends |-> appends, downloaded |-> downloaded,
   next |-> downloaded + 1, total |-> total]

(* 206: what is missing is appended to what is there.                       *)
Resume(c) ==
  /\ At(c, "request") /\ Existing \in 1 .. Size - 1
  /\ client' = [client EXCEPT ![c] = Streaming(partial, TRUE, Existing, Size)]
  /\ Progress(c, Existing, Size)
  /\ UNCHANGED <<kind, inodes, paths, mishaps>>

(* 200: File::create empties the file of that name, or makes one.           *)
StartFresh(c) ==
  /\ At(c, "request") \/ At(c, "fresh")
  /\ IF partial # 0
     THEN inodes' = [inodes EXCEPT ![partial] = << >>] /\ UNCHANGED partial
     ELSE /\ Len(inodes) < MaxInodes
          /\ inodes' = Append(inodes, << >>) /\ partial' = Len(inodes) + 1
  /\ \E total \in {0, Size} : client' = [client EXCEPT ![c] = Streaming(partial', FALSE, 0, total)]
  /\ UNCHANGED <<kind, dest, sentinel, extracted, target, slot, mishaps>>

(* 416: a partial that is as long as the file or longer is removed.         *)
(* Mutant: the range that cannot be satisfied is an error like others.      *)
RangeRefused(c) ==
  /\ At(c, "request") /\ Existing >= Size /\ Fails(c)
  /\ UNCHANGED <<kind, inodes, paths, mishaps>>
RangeNotSatisfiable(c) ==
  /\ At(c, "request") /\ Existing >= Size
  /\ partial' = 0 /\ GoTo(c, "fresh")
  /\ UNCHANGED <<kind, inodes, dest, sentinel, extracted, target, slot, mishaps>>

(* Another status, or a connection that is lost: the partial is kept.       *)
RequestFails(c) ==
  /\ At(c, "request") \/ At(c, "fresh") \/ At(c, "stream")
  /\ Mishap /\ Fails(c)
  /\ UNCHANGED <<kind, inodes, paths>>

(* write_all, at the end of the file or where the writer is: a file emptied *)
(* meanwhile has a hole.                                                    *)
Written(content, offset, unit) ==
  [i \in 1 .. (IF offset > Len(content) THEN offset ELSE Len(content)) |->
     IF i = offset THEN unit ELSE IF i <= Len(content) THEN content[i] ELSE 0]

Receive(c) ==
  /\ At(c, "stream") /\ client[c].next <= Size
  /\ \E unit \in {client[c].next, 0} :
       /\ IF unit = 0 THEN Mishap ELSE UNCHANGED mishaps
       /\ LET file == client[c].file
              offset == IF client[c].appends THEN Len(inodes[file]) + 1 ELSE client[c].downloaded + 1
          IN  inodes' = [inodes EXCEPT ![file] = Written(@, offset, unit)]
  /\ client' = [client EXCEPT ![c].downloaded = @ + 1, ![c].next = @ + 1]
  /\ Progress(c, client[c].downloaded + 1, client[c].total)
  /\ UNCHANGED <<kind, paths>>

(* The body ends, early if the server closed it; short of the total it was  *)
(* told, the download fails and the partial is kept.                        *)
BodyEnds(c) ==
  /\ At(c, "stream")
  /\ IF client[c].next <= Size THEN Mishap ELSE UNCHANGED mishaps
  /\ IF client[c].total # 0 /\ client[c].downloaded # client[c].total
     THEN Fails(c)
     ELSE GoTo(c, "verify") /\ UNCHANGED slot
  /\ UNCHANGED <<kind, inodes, paths>>

(* The hash is of the file that has the name now.                           *)
(* Mutant: a mismatch is only reported.                                     *)
ProceedAnyway == TRUE
HashMatches == inodes[partial] = Right
Verify(c) ==
  /\ At(c, "verify")
  /\ IF partial = 0 THEN Fails(c) /\ UNCHANGED partial
     ELSE IF HashMatches THEN GoTo(c, "promote") /\ UNCHANGED <<slot, partial>>
     ELSE Fails(c) /\ partial' = 0
  /\ UNCHANGED <<kind, inodes, dest, sentinel, extracted, target, mishaps>>

(* And so is the one that is renamed.                                       *)
Promote(c) ==
  /\ At(c, "promote")
  /\ IF partial = 0
     THEN Fails(c) /\ UNCHANGED <<partial, dest>>
     ELSE /\ dest' = partial /\ partial' = 0 /\ UNCHANGED slot
          /\ GoTo(c, IF kind = "cleanup" THEN "mark" ELSE "clear")
  /\ UNCHANGED <<kind, inodes, sentinel, extracted, target, mishaps>>

-----------------------------------------------------------------------------
(* write_ok_sentinel.                                                       *)
MarkVerified(c) ==
  /\ At(c, "mark") /\ sentinel' = TRUE /\ Ends(c, "Done")
  /\ UNCHANGED <<kind, inodes, partial, dest, extracted, target, mishaps>>

(* The archive is unpacked into an empty directory, a file after the other; *)
(* gzip and tar refuse one that is not right.                               *)
ClearExtracted(c) ==
  /\ At(c, "clear") /\ extracted' = "empty" /\ GoTo(c, "unpack")
  /\ UNCHANGED <<kind, inodes, partial, dest, sentinel, target, slot, mishaps>>
Unpack(c) ==
  /\ At(c, "unpack")
  /\ IF dest # 0 /\ inodes[dest] = Right /\ extracted # "none"
     THEN GoTo(c, "unpacking") /\ extracted' = "part" /\ UNCHANGED slot
     ELSE Fails(c) /\ UNCHANGED extracted
  /\ UNCHANGED <<kind, inodes, partial, dest, sentinel, target, mishaps>>
Unpacked(c) ==
  /\ At(c, "unpacking")
  /\ IF extracted = "part" THEN extracted' = "whole" /\ GoTo(c, "replace") /\ UNCHANGED slot
                           ELSE Fails(c) /\ UNCHANGED extracted
  /\ UNCHANGED <<kind, inodes, partial, dest, sentinel, target, mishaps>>

(* The old directory goes, the new one is renamed, the staging removed.     *)
RemoveTarget(c) ==
  /\ At(c, "replace") /\ target' = "none" /\ GoTo(c, "move")
  /\ UNCHANGED <<kind, inodes, partial, dest, sentinel, extracted, slot, mishaps>>
MoveExtracted(c) ==
  /\ At(c, "move")
  /\ IF extracted \in {"none", "empty"} \/ target # "none"
     THEN Fails(c) /\ UNCHANGED <<extracted, target>>
     ELSE target' = extracted /\ extracted' = "none" /\ GoTo(c, "tidy") /\ UNCHANGED slot
  /\ UNCHANGED <<kind, inodes, partial, dest, sentinel, mishaps>>
RemoveStaging(c) ==
  /\ At(c, "tidy") /\ Ends(c, "Done")
  /\ partial' = 0 /\ dest' = 0 /\ extracted' = "none"
  /\ UNCHANGED <<kind, inodes, sentinel, target, mishaps>>

-----------------------------------------------------------------------------
(* The process ends; only files are left.                                   *)
ProcessEnds(c) ==
  /\ ~At(c, "idle") /\ Mishap
  /\ client' = [client EXCEPT ![c] = Idle]
  /\ slot' = IF c = "app" THEN [active |-> FALSE, phase |-> "Idle"] ELSE slot
  /\ UNCHANGED <<kind, inodes, paths>>

Works(c) ==
  \/ CheckModel(c) \/ Resume(c) \/ StartFresh(c) \/ RangeNotSatisfiable(c)
  \/ Receive(c) \/ BodyEnds(c) \/ Verify(c) \/ Promote(c) \/ MarkVerified(c)
  \/ ClearExtracted(c) \/ Unpack(c) \/ Unpacked(c)
  \/ RemoveTarget(c) \/ MoveExtracted(c) \/ RemoveStaging(c)

DownloadNext == \E c \in Clients : Begin(c) \/ Works(c) \/ RequestFails(c) \/ ProcessEnds(c)
=============================================================================
