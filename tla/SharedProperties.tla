--------------------------- MODULE SharedProperties ---------------------------
(***************************************************************************)
(* What the app shares with other processes: the control socket (module    *)
(* DaemonSocket) and the model files (ModelDownload).  The two share no    *)
(* state; a behaviour is of one of them, chosen at the start.              *)
(***************************************************************************)
EXTENDS ModelDownload, DaemonSocket

VARIABLE focus

CONSTANT Parts   \* of "socket" and "download"

SharedInit ==
  /\ focus \in Parts /\ DownloadInit /\ SocketInit
  /\ focus = "socket" => kind = "cleanup" /\ partial = 0 /\ dest = 0 /\ inodes[2] = Right
OfSocket == focus = "socket" /\ SocketNext /\ UNCHANGED <<focus, downloadVars>>
OfDownload == focus = "download" /\ DownloadNext /\ UNCHANGED <<focus, socketVars>>

SharedSafety == SharedInit /\ [][OfSocket \/ OfDownload]_<<focus, socketVars, downloadVars>>

(* The fairness of the part the behaviour is of: DaemonSocket's, or that    *)
(* a download goes on and the user asks again while there is no model.      *)
SharedSpec ==
  /\ SharedSafety /\ SocketFairness
  /\ \A c \in Clients : /\ WF_downloadVars(focus = "download" /\ Begin(c))
                        /\ WF_downloadVars(focus = "download" /\ Works(c))

-----------------------------------------------------------------------------
(* A model that is taken for installed is the right one, whole: "dest is    *)
(* never touched until the bytes are proven good" (download_verified), a    *)
(* corrupt leftover reads as missing (check_cleanup_model), and a directory *)
(* half unpacked is never swapped in, whatever was staged before, however   *)
(* the transfer fails and wherever the process ends.                        *)
TrustedIsGood ==
  Trusted => IF kind = "parakeet" THEN target = "whole" ELSE inodes[dest] = Right

(* No staging file, of whatever length or version, is in the way for good:  *)
(* asked for again, the model is installed in the end, and the slot of the  *)
(* app is free again.                                                       *)
InstallConverges == <>[](focus = "download" => Trusted /\ ~slot.active)

-----------------------------------------------------------------------------
(* A process that starts is reachable by the path, whatever file a process  *)
(* that was killed left there, or is gone (bind, cleanup), as long as no    *)
(* two run at a time.                                                       *)
LaunchIsReachable ==
  \A p \in 1..MaxLaunches :
    (p \in DOMAIN apps) ~> (p \in DOMAIN apps /\ (Running(p) => IsAlive(p) /\ socket_path = p))

(* A call ends, however long its caller is ready to wait: the server comes  *)
(* back to the queue whatever becomes of the dictation it waits for (the    *)
(* budget of handle_listen), and a process that ends hangs up.              *)
CallsAreAnswered ==
  \A c \in 1..MaxCalls :
    (c \in DOMAIN calls /\ calls[c].stage = "waiting")
      ~> (c \in DOMAIN calls /\ calls[c].stage = "over")

(* `flow cancel` is documented to "Cancel the daemon's in-progress          *)
(* recording, if any" (docs/USAGE-macOS.md:636): a call that is over, its   *)
(* caller told that the daemon is unreachable, cancels no recording that    *)
(* begins later.                                                            *)
(* The code does not keep it (README, What does not hold).                  *)
CancelsInProgress == ~stray

(* A server can be reached by the path for as long as it serves.            *)
(* The code does not keep it (README, What does not hold).                  *)
ServerIsReachable == \A p \in DOMAIN apps : IsAlive(p) => socket_path = p
=============================================================================
