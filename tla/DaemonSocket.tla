------------------------------ MODULE DaemonSocket -----------------------------
(***************************************************************************)
(* The control socket (flow-core/src/ipc.rs, desktop daemon.rs) and those  *)
(* who call it: the `flow` commands and the MCP server.  A process of the  *)
(* app binds daemon.sock when it starts and serves one connection after    *)
(* another; a call is one connection, one request and one response.        *)
(*                                                                         *)
(* Of the dictation a process runs (module Dictation) the socket sees      *)
(* whether one is under way, the mailbox, and that a listen is answered in *)
(* the end unless a worker was lost.                                       *)
(***************************************************************************)
EXTENDS Naturals, Sequences, FiniteSets

CONSTANTS
  Requests,     \* the requests made, of the kinds below
  MaxLaunches,  \* bound: processes of the app
  MaxApps,      \* how many of them may run at a time
  MaxCalls,     \* bound: calls
  MaxToggles,   \* bound: the user's own toggles, from the tray
  MaxCrashes,   \* bound: processes killed
  MaxWedges     \* bound: dictations that never end

Long == {"listen", "transcribe"}          \* the handler waits for a reply
Posts == {"toggle", "cancel"}             \* posted to the coordinator
RequestKinds == {"status"} \cup Posts \cup Long

ASSUME SocketAssumption ==
  /\ Requests \subseteq RequestKinds
  /\ {MaxLaunches, MaxApps, MaxCalls, MaxToggles, MaxCrashes, MaxWedges} \subseteq Nat

VARIABLES
  socket_path,  \* the process whose listener daemon.sock names, or 0: no file
  apps,         \* the processes started so far
  dictation,    \* of each process: its state, recordings begun, listen and mailbox
  calls,        \* the calls made so far
  toggles, crashes, wedges,
  stray         \* history: a cancel reached a recording begun after its caller gave up

socketVars == <<socket_path, apps, dictation, calls, toggles, crashes, wedges, stray>>
budgets == <<toggles, crashes, wedges>>

(* A process: where its start or its life is, the connections that wait to  *)
(* be accepted (0 is one that was only a test), and what its handler does.  *)
NewApp == [stage |-> "probe", backlog |-> << >>, at |-> "accept", call |-> 0]
NewDictation == [state |-> "Idle", rec |-> 0, listen |-> 0, inbox |-> << >>,
                 replies |-> {}, wedged |-> FALSE]

(* A call; `delayed` when it was queued behind a long one, `gave_up` when   *)
(* its caller stopped waiting, `known` how many recordings had begun when it*)
(* was over.                                                                *)
NewCall(request) ==
  [request |-> request, stage |-> IF request \in Long THEN "probe" ELSE "connect",
   app |-> 0, delayed |-> FALSE, gave_up |-> FALSE, known |-> 0]

SocketInit ==
  /\ socket_path = 0 /\ apps = << >> /\ dictation = << >> /\ calls = << >>
  /\ toggles = MaxToggles /\ crashes = MaxCrashes /\ wedges = MaxWedges
  /\ stray = FALSE

Stage(p) == apps[p].stage
ToStage(p, stage) == apps' = [apps EXCEPT ![p].stage = stage]
Running(p) == Stage(p) # "ended"

(* is_alive: a connection is accepted there.                                *)
IsAlive(p) == p # 0 /\ Stage(p) = "serving"

-----------------------------------------------------------------------------
(* The life of a process.                                                   *)

Launch ==
  /\ Len(apps) < MaxLaunches /\ Cardinality({p \in DOMAIN apps : Running(p)}) < MaxApps
  /\ apps' = Append(apps, NewApp) /\ dictation' = Append(dictation, NewDictation)
  /\ UNCHANGED <<socket_path, calls, budgets, stray>>

(* bind: a file that nobody listens on is stale.  The test is a connection. *)
(* Mutant: a socket file that is there belongs to somebody.                 *)
AnyFile == socket_path # 0
TakenPath == IsAlive(socket_path)
ProbePath(p) ==
  /\ Stage(p) = "probe"
  /\ \/ socket_path = 0 /\ ToStage(p, "bind")
     \/ socket_path # 0 /\ ~TakenPath /\ ToStage(p, "remove")
     \/ /\ TakenPath
        /\ apps' = [apps EXCEPT ![p].stage = "plain", ![socket_path].backlog = Append(@, 0)]
  /\ UNCHANGED <<socket_path, dictation, calls, budgets, stray>>

(* The file is removed by its name, whosever it is by now.                  *)
RemoveStale(p) ==
  /\ Stage(p) = "remove"
  /\ socket_path' = 0 /\ ToStage(p, IF socket_path # 0 THEN "bind" ELSE "plain")
  /\ UNCHANGED <<dictation, calls, budgets, stray>>

(* The address in use is an error, which is not fatal (lib.rs).             *)
Bind(p) ==
  /\ Stage(p) = "bind"
  /\ \/ socket_path = 0 /\ socket_path' = p /\ ToStage(p, "bound")
     \/ socket_path # 0 /\ ToStage(p, "plain") /\ UNCHANGED socket_path
  /\ UNCHANGED <<dictation, calls, budgets, stray>>
Serve(p) ==
  /\ Stage(p) = "bound" /\ ToStage(p, "serving")
  /\ UNCHANGED <<socket_path, dictation, calls, budgets, stray>>

(* The end of a process closes its connections.                             *)
Over(call, known) == [call EXCEPT !.stage = "over", !.known = known]
ProcessGone(p) ==
  /\ apps' = [apps EXCEPT ![p] = [NewApp EXCEPT !.stage = "ended"]]
  /\ dictation' = [dictation EXCEPT ![p] = NewDictation]
  /\ calls' = [c \in DOMAIN calls |->
                 IF calls[c].stage = "waiting" /\ calls[c].app = p
                 THEN Over(calls[c], dictation[p].rec) ELSE calls[c]]
  /\ UNCHANGED <<toggles, wedges, stray>>

(* RunEvent::Exit cleans up the path, whether or not it is its own.         *)
Quit(p) ==
  /\ Stage(p) \in {"serving", "plain"} /\ ProcessGone(p)
  /\ socket_path' = 0 /\ UNCHANGED crashes
Crash(p) ==
  /\ Running(p) /\ crashes > 0 /\ crashes' = crashes - 1
  /\ ProcessGone(p) /\ UNCHANGED socket_path

-----------------------------------------------------------------------------
(* The callers.                                                             *)

Call(request) ==
  /\ Len(calls) < MaxCalls /\ calls' = Append(calls, NewCall(request))
  /\ UNCHANGED <<socket_path, apps, dictation, budgets, stray>>

Queue(c) == apps' = [apps EXCEPT ![socket_path].backlog = Append(@, c)]

(* Nobody there: standalone, or an error.                                   *)
Unreachable(c) ==
  /\ ~IsAlive(socket_path) /\ calls' = [calls EXCEPT ![c].stage = "over"]
  /\ UNCHANGED apps

(* is_daemon_running, isDaemonAlive.                                        *)
IsDaemonRunning(c) ==
  /\ calls[c].stage = "probe"
  /\ \/ Unreachable(c)
     \/ IsAlive(socket_path) /\ Queue(0) /\ calls' = [calls EXCEPT ![c].stage = "connect"]
  /\ UNCHANGED <<socket_path, dictation, budgets, stray>>

(* The request is written as soon as the connection is made.                *)
LongAhead(p) ==
  \/ apps[p].at = "wait"
  \/ \E i \in DOMAIN apps[p].backlog :
       apps[p].backlog[i] # 0 /\ calls[apps[p].backlog[i]].request \in Long
Connect(c) ==
  /\ calls[c].stage = "connect"
  /\ \/ Unreachable(c)
     \/ /\ IsAlive(socket_path) /\ Queue(c)
        /\ calls' = [calls EXCEPT ![c].stage = "waiting", ![c].app = socket_path,
                                  ![c].delayed = LongAhead(socket_path)]
  /\ UNCHANGED <<socket_path, dictation, budgets, stray>>

(* A caller gives up: of a short request (5 s) when the server is busy with *)
(* another call; of a listen, whose budget is that of the handler, when it  *)
(* was queued for a while or the dictation is lost; of a transcription (60 s*)
(* in the MCP server) when it takes that long.  The connection stays queued.*)
Late(c) ==
  LET p == calls[c].app
  IN  CASE calls[c].request = "listen"     -> calls[c].delayed \/ dictation[p].wedged
        [] calls[c].request = "transcribe" -> TRUE
        [] OTHER                           -> apps[p].at = "wait" /\ apps[p].call # c
GiveUp(c) ==
  /\ calls[c].stage = "waiting" /\ Late(c)
  /\ calls' = [calls EXCEPT ![c] = [Over(@, dictation[@.app].rec) EXCEPT !.gave_up = TRUE]]
  /\ UNCHANGED <<socket_path, apps, dictation, budgets, stray>>

-----------------------------------------------------------------------------
(* The server's thread: accept, handle_one, handle_request.                 *)

Post(p, kind, c) ==
  dictation' = [dictation EXCEPT ![p].inbox = Append(@, [kind |-> kind, call |-> c])]
Answered(c) ==
  calls' = [calls EXCEPT ![c] = IF @.stage = "waiting" THEN Over(@, dictation[@.app].rec) ELSE @]

Accepting(p) == IsAlive(p) /\ apps[p].at = "accept" /\ apps[p].backlog # << >>
Front(p) == Head(apps[p].backlog)
Handling(p, at, c) ==
  apps' = [apps EXCEPT ![p].backlog = Tail(@), ![p].at = at, ![p].call = c]

(* A peer that sent nothing.                                                *)
AcceptTest(p) ==
  /\ Accepting(p) /\ Front(p) = 0 /\ Handling(p, "accept", 0)
  /\ UNCHANGED <<socket_path, dictation, calls, budgets, stray>>

Request(p, kinds) == Accepting(p) /\ Front(p) # 0 /\ calls[Front(p)].request \in kinds

HandleStatus(p) ==
  /\ Request(p, {"status"}) /\ Answered(Front(p)) /\ Handling(p, "accept", 0)
  /\ UNCHANGED <<socket_path, dictation, budgets, stray>>
HandlePost(p) ==
  /\ Request(p, Posts) /\ Handling(p, "settle", Front(p))
  /\ Post(p, calls[Front(p)].request, Front(p))
  /\ UNCHANGED <<socket_path, calls, budgets, stray>>
HandleListen(p) ==
  /\ Request(p, {"listen"}) /\ Handling(p, "wait", Front(p)) /\ Post(p, "listen", Front(p))
  /\ UNCHANGED <<socket_path, calls, budgets, stray>>
HandleTranscribe(p) ==
  /\ Request(p, {"transcribe"}) /\ Handling(p, "wait", Front(p))
  /\ UNCHANGED <<socket_path, dictation, calls, budgets, stray>>

(* recv_timeout: the budget covers every dictation that ends.               *)
(* Mutant: recv, without a bound.                                           *)
Unbounded(p) == FALSE
TimesOut(p) == dictation[p].wedged
HasReply(p) ==
  LET c == apps[p].call
  IN  calls[c].request = "listen" => c \in dictation[p].replies \/ TimesOut(p)
Respond(p) ==
  /\ IsAlive(p) /\ apps[p].at \in {"settle", "wait"} /\ HasReply(p)
  /\ Answered(apps[p].call)
  /\ apps' = [apps EXCEPT ![p].at = "accept", ![p].call = 0]
  /\ UNCHANGED <<socket_path, dictation, budgets, stray>>

-----------------------------------------------------------------------------
(* The coordinator, as module Dictation promises it.                        *)

UserToggles(p) ==
  /\ Running(p) /\ toggles > 0 /\ toggles' = toggles - 1 /\ Post(p, "toggle", 0)
  /\ UNCHANGED <<socket_path, apps, calls, crashes, wedges, stray>>

Took(p, kind) == dictation[p].inbox # << >> /\ Head(dictation[p].inbox).kind = kind
Message(p) == Head(dictation[p].inbox)
Popped(p) == [dictation[p] EXCEPT !.inbox = Tail(@)]
Dictates(p, d) == dictation' = [dictation EXCEPT ![p] = d]
Records(d, c) == [d EXCEPT !.state = "Recording", !.rec = @ + 1, !.listen = c]
Closes(d) == [d EXCEPT !.state = "Idle", !.listen = 0,
                       !.replies = @ \cup ({d.listen} \ {0})]

TakeToggle(p) ==
  /\ Took(p, "toggle")
  /\ LET d == Popped(p)
     IN  Dictates(p, CASE d.state = "Idle"         -> Records(d, 0)
                       [] d.state = "Recording"    -> [d EXCEPT !.state = "Transcribing"]
                       [] d.state = "Transcribing" -> d)
  /\ UNCHANGED <<socket_path, apps, calls, budgets, stray>>

AfterItsCall(p, c) == c # 0 /\ calls[c].gave_up /\ dictation[p].rec > calls[c].known
TakeCancel(p) ==
  /\ Took(p, "cancel")
  /\ LET d == Popped(p)
     IN  IF d.state = "Recording"
         THEN Dictates(p, Closes(d)) /\ stray' = (stray \/ AfterItsCall(p, Message(p).call))
         ELSE Dictates(p, d) /\ UNCHANGED stray
  /\ UNCHANGED <<socket_path, apps, calls, budgets>>

TakeListen(p) ==
  /\ Took(p, "listen")
  /\ LET d == Popped(p)
         c == Message(p).call
     IN  Dictates(p, IF d.state = "Idle" THEN Records(d, c)
                                         ELSE [d EXCEPT !.replies = @ \cup {c}])
  /\ UNCHANGED <<socket_path, apps, calls, budgets, stray>>

RecordingEnds(p) ==
  /\ dictation[p].state = "Recording"
  /\ Dictates(p, [dictation[p] EXCEPT !.state = "Transcribing"])
  /\ UNCHANGED <<socket_path, apps, calls, budgets, stray>>
DictationEnds(p) ==
  /\ dictation[p].state = "Transcribing" /\ ~dictation[p].wedged
  /\ Dictates(p, Closes(dictation[p]))
  /\ UNCHANGED <<socket_path, apps, calls, budgets, stray>>

(* A rolling worker is lost before its Final was waited for (see the README)*)
Wedge(p) ==
  /\ dictation[p].state = "Transcribing" /\ wedges > 0 /\ wedges' = wedges - 1
  /\ Dictates(p, [dictation[p] EXCEPT !.wedged = TRUE])
  /\ UNCHANGED <<socket_path, apps, calls, toggles, crashes, stray>>

-----------------------------------------------------------------------------
StartsUp(p) == ProbePath(p) \/ RemoveStale(p) \/ Bind(p) \/ Serve(p)
Serves(p) == \/ AcceptTest(p) \/ HandleStatus(p) \/ HandlePost(p) \/ HandleListen(p)
             \/ HandleTranscribe(p) \/ Respond(p)
Coordinates(p) == \/ TakeToggle(p) \/ TakeCancel(p) \/ TakeListen(p)
                  \/ RecordingEnds(p) \/ DictationEnds(p)
Reaches(c) == IsDaemonRunning(c) \/ Connect(c)

SocketNext ==
  \/ Launch \/ \E request \in Requests : Call(request)
  \/ \E p \in DOMAIN apps : \/ StartsUp(p) \/ Quit(p) \/ Crash(p) \/ Serves(p)
                            \/ UserToggles(p) \/ Coordinates(p) \/ Wedge(p)
  \/ \E c \in DOMAIN calls : Reaches(c) \/ GiveUp(c)

SocketSafety == SocketInit /\ [][SocketNext]_socketVars

(* A process starts up and serves, its coordinator takes messages, and a    *)
(* recording has a cap; a caller connects, and may wait as long as it likes.*)
SocketFairness ==
  /\ \A p \in 1..MaxLaunches : /\ WF_socketVars(p \in DOMAIN apps /\ StartsUp(p))
                               /\ WF_socketVars(p \in DOMAIN apps /\ Serves(p))
                               /\ WF_socketVars(p \in DOMAIN apps /\ Coordinates(p))
=============================================================================
