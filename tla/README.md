# A verification of vzt-flow

vzt-flow is a local voice-dictation program: hold a key (or tap it, or use the
tray, or call `flow listen`), speak, and the words are transcribed on the
machine, cleaned up and pasted.  It also takes the notes of meetings.  This
directory holds TLA+ modules translated from its Rust source, TLC runs that
check them on small instances, and TLAPS proofs for every instance.

## 1. The system

| Part | Source | State it keeps | What it does | Talks to |
|---|---|---|---|---|
| coordinator | `src-tauri/src/coordinator.rs`, `state.rs` | `AppState` (state, `is_recording`, `hands_free_active`, `pending_listen`, model mirror), locals (hold tracker, rolling sender, epoch, pending rolling final) | one loop over one channel: gestures, audio replies, rolling outputs, results; delivers text; restarted by a supervisor after a panic | everybody |
| hold-threshold threads, `finish_with` threads, waiter threads | `coordinator.rs` | none of their own; read and write `AppState` | sleep, look, act | coordinator |
| audio worker | `flow-core/src/audio.rs` | the recording under way | Start, Stop, Cancel; ends by itself at the cap, after silence, on a device fault | coordinator |
| rolling worker and forwarder | `flow-core/src/rolling.rs` | chunk slots, watchdog clock | cuts chunks while recording, retries failed ones as halves, answers partial when the engine stalls and late when it revives | coordinator, model manager |
| model manager | `flow-core/src/model_manager.rs` | the speech model, last use | serial queue, lazy load, idle unload, panic isolation | waiters, rolling worker, recovery |
| clean-up manager | `flow-core/src/cleanup_manager.rs`, `cleanup.rs` | the LLM, `load_failed_once`, `warmed_up` | a generation on a thread of its own, raced against a deadline, always joined | waiters |
| paste | `flow-core/src/insert.rs` | the clipboard, a restore thread per paste | copy, paste, verify, restore a second later | coordinator, the user |
| recovery | `flow-core/src/recovery.rs`, `spawn_recovery` | `recovery/last.wav`, `RECOVERY_RUNNING` | a failed dictation's audio is saved; on request it is transcribed chunk by chunk behind live dictation | coordinator, model manager, clipboard |
| hotkey tap and re-arm driver | `flow-core/src/hotkey.rs`, `permissions.rs`, `coordinator.rs` | hold latch, keycode, validated flag | turns key events into messages, resynchronises a lost release, arms when permission comes late | coordinator, settings |
| daemon socket | `src-tauri/src/daemon.rs`, `flow-core/src/ipc.rs` | `daemon.sock`, its backlog | one thread accepts and answers one call after another; a listen holds it | coordinator, `flow`, the MCP server |
| chunk planning | `flow-core/src/chunking.rs` | none (pure) | where to cut, how to join | model manager, rolling worker, recovery |
| meeting capture | `flow-core/src/meeting/mod.rs`, `transcriber.rs`, `dedup.rs` | a chunker per source, the echo history, the transcript file | two sources, one transcription worker, a summary | tray, model |
| meeting control and detector | `meeting_ctl.rs`, `meeting/detect.rs` | the handle of the session, debounce streaks | starts and stops sessions for the tray and for detected calls | meeting capture |
| model download | `commands.rs`, `flow-core/src/models.rs` | staging files, the model files, the download slot | one at a time in the app, resume, verify, install | settings window, `flow models` |
| text transforms, configuration, history, command line, MCP server, shell | the rest | files, windows | pure rewriting, one-shot clients, drawing | |

What is hard here: the state that says *Recording* is set when a Start is
*sent*, by any of several threads, while the audio worker that really records
answers later and may answer something else; a dictation waits for its
transcript with no timer of its own and relies on a tag (the epoch) to know its
answer from an earlier one's; results come late, partial, twice or not at all;
the coordinator may panic and lose half of what it knows while everybody else
runs on; and timers act on what they read a moment ago.  Around it: the
clipboard is the user's too, and nobody can lock it; key events are lost while
macOS has the tap disabled; files and the socket's path outlive the process
that made them; tray and detector decide about one meeting session without a
common lock.

What makes each part right: *coordinator* - every recording ends, every
transcription ends, words go to exactly one place and to whoever asked, a busy
dictation is not cut short; *audio worker* - every command is answered, a take
ends once; *rolling worker* - exactly one Final, nothing lost between chunks,
nothing assembled twice; *managers* - one answer per command, no live thread
left behind; *paste* - the user's own copy is never clobbered, a transcript
said to be on the clipboard stays there; *recovery* - what is reported as whole
is whole, and it can be asked for again; *hotkey tap* - presses and releases
alternate and a lost release is made up for; *meetings* - speech is
transcribed once or known to be lost, a session can always be stopped;
*download* - what is trusted is what was verified, and a leftover never blocks
for good; *socket* - a started daemon is reachable, a call ends.

## 2. Modules

| Module | Models | Of |
|---|---|---|
| `DictationState` | the variables, messages and constants the rest share, `Init`, `TypeOK` | `state.rs`, the enums of `coordinator.rs` and `audio.rs` |
| `AudioWorker` | `spawn_audio_worker`, `run_one_recording`: one action per command in each of its two situations, and per way a recording ends by itself | `audio.rs` |
| `HoldGesture` | one action per input message, `start_recording`, and the hold-threshold thread in its three steps | `coordinator.rs` |
| `Coordinator` | one action per audio reply, rolling output and result; `run_pipeline`, `finalize_dictation`, `finish_with`; the supervisor | `coordinator.rs`, `state.rs` |
| `Dictation` | the composition: rolling workers and waiter threads as the coordinator sees them, the environment, `Next`, fairness | |
| `TakeLedger` | the promise: every take is closed, and settled exactly once, and never just gone | abstract |
| `DictationProperties` | what must hold, and the refinement mapping to `TakeLedger` | |
| `MCDictation` | the scopes of the runs | |
| `DictationProofs` | the theorems about them | |
| `Chunking` | where audio is cut and how transcripts are joined, as functions | `chunking.rs` |
| `ChunkingProofs` | what those functions compute, and induction for recursive functions | |
| `ModelManager` | the model thread: one action per command taken, load outcome, inference outcome, idle unload | `model_manager.rs`, the status forwarder of `coordinator.rs` |
| `RollingWorker` | extends both: one action per input, per arm of `on_result`, per way out of `finish`; the threads that carry answers back | `rolling.rs` |
| `RollingPromise` | the promise: told to finish it answers once, completely or partially, and may follow up once | abstract; what `Dictation` takes a rolling worker to be |
| `RollingProperties` | what must hold, and the refinement mapping to `RollingPromise` | |
| `MCRolling` | the scope of the runs | |
| `RollingProofs`, `RollingWordsProofs` | the theorems about the rolling worker: its cuts, answers and promise; its words | |
| `Clipboard` | `paste_text` by stages, the restore threads, transcripts left there to stay, the user's copies | `insert.rs`, `deliver` |
| `Recovery` | extends `Chunking` and `ModelManager`: saving and renaming, the recovery thread, live dictation beside it, restart and panic | `recovery.rs`, `spawn_recovery` |
| `Segments` | how a transcript is cut for the language model, as functions | `cleanup.rs` |
| `CleanupManager` | extends `Segments`: the manager, the generating worker, deadline and grace, the waiters | `cleanup_manager.rs`, `run_pipeline` |
| `DeskProperties`, `MCDesk` | the three put side by side, and what must hold | |
| `DeskProofs` | the theorems about them; extends `ChunkingProofs` | |
| `HotkeyTap` | keys, the tap's callback, the watchdog, the re-arm driver, a change of the binding | `hotkey.rs`, `spawn_hotkey_rearm_driver`, `set_config` |
| `HotkeyProperties`, `MCHotkey` | what must hold; the scope | |
| `HotkeyProofs` | the theorems about the tap | |
| `MeetingControl` | the handle, the tray's toggle, the debouncer, the detector's loop, the joining threads | `meeting_ctl.rs`, `detect.rs` |
| `MeetingSession` | one session: both chunkers, the worker with its echo history, stop, summary | `meeting/mod.rs`, `transcriber.rs`, `dedup.rs` |
| `MeetingProperties`, `MCMeeting` | what must hold; the scope | |
| `MeetingProofs` | the theorems about control and session | |
| `ModelDownload` | a transfer by steps, on files that are inodes; unpacking and the swap of directories; the slot | `models.rs`, `commands.rs` |
| `DaemonSocket` | binding and cleaning up, the accept loop, each request, the callers with their time limits | `ipc.rs`, `daemon.rs`, their clients |
| `SharedProperties`, `MCShared` | the two put side by side, and what must hold | |
| `SharedProofs` | the theorems about the download and the socket | |

**State.** A recording's audio is abstracted to the *take* it belongs to: take
t is the t-th opening of the microphone.  `rolling_in`, `pending_rolling`,
`hold`, `rolling_epoch` are the coordinator's locals of the same names; `inbox`
is its channel, `cmds` the audio worker's.  `rollers` are rolling workers with
their forwarders, by phase (`live`: recording; `finish`: told to finish;
`late`: a partial Final sent, stragglers awaited), `jobs` the waiter threads of
batch transcription and clean-up, `timers` the hold-threshold threads,
`finishers` the `finish_with` threads.  `takes` and `listens` are history: what
became of each take's words (`captured` means they are owed; `settled` pasted,
returned, put on the clipboard, saved or reported; `lost` gone without a word)
and how each daemon listen was answered, from which take, and whether it was
accepted `alone`, when nothing of another recording was under way: no command,
reply, worker awaited, job, result, or hold-threshold thread about to start one.

**Grain.** A handler of the coordinator is one action: it runs alone on its
thread, and what it touches of `AppState` is touched by others only through
`dictation_state`, `is_recording` and the flags read at its start.  What other
threads do in several steps is several actions where the steps matter: the
hold-threshold thread (flags, then state, then start) and `finish_with`'s (state,
then `is_recording`).  The three flags of the first are read in one step, and
`set_dictation_state`'s two stores are one step.  A panic is modelled at the
entry of a handler.  Timers may fire at any moment after they are set, so every
order of sleeps that the delays allow, and more, is explored.

**Rolling transcription.** Audio is a sequence of units; a unit is a word or
quiet, lengths are counted in units, and a transcript is a sequence of words.
That is as fine as a cut can be told from a word, an overlap from a repetition
and a lost word from a silent one; a word cut in two by a hard cut is not
represented.  `plans` and `slots` are the worker's, `results` its answer
channel, `queue` the manager's command channel and `replies` the reply channels
with the forwarder threads that wait on them, so answers come in any order.
An input is handled in the step that sends it, which only merges the sender's
step with the worker's next one: the channel is first-in-first-out and nobody
else reads it.  A hold of the watchdog is counted in polls; its windows are not
counted out, so it may fire whenever no answer is unread and no load holds it,
in particular whenever the code's clock would let it.  The engine returns the
words it was given, nothing, or an error; it never invents words.
`model_loading` changes as its event is sent.

**How the two meet.** `Dictation` sees a rolling worker as a process that sends
a Final, or a partial Final and perhaps a Late or a second partial Final, or
nothing and is reported lost; `RollingPromise` states this on its own, and
`RollingWorker` is shown to implement it.

**Side by side.**  `DeskProperties`, `MeetingProperties` and `SharedProperties`
each hold parts that share no state in the code (or, for meetings, of which one
sees of the other only that a stopped session returns).  A behaviour is of one
part, chosen at the start (`focus`), the others resting: interleaving what does
not interact would multiply states and show nothing.

**Clipboard.**  Every content has an identity, so two copies never look alike;
`files` stands for what `SavedClipboard` cannot capture.  `pasting` is
`paste_text` on the coordinator's thread with its snapshot, `restorers` the
sleeping threads.  Reading the clipboard and writing it are two steps for
everybody but the user.  The delay before a restore is not measured.  `taken`,
`raced` and `told` are history and name the exceptions of the properties.

**Recovery.**  A recording is a sequence of units as for rolling transcription,
`last_wav` and `tmp` the files, `thread` the recovery thread with the plan, the
chunk and the attempt it is at.  The manager is `ModelManager`, fed by the
recovery and by live dictation; a command that was given up on stays queued and
answers a channel nobody reads.  A restart loses everything but the files.

**CleanupManager.**  `commands` is the manager's channel, `manager` its thread,
`worker` the thread that generates with the flag `cancel` and the channel
`answer`, `waiting` the threads of `run_pipeline`.  Deadline, grace period and
the waiter's timeout may pass whenever their thread waits.  A cleaned text is,
for each segment, where its words come from: raw, a whole generation, or one
that was cancelled or ran out of tokens.

**HotkeyTap.**  `latch` is `hold_was_down` with `hold_validated`,
`latch_keycode` the key it is for, `keycode` the shared binding, `tap` what
macOS makes of the tap, `events` what was delivered and not yet handled.  The
left and right key of a pair share a flag, as in the code.  Presses come by
hand, which the key-state table shows, or are posted by a program, which it
does not.  Events that happen while the tap is disabled are gone.

**Meetings.**  `slot` is `AppState::meeting_session`, `sessions` the threads
started, `debouncer` the streaks, `detector` the loop by stages with the mode
it read; a toggle decides and acts in two steps.  In a session a unit of time
is an analysis frame and a frame's loudness is speech, silence or between the
two thresholds; `chunker`, `queue`, `recent` and `lines` are the chunkers, the
flush channel, the echo history and the transcript, `lost` the chunks that
gave no line and why.  A source numbers its frames from the opening of its own
stream, as the code does (no clock is read, `transcriber.rs:204-248`); `opened`
is history and says when that was in a time common to both, so that properties
can tell an offset from a time.  Gaps in a stream, which would shift its offsets
further, are not modelled.

**ModelDownload.**  A file is an inode and a path names one, so a path removed
or renamed leaves a writer writing where it was.  Contents are a few units, 0 a
wrong one.  A transfer is a step per unit, and the steps of the installation
are the system calls; a process may end between any two of them.

**DaemonSocket.**  `socket_path` names the process whose listener the file
leads to, `apps` the processes with their backlog and what their one serving
thread does, `calls` the callers.  Of the dictation it keeps the state, the
mailbox and that a listen is answered in the end unless the dictation never
ends (`Wedge`, the second violation of section 3).

**Left out of RollingWorker.** Previews, signal statistics, the environment's
fault injection, the resampler, and the clock; the whole-recording command of
the model manager, which is a job of `Dictation`.

**Left out of Dictation.** Levels, previews, model and clean-up status events,
the overlay and its test; the wording of
messages; a clean-up that yields empty text; the moment between the two stores
of `set_dictation_state`; the disconnection of the channels at shutdown; the
socket's own timeout on a listen.  The chord window is nondeterminism: another
key during a hold may or may not be within it.

**Left out of the others.**  `flow models download --force` (`models.rs:284`,
`456`), which replaces an installed model: without it `RemoveTarget` finds
something to remove only when two install at once.  A caller of the socket that
connects and then neither writes nor closes: a request is written in the
connecting step.  The samples of an analysis frame that is not full when a
meeting's source stops (`transcriber.rs:229-234`): its tail is of whole frames.
A panic of the app's download worker.  The Windows pipe and the paste, tap and detector
of other platforms; the history request (it only reads); key repeat; Escape and
other keys in `HotkeyTap` (they are inputs of `Dictation`); which windows count
as a meeting, resampling, mixing down, signal statistics, the 100 ms blocks in
which audio is read and the format of a transcript; the wording a language
model is asked for and gives; the environment variable that lets a wrong hash
pass, a full disk, the progress in bytes; the standalone recording of the
command line and the fall-backs of the MCP server.

## 3. Runs

All behaviours are bounded by the number of inputs (keys, clicks, calls,
copies) and of failures; each bound is named in its module and guards the
environment only, so the system always runs on to quiescence.  Deadlock is
checked for the hotkey only, which never rests; elsewhere a system with no
inputs left rightly stops.

| Run | Scope | Asks | States, result |
|---|---|---|---|
| `DictationVoice` | 3 inputs of tray, listen, cancel, Escape; 1 failure of microphone, missing model, engine, worker; fair | types; every Transcribing has an end; a listen accepted on its own is answered with its own words; words delivered once, cancelled ones never; busy never interrupted; every listen is answered; implements `TakeLedger` | 72,180, holds |
| `DictationHold` | 2 inputs of hold, other key, Escape; timers interleaved | a pending final is the dictation's own; a stream has a listener; no words lost | 64,766, holds |
| `DictationRough` | 2 inputs of tray, listen, setting; 2 failures of device, coordinator, manager, engine; fair | no latched recording; Idle again | 23,507, holds |
| `RollingTake` | a recording of 4 units, one of them quiet at most, a chunk of 2 at most, an overlap of 1; 2 failures (an engine error, an empty answer, a panic in inference or in loading, a failed load, an idle unload, a panic of the worker); the worker fair | types; every unanswered part is owed an answer; cuts as the batch path; nothing said twice; a complete transcript is complete; implements `RollingPromise` | 541,712, holds |
| `Desk` | clipboard: 2 transcripts among 2 copies; recovery: 2 requests, 1 save, 1 live chunk, 1 failure or restart; clean-up: 2 requests, 1 warm-up, 1 mishap; segments of all texts up to 8 words | types; the user's content is held and given back; a whole recovery is whole, and ends; no orphan generation, a clean text is whole and answers its own request; the manager comes back; segments are whole | 388,644, holds |
| `Hotkey` | a pair of keys, 2 presses, 1 disabling, 1 change of the binding, 1 failed arming, permission changing freely | a hold is reported as it is latched; no live hold is cut; a missed release is reported | 553,992, holds |
| `Meeting` | control: 2 sessions, 3 window changes, 2 changes of mode or permission, 2 polls to start and 3 to end; session: 3 frames of the user and 2 of the others, chunks of 2, a pause of 1, an echo history of 2, streams opened at any two moments, up to 1 frame sounded and not yet handed on | types; no orphan session; an automatic session ends; no speech unheard, and in order; only the same words at the same offset are dropped as an echo; a stop ends the session | 432,353, holds |
| `Shared` | download: a file of 2 units, 3 faults, every leftover; socket: 2 launches one at a time, 2 calls of status, cancel, listen, transcribe, 1 toggle, 1 kill, 1 dictation that never ends | what is trusted is right; the installation converges; a launched daemon is reachable; calls are answered | 365,784, holds |
| `HandsFreeLatches` | tray, microphone fails | the mode flag outlives no recording | violated |
| `WorkerDiesEarly` | tray, the rolling worker dies while recording | Idle again | violated |
| `RetryAfterPanic` | tray twice, a panic | the retry's stream is heard | violated |
| `ToldOnClipboard` | one paste | a transcript said to be on the clipboard is there | violated |

*Bounds of the dictation.* Two recordings are needed for anything to be confused
with anything (stale finals, epochs, a listen answered by another's words), and
three inputs make two recordings with an interruption between; a press and its
release, a chord or an Escape and a second press fit in two inputs since
releases are free.  One failure in each of the two recordings is what
`DictationRough` allows.  The scopes reach every action and every branch between
them.

*Of a rolling take.*  Four units with chunks of two give four chunks after three
hard cuts, or a silence cut between hard ones, an empty tail, and chunks whose
text a seam swallows whole; two failures are what it takes to fail a chunk for
good (twice), to lose one half after an empty answer, or to meet a dead manager
with a retry.  One poll of a held watchdog shows it held and let go.  After the
worker is gone the manager is not followed further.

*Of the others.*  Two pastes and two copies give a paste before the first was
undone and a copy in every gap.  A recording of four words in two chunks has a
first and a last chunk and a seam; one failure with the two attempts a chunk
gets covers the second attempt, and a save during a recovery the change of the
file under it.  Two clean-ups are one that may disturb the next.  Two presses of
two keys reach every overlap of a pair; one disabling loses any one edge or
more.  Two sessions are needed for a handle to be replaced; three polls to end
is the code's own number.  Three and two frames with chunks of two give a chunk
cut at the cap, one at a pause, a tail at the stop, and an echo that is older
and one that is younger than the history;
either stream may open after any number of the other's frames were heard.  Two units are the least file that can
be resumed in the middle; three faults are a lost connection, a process that
ends and one more.  Seven inodes suffice: the bound is not reached.  Two calls
are one that waits behind the other.

*Fairness.* Weak fairness of the coordinator's loop, of the audio worker (which
has a duration cap, so `AutoStop` is fair), of the sleeping threads and of the
threads that wait with a timeout: each is a thread of the program that runs
until it is done.  Rolling workers are fair in answering a Finish, because they
bound their own wait; that is `FinishIsAnswered`, which assumes fairness of the
worker's own steps (its reads have a timeout) and none of the engine, the
manager or the threads that carry answers back.  On the desk: the restore
threads, the recovery thread (its waits have timeouts; the manager it asks is
not fair), the clean-up manager and its worker (a generation has a budget of
tokens).  Of the hotkey: the tap's callback, its watchdog's timer and the re-arm
driver.  Of meetings: the detector's loop, a toggle once decided, the joining
threads, a stopped session's return, which `StopIsAnswered` shows from the
fairness of its three threads.  Of the download: a transfer that is not
disturbed goes on, and who wants a model asks again; faults are finite.  Of the
socket: a process starts up, serves, and its coordinator takes messages.  No
fairness of inputs, of users, of callers giving up, and none of failures.

*Exceptions named in properties.*  `UserContentIsHeld` and `ClipboardIsGivenBack`
except a copy made between a look at the clipboard and the write that follows it
(`raced`; the code cannot exclude it), what cannot be captured, and content a
delivery was meant to replace or hid from a snapshot (`taken`), among it that of
a paste whose keystroke cannot be sent: `paste_text` returns the error before it
starts a restore thread (`insert.rs:107`), and the transcript stays on the
clipboard.  `RecoveryEnds`
excepts a panic of the recovery thread, after which `RECOVERY_RUNNING` stays
set.  `HoldIsReported` excepts a latch dropped without a release: one never
confirmed, or of another binding.  `EverySpeechFrame` excepts a dead worker.
`LaunchIsReachable` is about one process at a time.

*The violations.*  Each shows a statement of the repository that the code does
not keep; `PROJECT.json` quotes it.  (1) The audio error handler is the only one
of its kind that leaves `hands_free_active` set: the next press of the key does
nothing until it is released.  (2) `RollingWorkerLost` is ignored unless a
dictation is pending; a worker that dies during the recording is lost too early,
and `Stopped` then ignores that `Finish` cannot be sent and waits for ever.
(3) After a panic the audio worker is still recording: the retry it is told to
ignore leaves the coordinator with no stream.  (4) `paste_text` starts its
restore thread for every outcome but `VerificationFailed` (`insert.rs:119`), so
also when the paste was skipped and the user told that the transcript is on the
clipboard; a second later it is not.

### What does not hold

Statements that hold only in part, with the definition that states each and the
instance on which TLC refutes it.

- *Escape cancels* (`README.md:89`): with the hold key down Escape travels as
  "another key", which stops counting after the chord window
  (`hotkey.rs:621`).  `EscapeCancels` (an action property), `MCDictation` with `Spec`, inputs
  `EscapeInputs`, no faults.
- *Repeated words are kept* (`chunking.rs:282-284`): at a seam the longest run
  of words that ends one chunk and begins the next is dropped, not the words of
  the overlap; of a word said three times across a hard cut two are left.
  `RepeatedWordsAreKept`, `MCRolling` with `Repeats = TRUE`, no faults.
- *The tap listens for the configured key* (`coordinator.rs:184-187`):
  `set_config` (`commands.rs:55-69`) writes the handle before it stores the
  configuration, so the driver may read the old configuration after the handle
  has the new key and write the old key back.  `BoundAsConfigured`, `MCHotkey`
  as in `Hotkey.cfg`.
- *A rebound key:* a hold latched for the old key is dropped without a release
  (`hotkey.rs:585`); and when macOS disables the tap while the new key is down,
  the resynchronised press (`557-564`) leaves `latch_keycode` at the old key, so
  that the new key's release drops the latch and is not sent.
  `HoldIsReported` excepts both (`dropped`), and `ReleaseIsReported` is stated
  for a binding that stays.
- *Pacing keeps at most one recovery chunk ahead of a dictation*
  (`recovery.rs:154`): a chunk given up on after its timeout is still in the
  manager's queue when the second attempt is sent.  `PacedAhead`, `MCDesk` with
  `DeskSafety` and `Desk.cfg`'s bounds.
- *Echoes are compared with what coincides in wall-clock time*
  (`dedup.rs:78-82`; `transcriber.rs:70`, `156`: offsets "meeting-relative",
  "since the meeting began"): each chunker counts from the opening of its own
  stream, the system's on the session's thread (`mod.rs:554-557`), the
  microphone's on its own once its device is open (`mod.rs:474-524`), and nothing
  sets the two counts against each other.  The user's "their words", said one
  frame after the others had said them, are dropped when the microphone's stream
  was opened one frame late: both are frame 1.  (For the same reason a real echo
  is kept when the streams are opened further apart than its lines are long.)
  `EchoesCoincide`, `MCMeeting` with `Meeting.cfg`'s bounds, refuted in nine
  steps.  What is kept is `EchoWasSaid`: dropped and original words lie exactly
  as far apart as the two openings.
- *A non-empty clean-up is complete text* (`cleanup.rs:83-88`): a generation
  that reaches its budget of tokens is returned as it is (`261-285`).
  `NonEmptyIsComplete`, likewise.
- *`flow cancel` cancels the recording in progress* (`ipc.rs:250`,
  `docs/USAGE-macOS.md:636`, `docs/USAGE-Linux.md:204-209`, `cancel.rs:16`): a
  cancel queued behind a listen times out, its caller is told that the daemon
  cannot be reached, and later it cancels whatever recording is under way then.
  `CancelsInProgress`, `MCShared` with `SharedSafety`, `Parts <- MCSocket`, one
  launch, two calls, one toggle.
- *Two installers:* the app and `flow models download` use the same staging
  file; one verifies it by path and renames it while the other has created it
  anew (`models.rs:201-222` against `141`, `163`).  `TrustedIsGood` with
  `Clients <- MCBoth`, `Parts <- MCDownload`, one fault, four inodes.
- *Two instances:* one that did not get the socket still removes its path when
  it exits (`lib.rs:211`), and two that start together may both find the path
  stale.  `ServerIsReachable`, `Parts <- MCSocket`, `MaxApps = 2`.
- `BusyIsNotInterrupted` is checked without the hold key: a hold-threshold
  thread delayed between reading `Idle` and starting may start into a busy
  state.  `NoWordsLost` and `StreamIsHeard` are checked with the rolling setting
  left alone: it is read twice for one recording.  `PendingFinalIsItsOwn` is
  checked without panics, since epochs restart at 0, and without a lost device,
  whose Stopped may be handled when the next recording's worker is live
  (inputs `tray`, `cancel`, `config`, four of them, one `lost`); after a lost
  device a cancelled take can be delivered in the same way (`tray`, `cancel`,
  five inputs), which `DeliveredAtMostOnce` excepts.
- *"This only ever rescues the stuck case"* (`coordinator.rs:1095-1100`): a
  Stop or Cancel that crosses the end of its recording is answered
  `NotRecording`; the handler looks only whether the state says Recording when
  the answer is read, and that may be a newer recording whose Start is still
  queued: it is reset, and then runs with the state Idle.
  `AckRescuesOnlyTheStuck` (an action property), `MCDictation` with `Spec`,
  three inputs of `TrayOnly`, no faults.  It is why
  `EveryListenHasItsTake` does not hold without conditions (inputs `tray` and
  `listen`, four of them, no faults: a listen gets another take's words with
  `InitRolling = FALSE`, its channel is dropped with `TRUE`), why
  `ListenAnswersItsOwnTake` is about listens accepted `alone`, and why
  `TranscribingHasEnd` allows another recording's end in place of the
  dictation's own (five inputs of `TrayOnly`).

Noticed while translating, without a property: `finish_with`'s thread clears
`is_recording` after it has let go of the state, so a recording started in
between runs with Escape disarmed (`coordinator.rs:1719`); a listen queued
behind another has the same time limit as the daemon's own, and is given up on
while its recording runs (`ipc.rs:46-48`); `flow status` reports no daemon while
a listen is served; the MCP server gives up on a file after 60 s
(`index.ts:88`), the daemon after its duration and 60 s more
(`daemon.rs:205`); a detected start is swallowed while an earlier session still
writes its summary (`meeting_ctl.rs:246-250`); a meeting that ends while the
mode is off leaves its session running when it is switched on again; an echo whose
microphone line is transcribed first is kept; audio that is queued in the
capture channel when a session stops is not transcribed; the one thread that
serves the socket reads a request without a timeout (`ipc.rs:271`), so a peer
that connects and stays silent would hold up every other call
(`CallsAreAnswered` assumes that a caller writes or closes).

## 4. Proofs

What a run shows on a small instance the theorems show for every value of the
constants: any number of inputs, failures, calls and requests, any recording and
any transcript. Their hypotheses are the assumptions the modules state about
their constants (types, an overlap shorter than a chunk) and those named below,
each of which the code's own constants satisfy. `PROJECT.json` lists each
theorem with the property it states.

**Dictation** (`DictationProofs`). `TypeCorrect`: `Spec => []TypeOK`, one lemma
per action or thread; what it needs besides the definitions are facts about
`Append`, `Head`, `Tail` and `EXCEPT` on sequences, and helpers of the model
(`Answer`, `Resolve`, `Deliver`) have lemmas of their own. `RecordingEnds`: the
state never latches on Recording. Given `TypeOK` the property is inductive as it
stands, and the argument is a classification of steps. A *quiet* step enters no
recording, appends to the channels or takes a message that ends nothing from the
inbox (`QuietStep`); a *start* appends a Start in the step that sets Recording,
or refuses and changes neither (`StartStep`); the audio worker turns the Start
into an open microphone or an error and the open microphone into one of the
replies of `EndKinds`; and each handler of such a reply leaves Recording, or (a
lost device) sends itself another.

The other invariants of the dictation follow from what each of the messages in
the channels says of the takes behind it. `Fifo`: a Stopped or Cancelled in the
inbox, or an open microphone, comes after the Started of the same take or finds
its worker's sender held (`Heralded`). The hypotheses exclude failures and inputs
with which the property fails (section 3), or, for `WordsAreKept`, whose very
effect is to lose what was recorded.

- `BusyLeftAlone` (`BusyIsNotInterrupted`, the hold key not used): tray and
  daemon look at the state and start in the same step; without a press there is
  no hold-threshold thread (`NoHold`).
- `TranscriptionEnds` (`TranscribingHasEnd`, no rolling worker dying over a live
  recording): the sender held is that of a live worker of the present epoch
  (`LiveWorker`), so the Finish sent to it is answered with the epoch waited
  for; and a Started in the queue has an open microphone or an end behind it
  (`StartedEnds`), so what displaces a dictation ends too (`EndInv`).
- `FinalIsItsOwn` (`PendingFinalIsItsOwn`, no lost device, no panic): every
  worker and Final with the present epoch is of the take whose sender is held,
  and every one with the epoch waited for is of the dictation that waits
  (`OwnEpochs`); an epoch is advanced before it is given out, so that a later
  worker has neither.
- `StreamHeard` (`StreamIsHeard`, also with the setting left alone): Start,
  microphone, Started and worker agree on whether the take is streamed
  (`StreamsAgree`).
- `WordsAreKept` (`NoWordsLost`, and each step one of `TakeLedger`'s or a
  stutter; no lost device, panic, early death of a worker or dead manager, the
  setting left alone): takes are announced in order (`TakesInOrder`), and while
  the Started of a take whose words are owed is unread, or its worker's sender
  held, its Stopped is the next reply after (`EndsCome`), so that no handler in
  between lets go of the sender. This is the safety part of the refinement.
- `DeliveredOnce` (`DeliveredAtMostOnce`; the half about cancelled takes without
  a lost device, the rest without hypotheses): the samples of a take, a rolling
  worker or job that has them, and the message that brings them back are
  tokens of which a take has one at most, spent by the delivery (`Tokens`,
  `OnceInv`); none is made of a take that was not stopped (`RipeInv`).
- `ListenServed` (`ListenAnswersItsOwnTake`, no panic). The invariant follows a
  listen accepted alone from its Start to its answer: its recording is queued,
  under way or over with its end in the inbox (`Records`), or its words are with
  a rolling worker, a job or a result (`Transcribes`), and nothing of another
  take is there to be taken for it (`Served`), until it is answered and nobody
  holds its channel (`Answered`). That a listen is asked for once and held by
  nobody before (`Fresh`) keeps two of them apart. A lost device, a dying worker
  and a dead manager are allowed: they answer the listen with an error.

**Hotkey** (`HotkeyProofs`). `HoldReported` and `LiveHoldStands`.
`HoldIsReported` alone is not inductive: installing the tap starts from a fresh
latch, so before the tap exists nothing may have been latched, reported or
queued (`FreshUntilSpawned`). That no live hold is cut needs that a press the
key-state table has confirmed was made by hand (`PostedIsNotValidated`): the
table is then right about whether the key is still down.

**Meetings** (`MeetingProofs`). `EverySessionCanBeStopped` adds to its property
the shape of handle, debouncer and joining threads. `MeetingTypes`,
`NoSpeechIsLost` and `EchoesHaveOriginals` share one invariant, `SessionInv`:
each chunker holds a consecutive run of frames and what comes later has not been
heard (`Chunkers`), chunks that wait are runs of frames before it (`Waiting`),
lines and dropped chunks are of frames already taken (`Written`, `Dropped`), the
echo history is of lines written (`Remembered`), the threads stop in order
(`ThreadsInStep`), and every frame of speech is in the buffer or in exactly one
other place (`SpeechLocated`). The last is the property seen one step earlier:
`NothingUnheard` speaks of speech that has left the chunker.  Of echoes the
invariant says that a dropped line and its original share an offset
(`EchoOffsets`), which no opening of a stream disturbs; `OffsetsAreApart` turns
this into the common time of `EchoWasSaid`.

**Clipboard, clean-up and recovery** (`DeskProofs`).
- `CopiesAreHeld`: `UserContentIsHeld` says that somebody holds the copy;
  inductive is that whoever would overwrite the clipboard next holds the
  *newest* copy (`Loyal`), and that a clipboard that does not show the copy
  shows the transcript of one who does (`Returns`).
- `GenerationsAreJoined`, from the shape of the manager, worker and clients and
  what each of the manager's stages implies of the worker.
- `CleanedOnceAndWhole`: what the worker has produced so far is of the command
  in hand and uncut (`WorkIsWhole`), and a request is waited for or concluded,
  never both (`AnsweredOnce`).
- `TextsAreSplitWhole`: after each word, the segments, the segment being filled
  and the piece being read are together the words read, each ends where one may,
  and the open segment is below the minimum (`FilledInv`). It assumes
  `SegmentMax <= SegmentAbove` (both are 120).
- `AnswersAreOfTheirChunk`: commands queued, served and answered for this run of
  the thread are of chunks and attempts it has asked for (`InFlight`); a late
  answer of an attempt or of a recovery that was given up is never mistaken for
  another chunk's.
- `RecoveriesAreComplete`: so a recovery that counts no failed chunk has
  assembled what the chunks of the plan say (`RecoveredIsAssembled`), and
  `BatchIsWhole` below says what that is.

**Download and socket** (`SharedProofs`). `InstalledIsGood`, with one caller
(`OneCaller`; with two it does not hold, section 3): the staging file is never
the destination (`StagedApart`) and each stage has what the one before it proved
of the file (`Proven`), wherever the process ends. `OneProcessIsReachable`, with
`MaxApps = 1` (two can lose the path, section 3): a process that serves is the
one the path leads to (`PathIsBound`).

**Chunking** (`ChunkingProofs`). Lemmas about `PlanChunks`, `DedupSeam`,
`Assemble` and `Without`, and `BatchIsWhole`: if every planned chunk of a
recording is transcribed to its own words or to nothing, assembling them gives
the words of the recording, once and in order, those of deaf chunks aside. A
seam drops the longest run that ends one transcript and begins the next; with
words that differ that is exactly the overlap, provided the chunk before is long
enough to hold two (`2 * Overlap <= SinglePassMax`: 35 s and 1.5 s) and the
overlap has no more words than a seam compares (`Overlap <= SeamWords`: 20 words
in 1.5 s). What is recursive is proved without an induction principle for
operators: the least number at which a claim fails (`LeastNumber`, `Induction`),
and the existence of a function given by its steps (`AccumulatorExists`).

**Rolling transcription** (`RollingProofs`, `RollingWordsProofs`).
- `RollingTypes` and `EveryPartHasAnAnswerComing`, from `OwedInv`: a part of a
  chunk that is unanswered is in the queue, served, or answered and unread,
  until the worker is gone.
- `RollingCutsAsBatch`: what has been cut so far are the first chunks of every
  plan of a longer recording, each cut made as soon as, and no sooner than, it
  could not change (`CuttingSoFar`), so that what is left at the end is planned
  as the batch path plans it.
- `WorkerKeepsToThePromise`: the worker's initial states are those of
  `RollingPromise` and each of its steps is one of the promise's or a stutter,
  by what has been answered in each phase (`AnsweredSoFar`).
- `RollingSaysNothingTwice` and `RollingLosesNothing`, from `SaysInv`: each
  command and answer is of the audio of the part it is for, and a settled chunk
  has its own words, all of them unless it failed or was heard as nothing. The
  first assumes that words differ (`~Repeats`), the two conditions of
  `BatchIsWhole`, and that each half of a chunk holds an overlap
  (`HalvesHoldSeams`: chunks are halved from 8 s on, in their middle half). The
  second assumes that a tail too short to be transcribed is too short for a word
  (`MinTail <= 1`, in units of a word).

*Words that differ.* `~Repeats` and `RecordingsSayEachWordOnce` are not
assumptions about speakers: a model's word is an occurrence, and a recording in
which two occurrences can be confused at a seam is one where the code's own
comparison is wrong (section 3, *Repeated words are kept*). The theorems hold of
the rest.

*Model-checked only.* Liveness (`IdleAgain`, `ListensAnswered`,
`ClipboardIsGivenBack`, `RecoveryEnds`, `ManagerComesBack` and the like, and the
fairness halves of `FinishIsAnswered` and of `WordsArePromised`): the prover has
no rules for fairness over `ENABLED`. Every invariant and action property of the
passing runs is stated by a theorem. The runs of the dictation are within the
theorems' hypotheses: they show that these can be met and that the cases the
theorems are about occur. The four violations, and the counterexamples of
section 3, are TLC's.


## 5. Plan

Done: the dictation, the rolling worker with the model manager and chunking, the
paste, recovery and clean-up, the hotkey, meetings, the download and the socket;
the safety theorems of all of them. Next: `HotkeyTap` composed with
`HoldGesture`, for what a dropped latch and a resynchronised press do to the
gesture.

*Not modelled.*  The text transforms (`codemode.rs`, `dictionary.rs`,
`snippets.rs`, `profiles.rs`) rewrite strings and are right or wrong in the
wording of their inputs, which a model abstracts; unit tests are the right tool.
Configuration and history files are read and written whole by single threads.
The desktop shell draws windows and menus; its one input to the rest, the tray,
is in the models.  The standalone commands of `flow` run from start to end with
no state shared.  The socket of Windows is the same protocol on a named pipe,
which leaves no file behind.
