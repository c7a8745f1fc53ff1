------------------------------- MODULE Signals --------------------------------
(***************************************************************************)
(* The emulation thread (citra_qt/bootmanager.cpp, EmuThread), the signals *)
(* the frontend sends it (core/core.cpp, SendSignal and the head of        *)
(* RunLoop), savestates (core/savestate.cpp) and the anti-ragequit that    *)
(* saves when the program closes and loads when a game starts              *)
(* (core/poke_antirq.cpp).                                                 *)
(*                                                                         *)
(* Two host threads: the Qt thread (fe), which handles one event at a time *)
(* and handles none while onClose waits or while it joins the emulation    *)
(* thread, and the emulation thread (emu).  The process may be killed and  *)
(* started again; the savestate of slot 0 and the save data of the game    *)
(* stay on disk.  No other slot is used: onClose and onStart are the only  *)
(* callers that send Save or Load on this frontend.                        *)
(***************************************************************************)
EXTENDS Integers

CONSTANTS
    MaxAsync,        \* bound: asynchronous operations pending at a time
    MaxTimers,       \* bound: onStart timers running at a time
    MayDump,         \* bound: does the user record videos of the game
    RequestLimit,    \* the 5 s a savestate request may be pending
    CloseLimit       \* the 5 s onClose waits

ASSUME SignalsAssumption ==
    /\ {MaxAsync, MaxTimers} \subseteq Nat
    /\ {RequestLimit, CloseLimit} \subseteq Nat
    /\ MayDump \in BOOLEAN

VARIABLES
    fe,                        \* where the Qt thread is
    closing,                   \* is the Qt thread in closeEvent
    waited,                    \* onClose's waited
    asked,                     \* closing an open game, onClose sent Save and found no file
    promise,                   \* ... and has seen the file appear
    timers,                    \* single shot timers that will call onStart
    emu,                       \* where the emulation thread is
    was_active,
    shown,                     \* has the first frame hidden the loading screen
    running, stop_run,
    errors,                    \* ErrorThrown events the Qt thread has not handled
    frame_advancing_enabled, frame_advance_event,
    current_signal,
    request, request_age,      \* save_state_request_status and _time
    async,                     \* pending_async_operations
    dumping,                   \* the video: "off", "on", a task is queued to stop it, it has begun to
    game_shutdown_delayed, game_paused_for_dumping,
    slot,                      \* the file of slot 0: "absent", "torn" or "full"
    main                       \* has the game written its own save data

feVars   == <<fe, closing, waited, asked, promise, timers>>
emuVars  == <<emu, was_active, shown>>
flagVars == <<running, stop_run, errors>>
limVars  == <<frame_advancing_enabled, frame_advance_event>>
reqVars  == <<request, request_age>>
diskVars == <<slot, main>>
dumpVars == <<dumping, game_shutdown_delayed, game_paused_for_dumping>>
vars == <<feVars, emuVars, flagVars, limVars, current_signal, reqVars, async, diskVars, dumpVars>>

Signal   == {"None", "Shutdown", "Reset", "Save", "Load"}

\* The Qt thread: handles events, is in onClose's loop, in the steps of
\* ShutdownGame, about to close one of the two windows of the game at the end of
\* closeEvent, or has left its event loop, which ends the process.
FePc == {"idle", "onClose", "stopSet", "stopped", "join", "render_window", "secondary_window",
         "closed"}

\* The emulation thread: not started, loading disk resources, in the frame limiter
\* before its loop, at the head of its loop, blocked in a signal to the Qt thread, in RunLoop, writing a savestate,
\* in the frame limiter, at the condition variable, out of its loop, for ever in
\* StopDumping, or finished.
EmuPc == {"none", "load", "first", "top", "DebugModeLeft", "DebugModeEntered", "RunLoop", "writing",
          "limiter", "test", "holds", "asleep", "left", "StopDumping", "done"}

TypeOK ==
    /\ fe \in FePc /\ closing \in BOOLEAN /\ waited \in 0 .. CloseLimit
    /\ asked \in BOOLEAN /\ promise \in BOOLEAN
    /\ timers \in 0 .. MaxTimers
    /\ emu \in EmuPc /\ was_active \in BOOLEAN /\ shown \in BOOLEAN
    /\ running \in BOOLEAN /\ stop_run \in BOOLEAN
    /\ errors \in SUBSET {"ErrorSavestate", "ShutdownRequested"}
    /\ frame_advancing_enabled \in BOOLEAN /\ frame_advance_event \in BOOLEAN
    /\ current_signal \in Signal
    /\ request \in {"NONE", "LOADING", "SAVING"} /\ request_age \in 0 .. RequestLimit + 1
    /\ async \in 0 .. MaxAsync
    /\ slot \in {"absent", "torn", "full"} /\ main \in BOOLEAN
    /\ dumping \in {"off", "on", "queued", "stopping"}
    /\ game_shutdown_delayed \in BOOLEAN /\ game_paused_for_dumping \in BOOLEAN

\* No game is open and nothing is on disk.
Init ==
    /\ fe = "idle" /\ closing = FALSE /\ waited = 0 /\ asked = FALSE /\ promise = FALSE
    /\ timers = 0 /\ emu = "none" /\ was_active = FALSE /\ shown = FALSE
    /\ running = FALSE /\ stop_run = FALSE /\ errors = {}
    /\ frame_advancing_enabled = FALSE /\ frame_advance_event = FALSE
    /\ current_signal = "None" /\ request = "NONE" /\ request_age = 0
    /\ async = 0
    /\ slot = "absent" /\ main = FALSE
    /\ dumping = "off" /\ game_shutdown_delayed = FALSE /\ game_paused_for_dumping = FALSE

-------------------------------------------------------------------------------
(* The emulation thread                                                    *)

\* SetRunning: the flag is written under running_mutex, which the emulation
\* thread holds from its test to its wait; then the waiting thread is woken.
SetRunningFalse == emu # "holds" /\ running' = FALSE
Notified == IF emu = "asleep" THEN "test" ELSE emu

\* IsDumping: StopDumping has not begun.
IsDumping == dumping \in {"on", "queued"}

\* System::Shutdown stops the video.  When a task of the Qt thread is about to do
\* so too, both wait for the one processing_ended and one of them waits for ever.
Shutdown(next) ==
    /\ async' = 0
    /\ \/ /\ emu' = next
          /\ dumping' = IF IsDumping THEN "off" ELSE dumping
       \/ dumping = "queued" /\ emu' = "StopDumping" /\ dumping' = "stopping"
    /\ UNCHANGED <<game_shutdown_delayed, game_paused_for_dumping>>

\* The thread has left its loop and shuts the system down.
EmuEnds ==
    /\ emu = "left"
    /\ Shutdown("done")
    /\ UNCHANGED <<feVars, was_active, shown, flagVars, limVars, current_signal, reqVars,
                   diskVars>>

\* Head of the loop of EmuThread::run: while (!stop_run), if (running), else wait.
EmuTop ==
    /\ emu = "top"
    /\ emu' = CASE stop_run -> "left"
                [] ~stop_run /\ ~running -> "test"
                [] ~stop_run /\ running /\ was_active -> "RunLoop"
                [] ~stop_run /\ running /\ ~was_active -> "DebugModeLeft"
    /\ UNCHANGED <<feVars, was_active, shown, flagVars, limVars, current_signal, reqVars,
                   async, diskVars, dumpVars>>

\* Loading textures and shaders before the loop; a game that was paused meanwhile
\* waits in the frame limiter.
EmuLoaded ==
    /\ emu = "load"
    /\ emu' = IF frame_advancing_enabled THEN "first" ELSE "top"
    /\ UNCHANGED <<feVars, was_active, shown, flagVars, limVars, current_signal, reqVars,
                   async, diskVars, dumpVars>>

\* running_cv.wait: the predicate is evaluated with running_mutex held; stop_run
\* is written without it.
EmuTest ==
    /\ emu = "test"
    /\ emu' = IF running \/ stop_run THEN "top" ELSE "holds"
    /\ UNCHANGED <<feVars, was_active, shown, flagVars, limVars, current_signal, reqVars,
                   async, diskVars, dumpVars>>

EmuSleep ==
    /\ emu = "holds"
    /\ emu' = "asleep"
    /\ UNCHANGED <<feVars, was_active, shown, flagVars, limVars, current_signal, reqVars,
                   async, diskVars, dumpVars>>

\* What follows RunLoop: was_active = running, and DebugModeEntered when the
\* thread stops running without having been asked to end.
LoopEnd(r) == IF ~r /\ ~stop_run THEN "DebugModeEntered" ELSE "top"
AfterRunLoop(r) == was_active' = r /\ emu' = LoopEnd(r)

\* RunLoop returned Success; with frame advancing on it has first to get past
\* the frame limiter.
Succeeds ==
    IF frame_advancing_enabled
    THEN emu' = "limiter" /\ UNCHANGED <<was_active, flagVars>>
    ELSE AfterRunLoop(running) /\ UNCHANGED flagVars

\* RunLoop returned ErrorSavestate: the thread stops itself and reports.
Fails ==
    /\ running' = FALSE
    /\ errors' = errors \cup {"ErrorSavestate"}
    /\ UNCHANGED stop_run
    /\ AfterRunLoop(FALSE)

\* RunLoop returned ShutdownRequested: the thread reports and leaves its loop.
Requested ==
    /\ errors' = errors \cup {"ShutdownRequested"}
    /\ emu' = "left"
    /\ UNCHANGED <<running, stop_run, was_active, async, dumpVars>>

\* The frame limiter lets the emulation go on when its event is set.
EmuLimiter ==
    /\ frame_advance_event /\ frame_advance_event' = FALSE
    /\ \/ emu = "limiter" /\ AfterRunLoop(running)
       \/ emu = "first" /\ emu' = "top" /\ UNCHANGED was_active
    /\ UNCHANGED <<feVars, shown, flagVars, frame_advancing_enabled, current_signal, reqVars,
                   async, diskVars, dumpVars>>

\* RunLoop takes the pending signal ...
Takes(s) == emu = "RunLoop" /\ current_signal = s /\ current_signal' = "None"

\* ... and enters the request it makes.
Request ==
    CASE current_signal = "Load" -> "LOADING"
      [] current_signal = "Save" -> "SAVING"
      [] OTHER -> request
RequestAgeRenewed == 0
RequestAge == IF current_signal \in {"Load", "Save"} THEN 0 ELSE request_age

\* Save and Load are refused while an operation is pending.
Refused == current_signal \in {"Load", "Save"} /\ request # "NONE"

\* A pass of RunLoop that gets past the signals.
Passes ==
    /\ emu = "RunLoop" /\ current_signal \in {"None", "Save", "Load"} /\ ~Refused
    /\ current_signal' = "None"

\* Reset shuts the system down and loads it again.
EmuReset ==
    /\ Takes("Reset")
    /\ \/ Requested  \* during the initial setup
       \/ /\ Shutdown(LoopEnd(running))
          /\ was_active' = running
          /\ UNCHANGED flagVars
    /\ UNCHANGED <<feVars, shown, limVars, reqVars, diskVars>>

EmuShutdown ==
    /\ Takes("Shutdown")
    /\ Requested
    /\ UNCHANGED <<feVars, shown, limVars, reqVars, diskVars>>

EmuRefuses ==
    /\ emu = "RunLoop" /\ Refused
    /\ current_signal' = "None"
    /\ Fails
    /\ UNCHANGED <<feVars, shown, limVars, reqVars, async, diskVars, dumpVars>>

\* LoadState: a state that was loaded is removed from disk, unless removing it
\* fails.  A missing or incomplete file is an error, and any file when a
\* multiplayer room is open or another version wrote it.
LoadState ==
    \/ slot = "full" /\ slot' \in {"absent", "full"} /\ Succeeds
    \/ UNCHANGED slot /\ Fails

EmuLoad ==
    /\ Passes /\ Request = "LOADING" /\ async = 0
    /\ request' = "NONE" /\ request_age' = 0
    /\ LoadState
    /\ UNCHANGED <<feVars, shown, limVars, async, main, dumpVars>>

\* SaveState serialises, and opens the file, which truncates it ...
EmuSave ==
    /\ Passes /\ Request = "SAVING" /\ async = 0
    /\ request' = "NONE" /\ request_age' = 0
    /\ \/ emu' = "writing" /\ slot' = "torn"
          /\ UNCHANGED <<was_active, flagVars>>
       \/ Fails /\ UNCHANGED slot  \* the path or the file cannot be created
    /\ UNCHANGED <<feVars, shown, limVars, async, main, dumpVars>>

\* ... and writes it, or fails half way.  A failed write takes the promise back.
EmuWrites ==
    /\ emu = "writing"
    /\ \/ /\ slot' = "full"
          /\ Succeeds /\ UNCHANGED <<asked, promise>>
       \/ /\ UNCHANGED slot
          /\ Fails /\ asked' = FALSE /\ promise' = FALSE
    /\ UNCHANGED <<fe, closing, waited, timers, shown, limVars, current_signal, reqVars,
                   async, main, dumpVars>>

\* An operation that could not start in five seconds is given up.
EmuExpires ==
    /\ Passes /\ Request # "NONE" /\ async # 0 /\ RequestAge > RequestLimit
    /\ request' = "NONE" /\ request_age' = 0
    /\ Fails
    /\ UNCHANGED <<feVars, shown, limVars, async, diskVars, dumpVars>>

\* Otherwise the cores run.  The game saves, starts or completes an asynchronous
\* operation (RunAsync: both ends run on this thread), asks for a reset or a
\* shutdown, which SendSignal takes as no signal is pending, or just goes on.
Guest ==
    \/ main' \in {main, TRUE} /\ current_signal' = "None" /\ UNCHANGED async
    \/ async' \in {async - 1, async + 1} \cap (0 .. MaxAsync)
          /\ current_signal' = "None" /\ UNCHANGED main
    \/ current_signal' \in {"Reset", "Shutdown"} /\ UNCHANGED <<async, main>>

EmuSlice ==
    /\ emu = "RunLoop" /\ current_signal \in {"None", "Save", "Load"} /\ ~Refused
    /\ Request = "NONE" \/ (async # 0 /\ RequestAge <= RequestLimit)
    /\ request' = Request /\ request_age' = RequestAge
    /\ Guest
    /\ Succeeds
    /\ UNCHANGED <<feVars, shown, limVars, slot, dumpVars>>

Emu ==
    \/ EmuLoaded \/ EmuTop \/ EmuTest \/ EmuSleep \/ EmuLimiter \/ EmuEnds
    \/ EmuReset \/ EmuShutdown \/ EmuRefuses
    \/ EmuLoad \/ EmuSave \/ EmuWrites \/ EmuExpires \/ EmuSlice

-------------------------------------------------------------------------------
(* The Qt thread                                                           *)

\* BootGame and OnStartGame.  A video that was asked for before begins here.
BootGame ==
    /\ fe = "idle" /\ emu = "none"
    /\ emu' = "load" /\ was_active' = FALSE /\ shown' = FALSE
    /\ running' = TRUE /\ stop_run' = FALSE
    /\ frame_advancing_enabled' = FALSE
    /\ frame_advance_event' = (frame_advance_event \/ frame_advancing_enabled)
    /\ async' = 0
    /\ dumping' \in {dumping} \cup (IF MayDump /\ dumping = "off" THEN {"on"} ELSE {})
    /\ UNCHANGED <<feVars, errors, current_signal, reqVars, diskVars, game_shutdown_delayed,
                   game_paused_for_dumping>>

\* OnPauseGame and OnStartGame of a game that runs.  Pausing turns on frame
\* advancing, it does not stop the emulation thread.
OnPauseContinueGame ==
    /\ fe = "idle" /\ emu \notin {"none", "holds"}
    /\ \/ /\ running /\ ~frame_advancing_enabled
          /\ frame_advancing_enabled' = TRUE
          /\ UNCHANGED <<running, emu, frame_advance_event>>
       \/ /\ ~running \/ frame_advancing_enabled
          /\ running' = TRUE /\ emu' = Notified
          /\ frame_advancing_enabled' = FALSE
          /\ frame_advance_event' = (frame_advance_event \/ frame_advancing_enabled)
    /\ UNCHANGED <<feVars, was_active, shown, stop_run, errors, current_signal, reqVars,
                   async, diskVars, dumpVars>>

\* The hotkey that lets a paused game run for one frame.
AdvanceFrame ==
    /\ fe = "idle" /\ emu # "none" /\ frame_advancing_enabled
    /\ frame_advance_event' = TRUE
    /\ UNCHANGED <<feVars, emuVars, flagVars, frame_advancing_enabled, current_signal, reqVars,
                   async, diskVars, dumpVars>>

\* DebugModeLeft and DebugModeEntered are blocking queued connections: the
\* emulation thread goes on once the Qt thread has handled the event.
HandlesDebugMode ==
    /\ fe = "idle"
    /\ \/ emu = "DebugModeLeft" /\ emu' = "RunLoop"
       \/ emu = "DebugModeEntered" /\ emu' = "top"
    /\ UNCHANGED <<feVars, was_active, shown, flagVars, limVars, current_signal, reqVars,
                   async, diskVars, dumpVars>>

\* The first frame hides the loading screen, or the pause before it:
\* OnLoadComplete starts the timer.
OnLoadComplete ==
    /\ fe = "idle" /\ (was_active \/ emu = "first") /\ ~shown /\ timers < MaxTimers
    /\ shown' = TRUE /\ timers' = timers + 1
    /\ UNCHANGED <<fe, closing, waited, asked, promise, emu, was_active, flagVars, limVars,
                   current_signal, reqVars, async, diskVars, dumpVars>>

\* SendSignal takes a signal unless a different one is pending.
Accepts(s) == current_signal \in {"None", s}

\* PokeAntiRq::onStart, also when the game has been stopped meanwhile.
onStart ==
    /\ fe = "idle" /\ timers > 0
    /\ timers' = timers - 1
    /\ current_signal' = IF slot # "absent" /\ Accepts("Load") THEN "Load" ELSE current_signal
    /\ UNCHANGED <<fe, closing, waited, asked, promise, emuVars, flagVars, limVars, reqVars,
                   async, diskVars, dumpVars>>

\* OnStopVideoDumping pauses the game and queues a task that stops the video.
OnStopVideoDumping ==
    /\ dumping' = "queued"
    /\ game_paused_for_dumping' = running
    /\ frame_advancing_enabled' = TRUE
    /\ UNCHANGED frame_advance_event

\* ShutdownGame: while a video is dumped it is put off until the video has been
\* stopped, and the caller goes on (to next); otherwise RequestStop first sets
\* stop_run.
ShutdownGame(next) ==
    IF emu # "none" /\ ~IsDumping
    THEN /\ fe' = "stopSet" /\ stop_run' = TRUE
         /\ UNCHANGED <<limVars, dumpVars>>
    ELSE /\ fe' = next /\ UNCHANGED stop_run
         /\ IF emu = "none"
            THEN UNCHANGED <<limVars, dumpVars>>
            ELSE game_shutdown_delayed' = TRUE /\ OnStopVideoDumping

\* Where closeEvent goes after onClose: ShutdownGame when a game is open, then
\* the windows are closed.  A dialog goes on.
AfterClose(c) ==
    IF c THEN ShutdownGame("render_window")
         ELSE fe' = "idle" /\ UNCHANGED <<stop_run, limVars, dumpVars>>

\* PokeAntiRq::onClose, from closeEvent of the main window (c) or of the hotkey
\* dialog (~c).  No state is taken when the game has not saved yet, or has done
\* so in the last 45 s (recent).
onClose(c, recent) ==
    /\ fe = "idle"
    /\ IF ~main \/ recent \/ ~Accepts("Save")
       THEN AfterClose(c) /\ UNCHANGED <<waited, asked, current_signal>>
       ELSE /\ current_signal' = "Save"
            /\ fe' = "onClose" /\ waited' = 0
            /\ asked' = (c /\ slot = "absent" /\ emu # "none")
            /\ UNCHANGED <<stop_run, limVars, dumpVars>>
    /\ closing' = c
    /\ UNCHANGED <<promise, timers, emuVars, running, errors, reqVars, async, diskVars>>

\* The loop of onClose ends when the file exists or the time is up.
onCloseEnds ==
    /\ fe = "onClose" /\ (slot # "absent" \/ waited >= CloseLimit)
    /\ promise' = (asked /\ slot # "absent")
    /\ asked' = FALSE /\ waited' = 0
    /\ AfterClose(closing)
    /\ UNCHANGED <<closing, timers, emuVars, running, errors, current_signal, reqVars, async,
                   diskVars>>

\* closeEvent closes the two windows of the game, each of which stops the game
\* unless it has been stopped; then the event loop ends, and the process with it.
CloseWindow ==
    /\ \/ fe = "render_window" /\ ShutdownGame("secondary_window")
       \/ fe = "secondary_window" /\ ShutdownGame("closed")
    /\ UNCHANGED <<closing, waited, asked, promise, timers, emuVars, running, errors,
                   current_signal, reqVars, async, diskVars>>

\* ShutdownGame from the menu (OnStopGame).
OnStopGame ==
    /\ fe = "idle" /\ emu # "none"
    /\ ShutdownGame("idle")
    /\ closing' = FALSE
    /\ UNCHANGED <<waited, asked, promise, timers, emuVars, running, errors, current_signal,
                   reqVars, async, diskVars>>

\* RequestStop then clears running and wakes the emulation thread ...
RequestStopUnnotified ==
    /\ fe = "stopSet"
    /\ SetRunningFalse /\ UNCHANGED emu
    /\ fe' = "stopped"
    /\ UNCHANGED <<closing, waited, asked, promise, timers, was_active, shown, stop_run, errors,
                   limVars, current_signal, reqVars, async, diskVars, dumpVars>>
RequestStop ==
    /\ fe = "stopSet"
    /\ SetRunningFalse /\ emu' = Notified
    /\ fe' = "stopped"
    /\ UNCHANGED <<closing, waited, asked, promise, timers, was_active, shown, stop_run, errors,
                   limVars, current_signal, reqVars, async, diskVars, dumpVars>>

\* ... which ShutdownGame releases from the frame limiter ...
CancelFrameAdvancing ==
    /\ fe = "stopped"
    /\ frame_advancing_enabled' = FALSE
    /\ frame_advance_event' = (frame_advance_event \/ frame_advancing_enabled)
    /\ fe' = "join"
    /\ UNCHANGED <<closing, waited, asked, promise, timers, emuVars, flagVars, current_signal,
                   reqVars, async, diskVars, dumpVars>>

\* ... and waits for and deletes.  It no longer listens to the windows, so
\* closeEvent has nothing left to stop.
JoinedEarly ==
    /\ fe = "join"
    /\ emu' = "none" /\ was_active' = FALSE /\ shown' = FALSE /\ stop_run' = FALSE
    /\ fe' = IF closing THEN "closed" ELSE "idle"
    /\ closing' = FALSE
    /\ UNCHANGED <<waited, asked, promise, timers, running, errors, limVars, current_signal,
                   reqVars, async, diskVars, dumpVars>>
Joined ==
    /\ fe = "join" /\ emu = "done"
    /\ emu' = "none" /\ was_active' = FALSE /\ shown' = FALSE /\ stop_run' = FALSE
    /\ fe' = IF closing THEN "closed" ELSE "idle"
    /\ closing' = FALSE
    /\ UNCHANGED <<waited, asked, promise, timers, running, errors, limVars, current_signal,
                   reqVars, async, diskVars, dumpVars>>

\* OnCoreError: a shutdown stops the game; a savestate error is shown, and when the
\* user has dismissed it the game goes on.  Other events are handled while it is
\* shown.  Missing system files, a lost Artic server and fatal errors are left out.
OnCoreError ==
    /\ fe = "idle"
    /\ \/ /\ "ShutdownRequested" \in errors
          /\ errors' = errors \ {"ShutdownRequested"}
          /\ ShutdownGame("idle")
          /\ closing' = FALSE
          /\ UNCHANGED <<emu, running>>
       \/ /\ "ErrorSavestate" \in errors /\ emu # "holds"
          /\ errors' = errors \ {"ErrorSavestate"}
          /\ running' = (running \/ emu # "none") /\ emu' = Notified
          /\ UNCHANGED <<fe, stop_run, closing, limVars, dumpVars>>
    /\ UNCHANGED <<waited, asked, promise, timers, was_active, shown, current_signal, reqVars,
                   async, diskVars>>

\* OnDumpVideo: the user starts a video of the game, or stops it.
OnDumpVideo ==
    /\ fe = "idle" /\ MayDump
    /\ \/ /\ dumping = "off" /\ emu \notin {"none", "done"}
          /\ dumping' = "on"
          /\ UNCHANGED <<limVars, game_paused_for_dumping>>
       \/ IsDumping /\ emu # "none" /\ OnStopVideoDumping
    /\ UNCHANGED <<feVars, emuVars, flagVars, current_signal, reqVars, async, diskVars,
                   game_shutdown_delayed>>

\* The queued task begins StopDumping.
StopDumping ==
    /\ dumping = "queued"
    /\ dumping' = "stopping"
    /\ UNCHANGED <<feVars, emuVars, flagVars, limVars, current_signal, reqVars, async, diskVars,
                   game_shutdown_delayed, game_paused_for_dumping>>

\* The task is over and the Qt thread does what waited for it: it stops the game,
\* or lets it go on (OnStartGame, which needs a game).
OnDumpingStopped ==
    /\ fe = "idle" /\ dumping = "stopping" /\ emu # "holds"
    /\ \/ /\ game_shutdown_delayed /\ game_shutdown_delayed' = FALSE
          /\ dumping' = "off"
          /\ IF emu = "none" THEN UNCHANGED <<fe, stop_run>> ELSE fe' = "stopSet" /\ stop_run' = TRUE
          /\ closing' = FALSE
          /\ UNCHANGED <<emu, running, limVars, game_paused_for_dumping>>
       \/ /\ ~game_shutdown_delayed /\ (game_paused_for_dumping => emu # "none")
          /\ game_paused_for_dumping' = FALSE /\ dumping' = "off"
          /\ IF game_paused_for_dumping
             THEN /\ running' = TRUE /\ emu' = Notified
                  /\ frame_advancing_enabled' = FALSE
                  /\ frame_advance_event' = (frame_advance_event \/ frame_advancing_enabled)
             ELSE UNCHANGED <<running, emu, limVars>>
          /\ UNCHANGED <<fe, closing, stop_run, game_shutdown_delayed>>
    /\ UNCHANGED <<waited, asked, promise, timers, was_active, shown, errors, current_signal,
                   reqVars, async, diskVars>>

-------------------------------------------------------------------------------
(* Time and failures                                                       *)

Tick ==
    /\ fe # "closed"
    /\ waited' = IF fe = "onClose" /\ waited < CloseLimit THEN waited + 1 ELSE waited
    /\ request_age' = IF request # "NONE" /\ request_age <= RequestLimit
                      THEN request_age + 1 ELSE request_age
    /\ UNCHANGED <<fe, closing, asked, promise, timers, emuVars, flagVars, limVars,
                   current_signal, request, async, diskVars, dumpVars>>

\* The process ended, or it is killed at any moment, also while a savestate is
\* being written; then it is started again.  Only the files are left.
Restarted ==
    /\ fe' = "idle" /\ closing' = FALSE /\ waited' = 0 /\ asked' = FALSE /\ promise' = FALSE
    /\ timers' = 0 /\ emu' = "none" /\ was_active' = FALSE /\ shown' = FALSE
    /\ running' = FALSE /\ stop_run' = FALSE /\ errors' = {}
    /\ frame_advancing_enabled' = FALSE /\ frame_advance_event' = FALSE
    /\ current_signal' = "None" /\ request' = "NONE" /\ request_age' = 0
    /\ async' = 0
    /\ dumping' = "off" /\ game_shutdown_delayed' = FALSE /\ game_paused_for_dumping' = FALSE
    /\ UNCHANGED diskVars

\* The Qt thread goes on with the event it is handling.
Finishes == onCloseEnds \/ CloseWindow \/ RequestStop \/ CancelFrameAdvancing \/ Joined

Frontend ==
    \/ BootGame \/ OnPauseContinueGame \/ AdvanceFrame \/ HandlesDebugMode \/ OnLoadComplete
    \/ onStart
    \/ \E c, recent \in BOOLEAN : onClose(c, recent)
    \/ OnStopGame \/ OnCoreError \/ Finishes
    \/ OnDumpVideo \/ StopDumping \/ OnDumpingStopped

Next == Emu \/ Frontend \/ Tick \/ Restarted

Spec == Init /\ [][Next]_vars

\* The host schedules both threads, time passes, and the Qt event loop gets to the
\* events of the emulation thread.  Nothing is assumed of the user or of the guest.
FairSpec ==
    /\ Spec
    /\ WF_vars(Emu) /\ WF_vars(Finishes) /\ WF_vars(Tick)
    /\ SF_vars(HandlesDebugMode)

-------------------------------------------------------------------------------
(* Properties                                                              *)

\* When closing an open game found no savestate and saw the file appear, the
\* program ends with a complete savestate: the join of ShutdownGame outlasts the
\* write (poke_antirq.cpp 158, citra_qt.cpp 1482).  The one exception is a video
\* being dumped, which puts the join off (citra_qt.cpp 1453): then the process may
\* end while the emulation thread still writes.
PromiseKept ==
    fe = "closed" /\ promise => slot = "full" \/ (game_shutdown_delayed /\ emu = "writing")

\* The Qt thread waits for the emulation thread, which waits for the Qt thread.
MutualWait == fe = "join" /\ emu \in {"DebugModeLeft", "DebugModeEntered"}

\* Ending the emulation thread never blocks on the emulation thread blocking on
\* the Qt thread (the comment at citra_qt.cpp 1464 wants wait() not to hang).
NoMutualWait == ~MutualWait

\* Closing the window ends, also when the game is paused, in an error or asleep
\* at the condition variable.  The only ways to hang are the mutual wait and the
\* emulation thread being in StopDumping for ever.
CloseEnds ==
    (fe \notin {"idle", "closed"})
        ~> \/ fe \in {"idle", "closed"}
           \/ MutualWait
           \/ fe = "join" /\ emu = "StopDumping"

\* A savestate request is performed, or given up and reported, while the program
\* runs and the emulation goes on (core.cpp 180).
RequestEnds ==
    (request # "NONE")
        ~> \/ request = "NONE"
           \/ ~running \/ frame_advancing_enabled
           \/ emu \in {"none", "left", "StopDumping", "done"} \/ fe = "closed"
===============================================================================
