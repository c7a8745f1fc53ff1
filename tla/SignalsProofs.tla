---------------------------- MODULE SignalsProofs -----------------------------
(***************************************************************************)
(* Closing the program keeps the promise of the anti-ragequit, for any     *)
(* limits and any number of asynchronous operations and timers.            *)
(*                                                                         *)
(* The promise rests on four facts.  While onClose waits, the Qt thread    *)
(* handles no event, so nobody can ask for a Load and the emulation thread *)
(* is not joined.  A Load that was pending before finds no file: a Save is *)
(* refused until that Load is over.  A file that is not complete is being  *)
(* written, by the thread that ShutdownGame joins.  And the program ends   *)
(* without that join only when a video has put ShutdownGame off.           *)
(***************************************************************************)
EXTENDS Signals, TLAPS

\* onClose waits for the file of an open game that is closed.
Asked == asked => fe = "onClose" /\ closing /\ emu # "none"

\* The file has appeared, and the program is on its way to its end.
Promised ==
    promise =>
      /\ slot # "absent"
      /\ fe \in {"stopSet", "stopped", "join", "render_window", "secondary_window", "closed"}
      /\ fe # "closed" => closing

\* Nobody removes the file, and an incomplete one is being written.
Guarded ==
    asked \/ promise =>
      /\ current_signal # "Load"
      /\ request = "LOADING" => slot = "absent"
      /\ slot = "torn" => emu = "writing"

\* The program ends after its emulation thread, or has put stopping it off.
Ended == fe = "closed" => emu = "none" \/ game_shutdown_delayed

\* The request a savestate is written for is over: none is pending.
Writing == emu = "writing" => request = "NONE"

Kept == Asked /\ Promised /\ Guarded /\ Ended /\ Writing

-------------------------------------------------------------------------------
(* The emulation thread                                                    *)

LEMMA AfterRunLoopType ==
    ASSUME TypeOK, NEW r \in BOOLEAN, AfterRunLoop(r)
    PROVE  was_active' \in BOOLEAN /\ emu' \in {"top", "DebugModeEntered"}
BY DEF AfterRunLoop, LoopEnd

\* The videos: what TypeOK says of them.
DumpTyped ==
    /\ dumping \in {"off", "on", "queued", "stopping"}
    /\ game_shutdown_delayed \in BOOLEAN /\ game_paused_for_dumping \in BOOLEAN

LEMMA DumpUnchanged ==
    ASSUME TypeOK, UNCHANGED dumpVars
    PROVE  DumpTyped'
BY DEF TypeOK, dumpVars, DumpTyped

LEMMA ShutdownType ==
    ASSUME TypeOK, NEW next, Shutdown(next)
    PROVE  /\ emu' \in {next, "StopDumping"} /\ async' \in 0 .. MaxAsync
           /\ DumpTyped' /\ UNCHANGED game_shutdown_delayed
<1>1. emu' \in {next, "StopDumping"} /\ UNCHANGED game_shutdown_delayed
  BY DEF Shutdown
<1>2. async' \in 0 .. MaxAsync
  BY SignalsAssumption DEF Shutdown
<1>3. DumpTyped'
  BY DEF Shutdown, IsDumping, TypeOK, DumpTyped
<1> QED BY <1>1, <1>2, <1>3

LEMMA SucceedsType ==
    ASSUME TypeOK, Succeeds
    PROVE  /\ was_active' \in BOOLEAN /\ emu' \in {"limiter", "top", "DebugModeEntered"}
           /\ UNCHANGED flagVars
<1>1. CASE frame_advancing_enabled
  BY <1>1 DEF Succeeds, TypeOK, flagVars
<1>2. CASE ~frame_advancing_enabled
  <2>1. AfterRunLoop(running) /\ UNCHANGED flagVars /\ running \in BOOLEAN
    BY <1>2 DEF Succeeds, TypeOK
  <2> QED BY <2>1, AfterRunLoopType
<1> QED BY <1>1, <1>2

LEMMA FailsType ==
    ASSUME TypeOK, Fails
    PROVE  /\ was_active' \in BOOLEAN /\ emu' \in {"top", "DebugModeEntered"}
           /\ running' \in BOOLEAN /\ stop_run' \in BOOLEAN
           /\ errors' \in SUBSET {"ErrorSavestate", "ShutdownRequested"}
<1>1. was_active' \in BOOLEAN /\ emu' \in {"top", "DebugModeEntered"}
  BY AfterRunLoopType DEF Fails
<1>2. running' \in BOOLEAN /\ stop_run' \in BOOLEAN
  BY DEF Fails, TypeOK
<1>3. errors' \in SUBSET {"ErrorSavestate", "ShutdownRequested"}
  BY DEF Fails, TypeOK
<1> QED BY <1>1, <1>2, <1>3

LEMMA RequestedType ==
    ASSUME TypeOK, Requested
    PROVE  /\ was_active' \in BOOLEAN /\ emu' = "left" /\ UNCHANGED <<async, dumpVars>>
           /\ running' \in BOOLEAN /\ stop_run' \in BOOLEAN
           /\ errors' \in SUBSET {"ErrorSavestate", "ShutdownRequested"}
<1>1. was_active' \in BOOLEAN /\ emu' = "left" /\ UNCHANGED <<async, dumpVars>>
      /\ running' \in BOOLEAN /\ stop_run' \in BOOLEAN
  BY DEF Requested, TypeOK
<1>2. errors' \in SUBSET {"ErrorSavestate", "ShutdownRequested"}
  BY DEF Requested, TypeOK
<1> QED BY <1>1, <1>2

\* Steps of the emulation thread that leave the request and the file alone.
LEMMA EmuTypes ==
    ASSUME TypeOK, EmuLoaded \/ EmuTop \/ EmuTest \/ EmuSleep
    PROVE  TypeOK'
<1>1. /\ UNCHANGED <<feVars, was_active, shown, flagVars, limVars, current_signal, reqVars,
                     diskVars>>
      /\ UNCHANGED <<async, dumpVars>>
  BY DEF EmuLoaded, EmuTop, EmuTest, EmuSleep
<1>2. emu' \in EmuPc
  BY DEF EmuLoaded, EmuTop, EmuTest, EmuSleep, EmuPc
<1> QED BY <1>1, <1>2 DEF TypeOK, feVars, flagVars, limVars, reqVars, diskVars, dumpVars

LEMMA EmuEndsType ==
    ASSUME TypeOK, EmuEnds
    PROVE  TypeOK'
<1>1. UNCHANGED <<feVars, was_active, shown, flagVars, limVars, current_signal, reqVars,
                  diskVars>>
  BY DEF EmuEnds
<1>2. emu' \in EmuPc /\ async' \in 0 .. MaxAsync /\ DumpTyped'
  BY ShutdownType DEF EmuEnds, EmuPc
<1> QED BY <1>1, <1>2 DEF TypeOK, feVars, flagVars, limVars, reqVars, diskVars, DumpTyped

LEMMA EmuLimiterType ==
    ASSUME TypeOK, EmuLimiter
    PROVE  TypeOK'
<1>1. /\ UNCHANGED <<feVars, shown, flagVars, frame_advancing_enabled, current_signal, reqVars,
                     async, diskVars, dumpVars>>
      /\ frame_advance_event' = FALSE
  BY DEF EmuLimiter
<1>2. was_active' \in BOOLEAN /\ emu' \in EmuPc
  <2>1. CASE AfterRunLoop(running)
    BY <2>1, AfterRunLoopType DEF TypeOK, EmuPc
  <2>2. CASE emu' = "top" /\ UNCHANGED was_active
    BY <2>2 DEF TypeOK, EmuPc
  <2> QED BY <2>1, <2>2 DEF EmuLimiter
<1>3. DumpTyped'
  BY <1>1, DumpUnchanged
<1> QED BY <1>1, <1>2, <1>3, ZenonT(30) DEF TypeOK, feVars, flagVars, reqVars, diskVars, DumpTyped

\* How a pass of RunLoop may leave the emulation thread.
Passed ==
    \/ Succeeds \/ Fails \/ Requested
    \/ AfterRunLoop(running) /\ UNCHANGED flagVars

LEMMA PassType ==
    ASSUME TypeOK, Passed
    PROVE  /\ was_active' \in BOOLEAN /\ emu' \in {"limiter", "top", "DebugModeEntered", "left"}
           /\ running' \in BOOLEAN /\ stop_run' \in BOOLEAN
           /\ errors' \in SUBSET {"ErrorSavestate", "ShutdownRequested"}
<1>1. UNCHANGED flagVars => /\ running' \in BOOLEAN /\ stop_run' \in BOOLEAN
                            /\ errors' \in SUBSET {"ErrorSavestate", "ShutdownRequested"}
  BY DEF flagVars, TypeOK
<1>2. CASE Succeeds
  BY <1>1, <1>2, SucceedsType
<1>3. CASE Fails
  BY <1>3, FailsType
<1>4. CASE Requested
  BY <1>4, RequestedType
<1>5. CASE AfterRunLoop(running) /\ UNCHANGED flagVars
  <2>1. running \in BOOLEAN
    BY DEF TypeOK
  <2> QED BY <1>1, <1>5, <2>1, AfterRunLoopType
<1> QED BY <1>2, <1>3, <1>4, <1>5 DEF Passed

LEMMA RequestType ==
    ASSUME TypeOK
    PROVE  /\ Request \in {"NONE", "LOADING", "SAVING"}
           /\ RequestAge \in 0 .. RequestLimit + 1
BY SignalsAssumption DEF Request, RequestAge, TypeOK

LEMMA EmuSignalType ==
    ASSUME TypeOK, EmuReset \/ EmuShutdown \/ EmuRefuses \/ EmuExpires
    PROVE  TypeOK'
<1>1. /\ UNCHANGED <<feVars, shown, limVars, diskVars>> /\ current_signal' = "None"
  BY DEF EmuReset, EmuShutdown, EmuRefuses, EmuExpires, Takes, Passes
<1>2. /\ was_active' \in BOOLEAN /\ emu' \in EmuPc
      /\ running' \in BOOLEAN /\ stop_run' \in BOOLEAN
      /\ errors' \in SUBSET {"ErrorSavestate", "ShutdownRequested"}
      /\ async' \in 0 .. MaxAsync /\ DumpTyped'
  <2>1. CASE Passed /\ UNCHANGED <<async, dumpVars>>
    <3>1. async' \in 0 .. MaxAsync /\ DumpTyped'
      BY <2>1, DumpUnchanged DEF TypeOK
    <3> QED BY <2>1, <3>1, PassType DEF EmuPc
  <2>2. CASE Shutdown(LoopEnd(running)) /\ was_active' = running /\ UNCHANGED flagVars
    <3>1. emu' \in EmuPc /\ async' \in 0 .. MaxAsync /\ DumpTyped'
      BY <2>2, ShutdownType DEF EmuPc, LoopEnd
    <3> QED BY <2>2, <3>1 DEF TypeOK, flagVars
  <2> QED BY <2>1, <2>2 DEF EmuReset, EmuShutdown, EmuRefuses, EmuExpires, Requested, Passed
<1>3. request' \in {"NONE", "LOADING", "SAVING"} /\ request_age' \in 0 .. RequestLimit + 1
  BY SignalsAssumption DEF EmuReset, EmuShutdown, EmuRefuses, EmuExpires, reqVars, TypeOK
<1>4. "None" \in Signal
  BY DEF Signal
<1> QED BY <1>1, <1>2, <1>3, <1>4 DEF TypeOK, feVars, limVars, diskVars, DumpTyped

LEMMA EmuStateType ==
    ASSUME TypeOK, EmuLoad \/ EmuSave
    PROVE  TypeOK'
<1>1. /\ UNCHANGED <<feVars, shown, limVars, async, main, dumpVars>> /\ current_signal' = "None"
      /\ request' = "NONE" /\ request_age' = 0
  BY DEF EmuLoad, EmuSave, Passes
<1>2. slot' \in {"absent", "torn", "full"}
  BY DEF EmuLoad, EmuSave, LoadState, TypeOK
<1>3. /\ was_active' \in BOOLEAN /\ emu' \in EmuPc
      /\ running' \in BOOLEAN /\ stop_run' \in BOOLEAN
      /\ errors' \in SUBSET {"ErrorSavestate", "ShutdownRequested"}
  <2>1. CASE Succeeds \/ Fails
    BY <2>1, PassType DEF EmuPc, Passed
  <2>2. CASE emu' = "writing" /\ UNCHANGED <<was_active, flagVars>>
    BY <2>2 DEF TypeOK, EmuPc, flagVars
  <2> QED BY <2>1, <2>2 DEF EmuLoad, EmuSave, LoadState
<1>4. "None" \in Signal /\ 0 \in 0 .. RequestLimit + 1
  BY SignalsAssumption DEF Signal
<1> QED BY <1>1, <1>2, <1>3, <1>4 DEF TypeOK, feVars, limVars, dumpVars

LEMMA EmuWritesType ==
    ASSUME TypeOK, EmuWrites
    PROVE  TypeOK'
<1>1. /\ UNCHANGED <<fe, closing, waited, timers, shown, limVars, current_signal, reqVars, async,
                     main, dumpVars>>
      /\ slot' \in {"absent", "torn", "full"} /\ asked' \in BOOLEAN /\ promise' \in BOOLEAN
  BY DEF EmuWrites, TypeOK
<1>2. /\ was_active' \in BOOLEAN /\ emu' \in EmuPc
      /\ running' \in BOOLEAN /\ stop_run' \in BOOLEAN
      /\ errors' \in SUBSET {"ErrorSavestate", "ShutdownRequested"}
  <2>1. Succeeds \/ Fails
    BY DEF EmuWrites
  <2> QED BY <2>1, PassType DEF EmuPc, Passed
<1> QED BY <1>1, <1>2 DEF TypeOK, limVars, reqVars, dumpVars

LEMMA EmuSliceType ==
    ASSUME TypeOK, EmuSlice
    PROVE  TypeOK'
<1>1. UNCHANGED <<feVars, shown, limVars, slot, dumpVars>>
  BY DEF EmuSlice
<1>2. request' \in {"NONE", "LOADING", "SAVING"} /\ request_age' \in 0 .. RequestLimit + 1
  BY RequestType DEF EmuSlice
<1>3. /\ was_active' \in BOOLEAN /\ emu' \in EmuPc
      /\ running' \in BOOLEAN /\ stop_run' \in BOOLEAN
      /\ errors' \in SUBSET {"ErrorSavestate", "ShutdownRequested"}
  BY PassType DEF EmuSlice, EmuPc, Passed
<1>4. current_signal' \in Signal /\ main' \in BOOLEAN /\ async' \in 0 .. MaxAsync
  BY DEF EmuSlice, Guest, Signal, TypeOK
<1> QED BY <1>1, <1>2, <1>3, <1>4 DEF TypeOK, feVars, limVars, dumpVars

LEMMA EmuType ==
    ASSUME TypeOK, Emu
    PROVE  TypeOK'
BY EmuTypes, EmuEndsType, EmuLimiterType, EmuSignalType, EmuStateType, EmuWritesType, EmuSliceType DEF Emu

-------------------------------------------------------------------------------
(* The Qt thread, time and failures                                        *)

LEMMA NotifiedType ==
    ASSUME TypeOK
    PROVE  Notified \in EmuPc /\ (emu # "none" => Notified # "none")
                              /\ (emu = "none" => Notified = "none")
BY DEF Notified, TypeOK, EmuPc

LEMMA GameType ==
    ASSUME TypeOK, BootGame \/ OnPauseContinueGame
    PROVE  TypeOK'
<1>1. UNCHANGED <<feVars, errors, current_signal, reqVars, diskVars>>
  BY DEF BootGame, OnPauseContinueGame
<1>2. was_active' \in BOOLEAN /\ shown' \in BOOLEAN /\ running' \in BOOLEAN /\ stop_run' \in BOOLEAN
  BY DEF BootGame, OnPauseContinueGame, TypeOK
<1>3. frame_advancing_enabled' \in BOOLEAN /\ frame_advance_event' \in BOOLEAN
  BY DEF BootGame, OnPauseContinueGame, TypeOK
<1>4. emu' \in EmuPc
  BY NotifiedType DEF BootGame, OnPauseContinueGame, TypeOK, EmuPc
<1>5. async' \in 0 .. MaxAsync
  BY SignalsAssumption DEF BootGame, OnPauseContinueGame, TypeOK
<1>6. DumpTyped'
  BY DumpUnchanged DEF BootGame, OnPauseContinueGame, TypeOK, DumpTyped
<1> QED BY <1>1, <1>2, <1>3, <1>4, <1>5, <1>6 DEF TypeOK, feVars, reqVars, diskVars, DumpTyped

LEMMA EventType ==
    ASSUME TypeOK, AdvanceFrame \/ HandlesDebugMode
    PROVE  TypeOK'
<1>1. /\ UNCHANGED <<feVars, was_active, shown, flagVars, frame_advancing_enabled, current_signal,
                     reqVars, async, diskVars, dumpVars>>
      /\ frame_advance_event' \in BOOLEAN
  BY DEF AdvanceFrame, HandlesDebugMode, TypeOK, limVars, emuVars
<1>2. emu' \in EmuPc
  BY DEF AdvanceFrame, HandlesDebugMode, TypeOK, emuVars, EmuPc
<1> QED BY <1>1, <1>2 DEF TypeOK, feVars, flagVars, reqVars, diskVars, dumpVars

LEMMA TimerType ==
    ASSUME TypeOK, OnLoadComplete \/ onStart
    PROVE  TypeOK'
<1>1. /\ UNCHANGED <<fe, closing, waited, asked, promise, emu, was_active, flagVars, limVars, reqVars,
                     async, diskVars, dumpVars>>
      /\ shown' \in BOOLEAN
  BY DEF OnLoadComplete, onStart, emuVars, TypeOK
<1>2. timers' \in 0 .. MaxTimers
  BY SignalsAssumption DEF OnLoadComplete, onStart, TypeOK
<1>3. current_signal' \in Signal
  BY DEF OnLoadComplete, onStart, Signal, TypeOK
<1> QED BY <1>1, <1>2, <1>3 DEF TypeOK, flagVars, limVars, reqVars, diskVars, dumpVars

\* What ShutdownGame may touch.
StopTyped ==
    /\ stop_run \in BOOLEAN
    /\ frame_advancing_enabled \in BOOLEAN /\ frame_advance_event \in BOOLEAN
    /\ DumpTyped

LEMMA StopUnchanged ==
    ASSUME TypeOK, UNCHANGED <<stop_run, limVars, dumpVars>>
    PROVE  StopTyped'
BY DumpUnchanged DEF StopTyped, TypeOK, limVars

LEMMA OnStopVideoDumpingType ==
    ASSUME TypeOK, OnStopVideoDumping
    PROVE  /\ frame_advancing_enabled' \in BOOLEAN /\ frame_advance_event' \in BOOLEAN
           /\ dumping' \in {"off", "on", "queued", "stopping"}
           /\ game_paused_for_dumping' \in BOOLEAN
BY DEF OnStopVideoDumping, TypeOK

\* ShutdownGame goes on to the join, or its caller goes on: with no emulation
\* thread, or with stopping it put off.
LEMMA ShutdownGameType ==
    ASSUME TypeOK, NEW next, ShutdownGame(next)
    PROVE  /\ fe' \in {next, "stopSet"} /\ StopTyped'
           /\ fe' = "stopSet" \/ emu = "none" \/ game_shutdown_delayed'
<1>1. CASE emu # "none" /\ ~IsDumping
  <2>1. fe' = "stopSet" /\ stop_run' = TRUE /\ UNCHANGED <<limVars, dumpVars>>
    BY <1>1 DEF ShutdownGame
  <2>2. StopTyped'
    BY <2>1, DumpUnchanged DEF StopTyped, TypeOK, limVars
  <2> QED BY <2>1, <2>2
<1>2. CASE emu = "none"
  <2>1. fe' = next /\ UNCHANGED <<stop_run, limVars, dumpVars>>
    BY <1>2 DEF ShutdownGame
  <2> QED BY <1>2, <2>1, StopUnchanged
<1>3. CASE emu # "none" /\ IsDumping
  <2>1. fe' = next /\ UNCHANGED stop_run /\ game_shutdown_delayed' = TRUE /\ OnStopVideoDumping
    BY <1>3 DEF ShutdownGame
  <2>2. StopTyped'
    BY <2>1, OnStopVideoDumpingType DEF StopTyped, DumpTyped, TypeOK
  <2> QED BY <2>1, <2>2
<1> QED BY <1>1, <1>2, <1>3

LEMMA AfterCloseType ==
    ASSUME TypeOK, NEW c \in BOOLEAN, AfterClose(c)
    PROVE  /\ fe' \in (IF c THEN {"stopSet", "render_window"} ELSE {"idle"})
           /\ StopTyped'
<1>1. CASE c
  BY <1>1, ShutdownGameType DEF AfterClose
<1>2. CASE ~c
  BY <1>2, StopUnchanged DEF AfterClose
<1> QED BY <1>1, <1>2

LEMMA CloseType ==
    ASSUME TypeOK, NEW c \in BOOLEAN, NEW recent \in BOOLEAN, onClose(c, recent)
    PROVE  TypeOK'
<1>1. /\ UNCHANGED <<promise, timers, emuVars, running, errors, reqVars, async, diskVars>>
      /\ closing' \in BOOLEAN
  BY DEF onClose
<1>2. /\ fe' \in FePc /\ asked' \in BOOLEAN /\ current_signal' \in Signal /\ StopTyped'
  <2>1. CASE AfterClose(c) /\ UNCHANGED <<waited, asked, current_signal>>
    <3>1. fe' \in FePc /\ StopTyped'
      BY <2>1, AfterCloseType DEF FePc
    <3> QED BY <2>1, <3>1 DEF TypeOK
  <2>2. CASE /\ fe' = "onClose" /\ current_signal' = "Save"
             /\ asked' = (c /\ slot = "absent" /\ emu # "none")
             /\ UNCHANGED <<stop_run, limVars, dumpVars>>
    BY <2>2, StopUnchanged DEF FePc, Signal
  <2> QED BY <2>1, <2>2 DEF onClose
<1>3. waited' \in 0 .. CloseLimit
  <2>1. waited' = waited \/ waited' = 0
    BY DEF onClose
  <2> QED BY <2>1, SignalsAssumption DEF TypeOK
<1> QED BY <1>1, <1>2, <1>3 DEF TypeOK, emuVars, reqVars, diskVars, StopTyped, DumpTyped

LEMMA CloseEndsType ==
    ASSUME TypeOK, onCloseEnds
    PROVE  TypeOK'
<1>1. /\ UNCHANGED <<closing, timers, emuVars, running, errors, current_signal, reqVars, async,
                     diskVars>>
      /\ promise' \in BOOLEAN /\ asked' \in BOOLEAN
  BY DEF onCloseEnds, TypeOK
<1>2. fe' \in FePc /\ StopTyped'
  <2>1. AfterClose(closing) /\ closing \in BOOLEAN
    BY DEF onCloseEnds, TypeOK
  <2> QED BY <2>1, AfterCloseType DEF FePc
<1>3. waited' \in 0 .. CloseLimit
  BY SignalsAssumption DEF onCloseEnds
<1> QED BY <1>1, <1>2, <1>3 DEF TypeOK, emuVars, reqVars, diskVars, StopTyped, DumpTyped

LEMMA WindowType ==
    ASSUME TypeOK, CloseWindow \/ OnStopGame
    PROVE  TypeOK'
<1>1. /\ UNCHANGED <<waited, asked, promise, timers, emuVars, running, errors, current_signal,
                     reqVars, async, diskVars>>
      /\ closing' \in BOOLEAN
  BY DEF CloseWindow, OnStopGame, TypeOK
<1>2. fe' \in FePc /\ StopTyped'
  BY ShutdownGameType DEF CloseWindow, OnStopGame, FePc
<1> QED BY <1>1, <1>2 DEF TypeOK, emuVars, reqVars, diskVars, StopTyped, DumpTyped

LEMMA StopType ==
    ASSUME TypeOK, RequestStop \/ CancelFrameAdvancing \/ Joined
    PROVE  TypeOK'
<1>1. /\ UNCHANGED <<waited, asked, promise, timers, errors, current_signal, reqVars, async,
                     diskVars, dumpVars>>
      /\ closing' \in BOOLEAN
  BY DEF RequestStop, CancelFrameAdvancing, Joined, flagVars, TypeOK
<1>2. fe' \in FePc
  BY DEF RequestStop, CancelFrameAdvancing, Joined, FePc
<1>3. /\ was_active' \in BOOLEAN /\ shown' \in BOOLEAN /\ running' \in BOOLEAN
      /\ stop_run' \in BOOLEAN
  BY DEF RequestStop, CancelFrameAdvancing, Joined, emuVars, flagVars, SetRunningFalse, TypeOK
<1>4. frame_advancing_enabled' \in BOOLEAN /\ frame_advance_event' \in BOOLEAN
  BY DEF RequestStop, CancelFrameAdvancing, Joined, limVars, TypeOK
<1>5. emu' \in EmuPc
  <2>1. emu' = emu \/ emu' = Notified \/ emu' = "none"
    BY DEF RequestStop, CancelFrameAdvancing, Joined, emuVars
  <2> QED BY <2>1, NotifiedType DEF TypeOK, EmuPc
<1> QED BY <1>1, <1>2, <1>3, <1>4, <1>5 DEF TypeOK, reqVars, diskVars, dumpVars

LEMMA ErrorType ==
    ASSUME TypeOK, OnCoreError
    PROVE  TypeOK'
<1>1. UNCHANGED <<waited, asked, promise, timers, was_active, shown, current_signal, reqVars,
                  async, diskVars>>
  BY DEF OnCoreError
<1>2. fe' \in FePc /\ StopTyped'
  <2>1. CASE ShutdownGame("idle")
    BY <2>1, ShutdownGameType DEF FePc
  <2>2. CASE UNCHANGED <<fe, stop_run, closing, limVars, dumpVars>>
    BY <2>2, StopUnchanged DEF TypeOK
  <2> QED BY <2>1, <2>2 DEF OnCoreError
<1>3. closing' \in BOOLEAN /\ running' \in BOOLEAN
  BY DEF OnCoreError, TypeOK
<1>4. emu' \in EmuPc
  BY NotifiedType DEF OnCoreError, TypeOK
<1>5. errors' \in SUBSET {"ErrorSavestate", "ShutdownRequested"}
  BY DEF OnCoreError, TypeOK
<1> QED BY <1>1, <1>2, <1>3, <1>4, <1>5 DEF TypeOK, reqVars, diskVars, StopTyped, DumpTyped

LEMMA DumpVideoType ==
    ASSUME TypeOK, OnDumpVideo \/ StopDumping
    PROVE  TypeOK'
<1>1. UNCHANGED <<feVars, emuVars, flagVars, current_signal, reqVars, async, diskVars>>
  BY DEF OnDumpVideo, StopDumping
<1>2. frame_advancing_enabled' \in BOOLEAN /\ frame_advance_event' \in BOOLEAN /\ DumpTyped'
  <2>1. CASE OnStopVideoDumping /\ UNCHANGED game_shutdown_delayed
    BY <2>1, OnStopVideoDumpingType DEF DumpTyped, TypeOK
  <2>2. CASE /\ dumping' \in {"on", "stopping"}
             /\ UNCHANGED <<limVars, game_shutdown_delayed, game_paused_for_dumping>>
    BY <2>2 DEF DumpTyped, TypeOK, limVars
  <2> QED BY <2>1, <2>2 DEF OnDumpVideo, StopDumping
<1> QED BY <1>1, <1>2
        DEF TypeOK, feVars, emuVars, flagVars, reqVars, diskVars, DumpTyped

LEMMA DumpingStoppedType ==
    ASSUME TypeOK, OnDumpingStopped
    PROVE  TypeOK'
<1>1. UNCHANGED <<waited, asked, promise, timers, was_active, shown, errors, current_signal,
                  reqVars, async, diskVars>>
  BY DEF OnDumpingStopped
<1>2. fe' \in FePc /\ closing' \in BOOLEAN /\ stop_run' \in BOOLEAN /\ running' \in BOOLEAN
  BY DEF OnDumpingStopped, FePc, TypeOK
<1>3. emu' \in EmuPc
  BY NotifiedType DEF OnDumpingStopped, TypeOK
<1>4. frame_advancing_enabled' \in BOOLEAN /\ frame_advance_event' \in BOOLEAN
  BY DEF OnDumpingStopped, TypeOK, limVars
<1>5. DumpTyped'
  BY DEF OnDumpingStopped, TypeOK, DumpTyped
<1> QED BY <1>1, <1>2, <1>3, <1>4, <1>5 DEF TypeOK, reqVars, diskVars, DumpTyped

LEMMA FrontendType ==
    ASSUME TypeOK, Frontend
    PROVE  TypeOK'
BY GameType, EventType, TimerType, CloseType, CloseEndsType, WindowType, StopType, ErrorType,
   DumpVideoType, DumpingStoppedType DEF Frontend, Finishes

LEMMA TickType ==
    ASSUME TypeOK, Tick
    PROVE  TypeOK'
<1>1. UNCHANGED <<fe, closing, asked, promise, timers, emuVars, flagVars, limVars, current_signal,
                  request, async, diskVars, dumpVars>>
  BY DEF Tick
<1>2. waited' \in 0 .. CloseLimit /\ request_age' \in 0 .. RequestLimit + 1
  BY SignalsAssumption DEF Tick, TypeOK
<1> QED BY <1>1, <1>2 DEF TypeOK, emuVars, flagVars, limVars, diskVars, dumpVars

LEMMA RestartedType ==
    ASSUME TypeOK, Restarted
    PROVE  TypeOK'
<1>1. UNCHANGED diskVars
  BY DEF Restarted
<1>2. /\ fe' \in FePc /\ emu' \in EmuPc /\ current_signal' \in Signal
  BY DEF Restarted, FePc, EmuPc, Signal
<1>3. /\ waited' \in 0 .. CloseLimit /\ timers' \in 0 .. MaxTimers
      /\ request_age' \in 0 .. RequestLimit + 1 /\ async' \in 0 .. MaxAsync
  BY SignalsAssumption DEF Restarted
<1> QED BY <1>1, <1>2, <1>3 DEF Restarted, TypeOK, diskVars

LEMMA InitialType == Init => TypeOK
<1> SUFFICES ASSUME Init PROVE TypeOK
  OBVIOUS
<1>1. /\ fe \in FePc /\ emu \in EmuPc /\ current_signal \in Signal
  BY DEF Init, FePc, EmuPc, Signal
<1>2. /\ waited \in 0 .. CloseLimit /\ timers \in 0 .. MaxTimers
      /\ request_age \in 0 .. RequestLimit + 1 /\ async \in 0 .. MaxAsync
  BY SignalsAssumption DEF Init
<1> QED BY <1>1, <1>2 DEF Init, TypeOK

LEMMA NextType == TypeOK /\ [Next]_vars => TypeOK'
<1>1. CASE UNCHANGED vars
  BY <1>1 DEF TypeOK, vars, feVars, emuVars, flagVars, limVars, reqVars, diskVars, dumpVars
<1> QED BY <1>1, EmuType, FrontendType, TickType, RestartedType DEF Next

\* The counters stay within their limits and every flag keeps its type, whatever
\* the two threads, the clock and a kill of the process do (core.cpp,
\* bootmanager.cpp).
THEOREM SignalsTyped == Spec => []TypeOK
BY InitialType, NextType, PTL DEF Spec

-------------------------------------------------------------------------------
(* The promise                                                             *)

\* A step of the emulation thread: it never asks for a Load, and while somebody
\* counts on the file it does not remove it and leaves no torn one behind.
Harmless ==
    /\ UNCHANGED <<fe, closing, game_shutdown_delayed>> /\ emu # "none" /\ emu' # "none"
    /\ asked' => asked
    /\ promise' => promise
    /\ current_signal' = "Load" => current_signal = "Load"
    /\ request' = "LOADING" => slot' = slot /\ (request = "LOADING" \/ current_signal = "Load")
    /\ asked' \/ promise' =>
         /\ slot' = "torn" => emu' = "writing"
         /\ slot' = "absent" => slot = "absent"
    /\ emu' = "writing" => request' = "NONE"

LEMMA HarmlessKept ==
    ASSUME TypeOK, Kept, Harmless
    PROVE  Kept'
<1>1. Asked'
  BY DEF Kept, Asked, Harmless
<1>2. Promised'
  BY DEF Kept, Promised, Harmless
<1>3. Guarded'
  BY DEF Kept, Guarded, Harmless
<1>4. Ended'
  BY DEF Kept, Ended, Harmless
<1>5. Writing'
  BY DEF Writing, Harmless
<1> QED BY <1>1, <1>2, <1>3, <1>4, <1>5 DEF Kept

\* Steps that leave the file and the request alone.
LEMMA QuietHarmless ==
    ASSUME TypeOK, Kept, UNCHANGED <<feVars, slot, game_shutdown_delayed>>,
           emu \notin {"none", "writing"}, emu' \notin {"none", "writing"},
           current_signal' = "Load" => current_signal = "Load",
           request' = "LOADING" => request = "LOADING" \/ current_signal = "Load"
    PROVE  Harmless
<1>1. UNCHANGED <<fe, closing, asked, promise, slot>>
  BY DEF feVars
<1>2. asked \/ promise => slot # "torn"
  BY DEF Kept, Guarded
<1> QED BY <1>1, <1>2 DEF Harmless

LEMMA RequestOrigin ==
    Request = "LOADING" => request = "LOADING" \/ current_signal = "Load"
BY DEF Request

LEMMA EmuLoopHarmless ==
    ASSUME TypeOK, Kept, EmuLoaded \/ EmuTop \/ EmuTest \/ EmuSleep \/ EmuLimiter
    PROVE  Harmless
<1>1. /\ UNCHANGED <<feVars, slot>> /\ UNCHANGED current_signal /\ UNCHANGED request
      /\ UNCHANGED game_shutdown_delayed
  BY DEF EmuLoaded, EmuTop, EmuTest, EmuSleep, EmuLimiter, reqVars, diskVars, dumpVars
<1>2. emu \notin {"none", "writing"}
  BY DEF EmuLoaded, EmuTop, EmuTest, EmuSleep, EmuLimiter
<1>3. emu' \notin {"none", "writing"}
  <2>1. CASE EmuLimiter
    <3>1. CASE AfterRunLoop(running)
      BY <3>1, AfterRunLoopType DEF TypeOK
    <3> QED BY <2>1, <3>1 DEF EmuLimiter
  <2>2. CASE EmuLoaded \/ EmuTop \/ EmuTest \/ EmuSleep
    BY <2>2 DEF EmuLoaded, EmuTop, EmuTest, EmuSleep
  <2> QED BY <2>1, <2>2
<1> QED BY <1>1, <1>2, <1>3, QuietHarmless

\* The system is shut down, to end or to be loaded again.
LEMMA EmuShutdownHarmless ==
    ASSUME TypeOK, Kept, NEW next \in {"top", "DebugModeEntered", "done"}, Shutdown(next),
           UNCHANGED <<feVars, slot, request>>, current_signal' \in {current_signal, "None"},
           emu \notin {"none", "writing"}
    PROVE  Harmless
<1>1. emu' \notin {"none", "writing"} /\ UNCHANGED game_shutdown_delayed
  BY ShutdownType
<1> QED BY <1>1, QuietHarmless

LEMMA EmuEndsHarmless ==
    ASSUME TypeOK, Kept, EmuEnds
    PROVE  Harmless
BY EmuShutdownHarmless DEF EmuEnds, reqVars, diskVars

LEMMA EmuPassHarmless ==
    ASSUME TypeOK, Kept, EmuReset \/ EmuShutdown \/ EmuRefuses \/ EmuExpires \/ EmuSlice
    PROVE  Harmless
<1>1. UNCHANGED <<feVars, slot>> /\ emu = "RunLoop"
  BY DEF EmuReset, EmuShutdown, EmuRefuses, EmuExpires, EmuSlice, Takes, Passes, diskVars
<1>2. current_signal' # "Load"
  BY DEF EmuReset, EmuShutdown, EmuRefuses, EmuExpires, EmuSlice, Takes, Passes, Guest
<1>3. CASE Passed /\ UNCHANGED dumpVars
  <2>1. emu' \notin {"none", "writing"} /\ UNCHANGED game_shutdown_delayed
    BY <1>3, PassType DEF dumpVars
  <2>2. request' = request \/ request' = "NONE" \/ request' = Request
    BY DEF EmuReset, EmuShutdown, EmuRefuses, EmuExpires, EmuSlice, reqVars
  <2> QED BY <1>1, <1>2, <2>1, <2>2, RequestOrigin, QuietHarmless
<1>4. CASE EmuReset /\ Shutdown(LoopEnd(running))
  <2>1. UNCHANGED request /\ current_signal' = "None"
    BY <1>4 DEF EmuReset, Takes, reqVars
  <2> QED BY <1>1, <1>4, <2>1, EmuShutdownHarmless DEF LoopEnd
<1> QED
  BY <1>3, <1>4 DEF EmuReset, EmuShutdown, EmuRefuses, EmuExpires, EmuSlice, Requested, Passed

LEMMA EmuLoadHarmless ==
    ASSUME TypeOK, Kept, EmuLoad
    PROVE  Harmless
<1>1. /\ UNCHANGED <<fe, closing, asked, promise, game_shutdown_delayed>>
      /\ emu = "RunLoop" /\ current_signal' = "None"
      /\ request' = "NONE" /\ Request = "LOADING"
  BY DEF EmuLoad, Passes, feVars, dumpVars
<1>2. emu' \notin {"none", "writing"}
  <2>1. Passed
    BY DEF EmuLoad, LoadState, Passed
  <2> QED BY <2>1, PassType
<1>3. ASSUME asked' \/ promise' PROVE slot' = slot /\ slot # "torn"
  <2>1. slot = "absent"
    BY <1>1, <1>3, RequestOrigin DEF Kept, Guarded
  <2> QED BY <2>1 DEF EmuLoad, LoadState
<1> QED BY <1>1, <1>2, <1>3 DEF Harmless

LEMMA EmuSaveHarmless ==
    ASSUME TypeOK, Kept, EmuSave
    PROVE  Harmless
<1>1. /\ UNCHANGED <<fe, closing, asked, promise, game_shutdown_delayed>>
      /\ emu = "RunLoop" /\ current_signal' = "None" /\ request' = "NONE"
  BY DEF EmuSave, Passes, feVars, dumpVars
<1>2. CASE emu' = "writing" /\ slot' = "torn"
  BY <1>1, <1>2 DEF Harmless
<1>3. CASE Fails /\ UNCHANGED slot
  <2>1. emu' # "none"
    BY <1>3, FailsType
  <2>2. asked \/ promise => slot # "torn"
    BY <1>1 DEF Kept, Guarded
  <2> QED BY <1>1, <1>3, <2>1, <2>2 DEF Harmless
<1> QED BY <1>2, <1>3 DEF EmuSave

LEMMA EmuWritesHarmless ==
    ASSUME TypeOK, Kept, EmuWrites
    PROVE  Harmless
<1>1. /\ UNCHANGED <<fe, closing, current_signal, request, game_shutdown_delayed>>
      /\ emu = "writing" /\ request = "NONE"
  BY DEF EmuWrites, reqVars, dumpVars, Kept, Writing
<1>2. CASE slot' = "full" /\ Succeeds /\ UNCHANGED <<asked, promise>>
  <2>1. emu' # "none"
    BY <1>2, SucceedsType
  <2> QED BY <1>1, <1>2, <2>1 DEF Harmless
<1>3. CASE UNCHANGED slot /\ Fails /\ asked' = FALSE /\ promise' = FALSE
  <2>1. emu' # "none"
    BY <1>3, FailsType
  <2> QED BY <1>1, <1>3, <2>1 DEF Harmless
<1> QED BY <1>2, <1>3 DEF EmuWrites

LEMMA EmuKept ==
    ASSUME TypeOK, Kept, Emu
    PROVE  Kept'
<1>1. Harmless
  BY EmuLoopHarmless, EmuEndsHarmless, EmuPassHarmless, EmuLoadHarmless, EmuSaveHarmless,
     EmuWritesHarmless DEF Emu
<1> QED BY <1>1, HarmlessKept

\* Events the Qt thread handles when it is idle: nobody waits for the file.
LEMMA IdleKept ==
    ASSUME TypeOK, Kept, fe = "idle", UNCHANGED <<asked, promise, request>>,
           fe' # "closed", emu' = "writing" => emu = "writing"
    PROVE  Kept'
<1>1. ~asked' /\ ~promise'
  BY DEF Kept, Asked, Promised
<1> QED BY <1>1 DEF Kept, Asked, Promised, Guarded, Ended, Writing

LEMMA EventsKept ==
    ASSUME TypeOK, Kept, \/ BootGame \/ OnPauseContinueGame \/ AdvanceFrame \/ HandlesDebugMode
                         \/ OnLoadComplete \/ onStart \/ OnDumpVideo \/ OnDumpingStopped
    PROVE  Kept'
<1>1. fe = "idle" /\ UNCHANGED <<asked, promise, request>>
  BY DEF BootGame, OnPauseContinueGame, AdvanceFrame, HandlesDebugMode, OnLoadComplete, onStart,
         OnDumpVideo, OnDumpingStopped, feVars, reqVars
<1>2. fe' # "closed"
  BY <1>1 DEF BootGame, OnPauseContinueGame, AdvanceFrame, HandlesDebugMode, OnLoadComplete,
              onStart, OnDumpVideo, OnDumpingStopped, feVars
<1>3. emu' = "writing" => emu = "writing"
  BY DEF BootGame, OnPauseContinueGame, AdvanceFrame, HandlesDebugMode, OnLoadComplete, onStart,
         OnDumpVideo, OnDumpingStopped, emuVars, Notified
<1> QED BY <1>1, <1>2, <1>3, IdleKept

LEMMA StopsKept ==
    ASSUME TypeOK, Kept, OnStopGame \/ OnCoreError
    PROVE  Kept'
<1>1. fe = "idle" /\ UNCHANGED <<asked, promise, request>>
  BY DEF OnStopGame, OnCoreError, reqVars
<1>2. fe' # "closed"
  <2>1. CASE ShutdownGame("idle")
    BY <2>1, ShutdownGameType
  <2> QED BY <1>1, <2>1 DEF OnStopGame, OnCoreError
<1>3. emu' = "writing" => emu = "writing"
  BY DEF OnStopGame, OnCoreError, emuVars, Notified
<1> QED BY <1>1, <1>2, <1>3, IdleKept

\* onClose counts on the file only when it sent the Save and there is no file yet.
LEMMA onCloseKept ==
    ASSUME TypeOK, Kept, NEW c \in BOOLEAN, NEW recent \in BOOLEAN, onClose(c, recent)
    PROVE  Kept'
<1>1. fe = "idle" /\ ~asked /\ ~promise /\ ~promise' /\ UNCHANGED <<emu, request, slot>>
  BY DEF onClose, Kept, Asked, Promised, emuVars, reqVars, diskVars
<1>2. Writing'
  BY <1>1 DEF Kept, Writing
<1>3. CASE AfterClose(c) /\ UNCHANGED asked
  <2>1. fe' # "closed"
    BY <1>3, AfterCloseType
  <2> QED BY <1>1, <1>2, <1>3, <2>1 DEF Kept, Asked, Promised, Guarded, Ended
<1>4. CASE /\ current_signal' = "Save" /\ fe' = "onClose"
           /\ asked' = (c /\ slot = "absent" /\ emu # "none")
  <2>1. closing' = c
    BY DEF onClose
  <2>2. Asked'
    BY <1>1, <1>4, <2>1 DEF Asked
  <2>3. Guarded'
    BY <1>1, <1>4 DEF Guarded
  <2> QED BY <1>1, <1>2, <1>4, <2>2, <2>3 DEF Kept, Promised, Ended
<1> QED BY <1>3, <1>4 DEF onClose

LEMMA onCloseEndsKept ==
    ASSUME TypeOK, Kept, onCloseEnds
    PROVE  Kept'
<1>1. /\ fe = "onClose" /\ promise' = (asked /\ slot # "absent") /\ ~asked'
      /\ UNCHANGED <<closing, emu, current_signal, request, slot>>
      /\ AfterClose(closing) /\ closing \in BOOLEAN
  BY DEF onCloseEnds, emuVars, reqVars, diskVars, TypeOK
<1>2. Promised'
  <2>1. ASSUME promise' PROVE closing /\ emu # "none" /\ slot # "absent"
    BY <1>1, <2>1 DEF Kept, Asked
  <2>2. ASSUME promise' PROVE fe' \in {"stopSet", "render_window"}
    BY <1>1, <2>1, <2>2, AfterCloseType
  <2> QED BY <1>1, <2>1, <2>2 DEF Promised
<1>3. Ended'
  BY <1>1, AfterCloseType DEF Ended
<1>4. Asked' /\ Writing' /\ Guarded'
  BY <1>1 DEF Kept, Asked, Writing, Guarded
<1> QED BY <1>2, <1>3, <1>4 DEF Kept

\* Closing the windows: the program ends with stopping put off, or with nothing to stop.
LEMMA WindowKept ==
    ASSUME TypeOK, Kept, CloseWindow
    PROVE  Kept'
<1>1. /\ fe \in {"render_window", "secondary_window"}
      /\ UNCHANGED <<closing, asked, promise, emu, current_signal, request, slot>>
  BY DEF CloseWindow, emuVars, reqVars, diskVars
<1>2. /\ fe' \in {"stopSet", "secondary_window", "closed"}
      /\ fe' = "stopSet" \/ emu = "none" \/ game_shutdown_delayed'
  BY ShutdownGameType DEF CloseWindow
<1>3. ~asked
  BY <1>1 DEF Kept, Asked
<1> QED BY <1>1, <1>2, <1>3 DEF Kept, Asked, Promised, Guarded, Ended, Writing

\* The steps of ShutdownGame: the join waits for the thread that writes.
LEMMA ShutdownKept ==
    ASSUME TypeOK, Kept, RequestStop \/ CancelFrameAdvancing \/ Joined
    PROVE  Kept'
<1>1. /\ fe \in {"stopSet", "stopped", "join"}
      /\ UNCHANGED <<asked, promise, current_signal, request, slot>>
  BY DEF RequestStop, CancelFrameAdvancing, Joined, reqVars, diskVars
<1>2. ~asked
  BY <1>1 DEF Kept, Asked
<1>3. CASE RequestStop \/ CancelFrameAdvancing
  <2>1. fe' \in {"stopped", "join"} /\ UNCHANGED closing
    BY <1>3 DEF RequestStop, CancelFrameAdvancing
  <2>2. (emu' = "writing") <=> (emu = "writing")
    BY <1>3 DEF RequestStop, CancelFrameAdvancing, Notified, emuVars
  <2>3. Asked' /\ Ended' /\ Writing'
    BY <1>1, <1>2, <2>1, <2>2 DEF Kept, Asked, Ended, Writing
  <2>4. Promised' /\ Guarded'
    BY <1>1, <1>2, <2>1, <2>2 DEF Kept, Promised, Guarded
  <2> QED BY <2>3, <2>4 DEF Kept
<1>4. CASE Joined
  <2>1. emu = "done" /\ emu' = "none" /\ fe' = (IF closing THEN "closed" ELSE "idle")
    BY <1>4 DEF Joined
  <2>2. Asked' /\ Ended' /\ Writing'
    BY <1>1, <1>2, <2>1 DEF Kept, Asked, Ended, Writing
  <2>3. Promised'
    BY <1>1, <2>1 DEF Kept, Promised
  <2>4. Guarded'
    BY <1>1, <2>1 DEF Kept, Guarded
  <2> QED BY <2>2, <2>3, <2>4 DEF Kept
<1> QED BY <1>3, <1>4

LEMMA OtherKept ==
    ASSUME TypeOK, Kept, Tick \/ StopDumping \/ Restarted \/ UNCHANGED vars
    PROVE  Kept'
<1>1. CASE Restarted
  BY <1>1 DEF Restarted, Kept, Asked, Promised, Guarded, Ended, Writing
<1>2. CASE Tick \/ StopDumping \/ UNCHANGED vars
  <2>1. UNCHANGED <<fe, closing, asked, promise, emu, current_signal, request, slot,
                    game_shutdown_delayed>>
    BY <1>2 DEF Tick, StopDumping, vars, feVars, emuVars, reqVars, diskVars, dumpVars
  <2> QED BY <2>1 DEF Kept, Asked, Promised, Guarded, Ended, Writing
<1> QED BY <1>1, <1>2

LEMMA NextKept == TypeOK /\ Kept /\ [Next]_vars => Kept'
<1> SUFFICES ASSUME TypeOK, Kept, [Next]_vars PROVE Kept'
  OBVIOUS
<1>1. CASE Frontend
  BY <1>1, EventsKept, StopsKept, onCloseKept, onCloseEndsKept, WindowKept, ShutdownKept, OtherKept
     DEF Frontend, Finishes
<1> QED BY <1>1, EmuKept, OtherKept DEF Next

LEMMA InitialKept == Init => Kept
BY DEF Init, Kept, Asked, Promised, Guarded, Ended, Writing

\* Closing the window over an open game without a savestate leaves a complete one
\* whenever onClose saw the file appear: the join of ShutdownGame outlasts the
\* write, and no Load removes the file meanwhile (poke_antirq.cpp, citra_qt.cpp).
\* Only when a video put ShutdownGame off may the file be still being written.
THEOREM ClosingKeepsItsPromise == Spec => []PromiseKept
<1>1. TypeOK /\ Kept => PromiseKept
  BY DEF Kept, Promised, Guarded, Ended, PromiseKept, TypeOK
<1> QED BY <1>1, InitialType, NextType, InitialKept, NextKept, PTL DEF Spec
===============================================================================
