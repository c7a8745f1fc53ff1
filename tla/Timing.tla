-------------------------------- MODULE Timing --------------------------------
(***************************************************************************)
(* Event timing (core/core_timing.cpp) and the part of System::RunLoop     *)
(* (core/core.cpp) that drives it: one timer per emulated core, each with  *)
(* a heap of events and a queue for events that other host threads         *)
(* schedule.  The emulation thread runs the cores one after the other,     *)
(* each for a slice, and brings cores that fell behind to the same time    *)
(* first.                                                                  *)
(*                                                                         *)
(* What runs on a core is a choice: it executes instructions, schedules    *)
(* and unschedules events, and may stop early to reschedule.  cur is the   *)
(* core of running_core and of current_timer.                              *)
(***************************************************************************)
EXTENDS Integers, Sequences, FiniteSetsExt

CONSTANTS
    NumCores,
    MAX_SLICE_LENGTH,
    MinDelay,          \* RunLoop's min_delay
    Overshoot,         \* ticks a core may run past its slice
    Ids,               \* event type and user data
    Delays,            \* values of cycles_into_future; timer.cpp 97 may pass a negative one
    Tears,             \* by how much a racing read of the ticks may be off: up to a slice
    NoEvent,           \* no other host thread is scheduling
    MaxTicks,          \* bound: a core that has reached it does not run
    MaxScheduled       \* bound: events scheduled

ASSUME TimingAssumption ==
    /\ NumCores \in Nat \ {0} /\ MAX_SLICE_LENGTH \in Nat \ {0}
    /\ {MinDelay, Overshoot, MaxTicks, MaxScheduled} \subseteq Nat
    /\ Delays \subseteq Nat /\ Tears \subseteq -MAX_SLICE_LENGTH .. MAX_SLICE_LENGTH

Core == 0 .. NumCores - 1

\* Who scheduled an event: a core (or a callback) on its own timer, or another host
\* thread, which may have been held up until the timer advanced again.
Origin == {"core", "host", "heldUp"}
Event == [id : Ids, time : Int, fifo_order : Nat, origin : Origin]

VARIABLES
    event_queue,       \* core -> set of events (the heap)
    ts_queue,          \* core -> sequence of events
    event_fifo_id, is_timer_sane, slice_length, downcount, executed_ticks,
    host,              \* what another host thread is about to push: [core, event], or NoEvent
    pc,                \* where RunLoop is
    cur, next,         \* the core it is at, and where its search for cores behind goes on
    max_slice          \* RunLoop's max_slice

queueVars == <<event_queue, ts_queue, event_fifo_id>>
tickVars  == <<is_timer_sane, slice_length, downcount, executed_ticks>>
loopVars  == <<pc, cur, next, max_slice>>
vars == <<queueVars, tickVars, host, loopVars>>

\* RunLoop: looks for cores that are behind, fires their events, runs the one
\* furthest behind; or advances all cores, firing their events, and runs them.
Pc == {"sync", "syncFire", "delayed", "advance", "advanceFire", "run"}

\* No core is ahead of another by more: what RunLoop tolerates, and a slice that
\* every core before it has overshot.
Drift == MinDelay + MAX_SLICE_LENGTH + NumCores * Overshoot

TypeOK ==
    /\ event_queue \in [Core -> SUBSET Event] /\ ts_queue \in [Core -> Seq(Event)]
    /\ event_fifo_id \in [Core -> Nat] /\ is_timer_sane \in [Core -> BOOLEAN]
    /\ executed_ticks \in [Core -> Nat]
    /\ slice_length \in [Core -> 0 .. Drift]
    /\ downcount \in [Core -> -Overshoot .. Drift]
    /\ host \in [core : Core, event : Event] \cup {NoEvent}
    /\ pc \in Pc /\ cur \in Core /\ next \in 0 .. NumCores
    /\ max_slice \in 0 .. Drift /\ (pc = "advance" => max_slice > 0)

Init ==
    /\ event_queue = [c \in Core |-> {}] /\ ts_queue = [c \in Core |-> <<>>]
    /\ event_fifo_id = [c \in Core |-> 0]
    /\ is_timer_sane = [c \in Core |-> TRUE]
    /\ slice_length = [c \in Core |-> MAX_SLICE_LENGTH]
    /\ downcount = [c \in Core |-> MAX_SLICE_LENGTH]
    /\ executed_ticks = [c \in Core |-> 0]
    /\ host = NoEvent
    /\ pc = "sync" /\ cur = 0 /\ next = 0 /\ max_slice = MAX_SLICE_LENGTH

-------------------------------------------------------------------------------
(* Timers                                                                  *)

GetTicks(c) == executed_ticks[c] + (IF is_timer_sane[c] THEN 0 ELSE slice_length[c] - downcount[c])

GetGlobalTicks == CHOOSE t \in {GetTicks(c) : c \in Core} : \A c \in Core : GetTicks(c) <= t

Min2(a, b) == IF a < b THEN a ELSE b
Max2(a, b) == IF a > b THEN a ELSE b

Before(e, f) ==
    e.time < f.time \/ (e.time = f.time /\ e.fifo_order < f.fifo_order)
Front(q) == CHOOSE e \in q : \A f \in q \ {e} : Before(e, f)

DueStrictly(c) == event_queue[c] # {} /\ Front(event_queue[c]).time < executed_ticks[c]
Due(c) == event_queue[c] # {} /\ Front(event_queue[c]).time <= executed_ticks[c]

\* ForceExceptionCheck: the core stops after cycles at the latest, at once when they
\* are negative.
ForceExceptionCheckRestarting(c, cycles) ==
    /\ downcount' = [downcount EXCEPT ![c] = Min2(@, Max2(0, cycles))]
    /\ slice_length' = [slice_length EXCEPT ![c] = Max2(0, downcount'[c])]
ForceExceptionCheck(c, cycles) ==
    /\ downcount' = [downcount EXCEPT ![c] = Min2(@, Max2(0, cycles))]
    /\ slice_length' = [slice_length EXCEPT ![c] = @ - (downcount[c] - downcount'[c])]

\* ScheduleEvent on the current timer; callbacks leave the slice alone.
ScheduleEvent(id, cycles) ==
    /\ event_queue' = [event_queue EXCEPT ![cur] = @ \cup
           {[id |-> id, time |-> GetTicks(cur) + cycles, fifo_order |-> event_fifo_id[cur],
             origin |-> "core"]}]
    /\ event_fifo_id' = [event_fifo_id EXCEPT ![cur] = @ + 1]
    /\ IF is_timer_sane[cur] THEN UNCHANGED <<slice_length, downcount>>
       ELSE ForceExceptionCheck(cur, cycles)

\* UnscheduleEvent looks at the heaps of all timers, not at their ts_queue.
UnscheduleEvent(id) ==
    event_queue' = [c \in Core |-> {e \in event_queue[c] : e.id # id}]

\* The events of the ts_queue get their place in the order as they are moved.
Moved(c) ==
    {[ts_queue[c][i] EXCEPT !.fifo_order = event_fifo_id[c] + i - 1] : i \in DOMAIN ts_queue[c]}

\* Advance up to its loop.
AdvanceBegins(c) ==
    /\ event_queue' = [event_queue EXCEPT ![c] = @ \cup Moved(c)]
    /\ ts_queue' = [ts_queue EXCEPT ![c] = <<>>]
    /\ event_fifo_id' = [event_fifo_id EXCEPT ![c] = @ + Len(ts_queue[c])]
    /\ executed_ticks' = [executed_ticks EXCEPT ![c] = @ + slice_length[c] - downcount[c]]
    /\ slice_length' = [slice_length EXCEPT ![c] = 0]
    /\ downcount' = [downcount EXCEPT ![c] = 0]
    /\ is_timer_sane' = [is_timer_sane EXCEPT ![c] = TRUE]
    /\ host' = IF host # NoEvent /\ host.core = c THEN [host EXCEPT !.event.origin = "heldUp"]
               ELSE host

\* SetNextSlice: to the next event, at most max.
NextSlice(c, max) ==
    IF event_queue[c] = {} THEN max
    ELSE Min2(Front(event_queue[c]).time - executed_ticks[c], max)
GetMaxSliceLength(c) ==
    IF event_queue[c] = {} THEN MAX_SLICE_LENGTH
    ELSE Front(event_queue[c]).time - executed_ticks[c]

MayBeScheduled ==
    MapThenSumSet(LAMBDA c : event_fifo_id[c] + Len(ts_queue[c]), Core) < MaxScheduled

\* Bound: other host threads have at most one event pending at a time.
OneFromHosts ==
    /\ host = NoEvent
    /\ \A c \in Core : ts_queue[c] = <<>> /\ \A e \in event_queue[c] : e.origin = "core"

-------------------------------------------------------------------------------
(* RunLoop                                                                 *)

Delay(c) == GetGlobalTicks - GetTicks(c)

\* The first of the cores that are furthest behind.
Furthest == CHOOSE c \in Core : \A d \in Core : Delay(d) < Delay(c) \/ (Delay(d) = Delay(c) /\ c <= d)

\* The loop over the cores that are behind, which have an index of at least next.
Behind == {c \in Core : c >= next /\ Delay(c) > 0}

SyncBegins(c) ==
    /\ pc = "sync" /\ c \in Behind /\ \A d \in Behind : c <= d
    /\ AdvanceBegins(c)
    /\ pc' = "syncFire" /\ cur' = c
    /\ UNCHANGED <<next, max_slice>>

\* After it, the core furthest behind runs, or all cores advance.
SyncedAlways ==
    /\ pc = "sync" /\ Behind = {}
    /\ pc' = "advance" /\ cur' = 0
    /\ next' = 0
    /\ UNCHANGED <<queueVars, tickVars, host, max_slice>>
Synced ==
    /\ pc = "sync" /\ Behind = {}
    /\ IF Delay(Furthest) > MinDelay THEN pc' = "delayed" /\ cur' = Furthest
                                     ELSE pc' = "advance" /\ cur' = 0
    /\ next' = 0
    /\ UNCHANGED <<queueVars, tickVars, host, max_slice>>

\* Advance ends, and the core gets a slice that brings it to the same time.  The
\* time of no core changes, so every core sees the same global time.
SyncEnds ==
    /\ pc = "syncFire" /\ ~Due(cur)
    /\ is_timer_sane' = [is_timer_sane EXCEPT ![cur] = FALSE]
    /\ slice_length' = [slice_length EXCEPT ![cur] = NextSlice(cur, Delay(cur))]
    /\ downcount' = [downcount EXCEPT ![cur] = NextSlice(cur, Delay(cur))]
    /\ pc' = "sync" /\ next' = cur + 1
    /\ UNCHANGED <<cur, max_slice>>
    /\ UNCHANGED <<queueVars, executed_ticks, host>>

AdvancePass ==
    /\ pc = "advance"
    /\ AdvanceBegins(cur)
    /\ pc' = "advanceFire"
    /\ UNCHANGED <<cur, next, max_slice>>

\* SetNextSlice for the core that runs next.
Start(c, max) ==
    /\ slice_length' = [slice_length EXCEPT ![c] = NextSlice(c, max)]
    /\ downcount' = [downcount EXCEPT ![c] = NextSlice(c, max)]

\* The longest slice is the shortest of all cores.
AdvanceEnds ==
    /\ pc = "advanceFire" /\ ~Due(cur)
    /\ is_timer_sane' = [is_timer_sane EXCEPT ![cur] = FALSE]
    /\ max_slice' = Min2(max_slice, GetMaxSliceLength(cur))
    /\ IF cur + 1 \in Core
       THEN pc' = "advance" /\ cur' = cur + 1 /\ UNCHANGED <<slice_length, downcount>>
       ELSE pc' = "run" /\ cur' = 0 /\ Start(0, max_slice')
    /\ UNCHANGED <<queueVars, executed_ticks, host, next>>

\* The loop of Advance: the callback schedules an event, unschedules one, or not.
Fire ==
    /\ pc \in {"syncFire", "advanceFire"} /\ Due(cur)
    /\ LET rest == event_queue[cur] \ {Front(event_queue[cur])}
       IN  \/ /\ event_queue' = [event_queue EXCEPT ![cur] = rest]
              /\ UNCHANGED event_fifo_id
           \/ \E id \in Ids, cycles \in Delays :
                /\ MayBeScheduled
                /\ event_queue' = [event_queue EXCEPT ![cur] = rest \cup
                       {[id |-> id, time |-> GetTicks(cur) + cycles,
                         fifo_order |-> event_fifo_id[cur], origin |-> "core"]}]
                /\ event_fifo_id' = [event_fifo_id EXCEPT ![cur] = @ + 1]
           \/ \E id \in Ids :
                /\ event_queue' = [c \in Core |->
                       {e \in (IF c = cur THEN rest ELSE event_queue[c]) : e.id # id}]
                /\ UNCHANGED event_fifo_id
    /\ UNCHANGED <<ts_queue, tickVars, host, loopVars>>

-------------------------------------------------------------------------------
(* What runs                                                               *)

Running == pc \in {"run", "delayed"}

\* The core executes instructions (AddTicks), or idles to the end of its slice.
AddTicks(ticks) ==
    /\ Running /\ downcount[cur] >= 0 /\ ticks <= downcount[cur] + Overshoot
    /\ GetTicks(cur) + ticks <= MaxTicks
    /\ downcount' = [downcount EXCEPT ![cur] = @ - ticks]
    /\ UNCHANGED <<queueVars, is_timer_sane, slice_length, executed_ticks, host, loopVars>>

Schedules(id, cycles) ==
    /\ Running /\ MayBeScheduled
    /\ ScheduleEvent(id, cycles)
    /\ UNCHANGED <<ts_queue, is_timer_sane, executed_ticks, host, loopVars>>

Unschedules(id) ==
    /\ Running
    /\ UnscheduleEvent(id)
    /\ UNCHANGED <<ts_queue, event_fifo_id, tickVars, host, loopVars>>

\* The core stops, at the end of its slice or to reschedule.  The next core may
\* run for as long as this one has.
RunEnds ==
    /\ Running
    /\ IF pc = "run" /\ cur + 1 \in Core
       THEN /\ max_slice' = slice_length[cur] - downcount[cur]
            /\ cur' = cur + 1 /\ UNCHANGED pc
            /\ Start(cur + 1, max_slice')
       ELSE /\ pc' = "sync" /\ max_slice' = MAX_SLICE_LENGTH
            /\ UNCHANGED <<cur, slice_length, downcount>>
    /\ UNCHANGED <<queueVars, is_timer_sane, executed_ticks, host, next>>

\* ScheduleEvent in thread safe mode, by another host thread: it reads the ticks
\* of a timer the emulation thread may be updating, so that it may see them off
\* by a slice ...
HostReadsOneSlice(c, id, cycles, ticks) ==
    /\ OneFromHosts /\ MayBeScheduled
    /\ host' = [core |-> c,
                event |-> [id |-> id, time |-> ticks + Max2(MAX_SLICE_LENGTH, cycles),
                           fifo_order |-> 0, origin |-> "host"]]
    /\ UNCHANGED <<queueVars, tickVars, loopVars>>
HostReads(c, id, cycles, ticks) ==
    /\ OneFromHosts /\ MayBeScheduled
    /\ host' = [core |-> c,
                event |-> [id |-> id, time |-> ticks + Max2(2 * MAX_SLICE_LENGTH, cycles),
                           fifo_order |-> 0, origin |-> "host"]]
    /\ UNCHANGED <<queueVars, tickVars, loopVars>>

\* ... and pushes the event.
HostPushes ==
    /\ host # NoEvent /\ MayBeScheduled
    /\ ts_queue' = [ts_queue EXCEPT ![host.core] = Append(@, host.event)]
    /\ host' = NoEvent
    /\ UNCHANGED <<event_queue, event_fifo_id, tickVars, loopVars>>

SeenTicks(c) == {GetTicks(c) + off : off \in Tears}

Next ==
    \/ \E c \in Core : SyncBegins(c)
    \/ SyncEnds \/ Synced \/ AdvancePass \/ AdvanceEnds \/ Fire
    \/ \E ticks \in 1 .. Drift + Overshoot : AddTicks(ticks)
    \/ \E id \in Ids, cycles \in Delays : Schedules(id, cycles)
    \/ \E id \in Ids : Unschedules(id)
    \/ RunEnds
    \/ \E c \in Core, id \in Ids, cycles \in Delays :
          \E ticks \in SeenTicks(c) : HostReads(c, id, cycles, ticks)
    \/ HostPushes

Spec == Init /\ [][Next]_vars

-------------------------------------------------------------------------------
(* Properties                                                              *)

\* No event waits in a heap for longer than a core may overshoot its slice, also
\* when it is scheduled into the current slice.  One from another host thread that
\* was not held up is late by a little more: the minimum of two slices is enough
\* (core_timing.cpp 77).
OnTime ==
    \A c \in Core : \A e \in event_queue[c] :
        /\ e.origin = "core" => GetTicks(c) - e.time <= Overshoot
        /\ e.origin = "host" => GetTicks(c) - e.time <= MinDelay + (NumCores + 1) * Overshoot

\* The cores stay together (core.cpp 188).
DriftBounded == \A c, d \in Core : GetTicks(c) - GetTicks(d) <= Drift

\* The time a core sees never goes back, although Advance, SetNextSlice and
\* ForceExceptionCheck move it between the fields it is computed from.
TicksMonotone == [][\A c \in Core : GetTicks(c)' >= GetTicks(c)]_vars
===============================================================================
