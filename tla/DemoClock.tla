------------------------------ MODULE DemoClock ------------------------------
(***************************************************************************)
(* run_demo.py, demo/scenarios.py and the clock of demo/orchestrator.py's   *)
(* run_loop: which frame is due, what the dashboard calls it, and when the  *)
(* loop sends, sleeps and ends.  What the frames do to the board is         *)
(* Orchestrator's.  Time may pass between any two steps of the process, as  *)
(* much as it likes: a poll, a render or a busy Pi takes what it takes.     *)
(***************************************************************************)
EXTENDS Integers, Sequences

CONSTANTS
    Script,     \* default_schedule: the length of each step, and how many
                \* frames its generator yields before it is made anew
    Solo,       \* the step of --scenario without --duration: 60 s
    Options,    \* --scenario (or not) and --duration (or None)
    None,
    tick_interval,  \* 1 / fps
    Horizon     \* bound: where time stops

ScheduleStep == [duration_s : Nat, frames : Nat \ {0}]

ASSUME ClockAssumption ==
    /\ Script \in Seq(ScheduleStep) \ {<<>>}
    /\ Solo \in ScheduleStep
    /\ Options \subseteq [scenario : BOOLEAN, duration : Nat \cup {None}]
    /\ None \notin Nat
    /\ tick_interval \in Nat /\ Horizon \in Nat

VARIABLES
    args,       \* the options of this run
    now,        \* time.monotonic()
    loc,        \* the step to come
    start,      \* state.start_monotonic
    began,      \* start in Schedule.frames, taken at its first frame
    step, left, \* the step of the schedule; what its generator still holds
    label,      \* the step that state.scenario_name names
    next_tick,
    wake,       \* when the sleep is over
    sends       \* history: when the last two frames went out, 0 before

clockVars == <<args, now, loc, start, began, step, left, label, next_tick,
               wake, sends>>

NotYet == -1

\* args.duration or 60.0: a duration of 0 counts as none.
_build_schedule ==
    IF ~args.scenario THEN Script
    ELSE IF args.duration \in {None, 0} THEN <<Solo>>
    ELSE <<[Solo EXCEPT !.duration_s = args.duration]>>

Steps == DOMAIN _build_schedule

\* When step i ends, counted from the start of the schedule.
cum(i) ==
    LET f[k \in 0 .. i] == IF k = 0 THEN 0
                           ELSE f[k - 1] + _build_schedule[k].duration_s
    IN  f[i]
total_s == cum(Len(_build_schedule))

\* main: the script runs for its length, a pinned scenario without end_at.
duration_s ==
    IF args.duration # None THEN args.duration
    ELSE IF args.scenario THEN None ELSE total_s

\* Mutant of active_name: a step includes the moment it ends.
active_late(elapsed_s) ==
    LET on == {i \in Steps : elapsed_s <= cum(i)}
    IN  IF on = {} THEN Len(_build_schedule) ELSE CHOOSE i \in on : \A j \in on : i <= j

active_name(elapsed_s) ==
    LET on == {i \in Steps : elapsed_s < cum(i)}
    IN  IF on = {} THEN Len(_build_schedule) ELSE CHOOSE i \in on : \A j \in on : i <= j

Goes(to) == loc' = to /\ UNCHANGED <<args, now>>

(***************************************************************************)
(* run_loop, up to each look at the clock                                   *)
(***************************************************************************)
\* read_rule_epoch has taken its time; the frames are not asked for yet.
Start ==
    /\ loc = "start" /\ Goes("pace_from")
    /\ start' = now
    /\ UNCHANGED <<began, step, left, label, next_tick, wake, sends>>

PaceFrom ==
    /\ loc = "pace_from" /\ Goes("check")
    /\ next_tick' = now
    /\ UNCHANGED <<start, began, step, left, label, wake, sends>>

Check ==
    /\ loc = "check"
    /\ Goes(IF duration_s # None /\ now >= start + duration_s THEN "done" ELSE "pull")
    /\ UNCHANGED <<start, began, step, left, label, next_tick, wake, sends>>

\* The first next() runs Schedule.frames up to its first while.
Begin ==
    /\ loc = "pull" /\ began = NotYet /\ Goes("pull")
    /\ began' = now
    /\ UNCHANGED <<start, step, left, label, next_tick, wake, sends>>

\* Mutant of Yield: a generator that is exhausted is not made anew, and the
\* StopIteration goes up to run_loop.
YieldOnce ==
    /\ loc = "pull" /\ began # NotYet /\ now < began + cum(step)
    /\ Goes(IF left = 0 THEN "done" ELSE "label")
    /\ left' = IF left = 0 THEN left ELSE left - 1
    /\ UNCHANGED <<start, began, step, label, next_tick, wake, sends>>

Yield ==
    /\ loc = "pull" /\ began # NotYet /\ now < began + cum(step)
    /\ Goes("label")
    /\ left' = (IF left = 0 THEN _build_schedule[step].frames ELSE left) - 1
    /\ UNCHANGED <<start, began, step, label, next_tick, wake, sends>>

\* Mutant of NextStep: the schedule starts over.
NextStepWraps ==
    /\ loc = "pull" /\ began # NotYet /\ now >= began + cum(step)
    /\ Goes("pull")
    /\ step' = IF step = Len(_build_schedule) THEN 1 ELSE step + 1
    /\ left' = _build_schedule[step'].frames
    /\ UNCHANGED <<start, began, label, next_tick, wake, sends>>

\* The step is over: the next one, or StopIteration.
NextStep ==
    /\ loc = "pull" /\ began # NotYet /\ now >= began + cum(step)
    /\ IF step = Len(_build_schedule)
       THEN Goes("done") /\ UNCHANGED <<step, left>>
       ELSE Goes("pull") /\ step' = step + 1 /\ left' = _build_schedule[step + 1].frames
    /\ UNCHANGED <<start, began, label, next_tick, wake, sends>>

Label ==
    /\ loc = "label" /\ Goes("send")
    /\ label' = active_name(now - start)
    /\ UNCHANGED <<start, began, step, left, next_tick, wake, sends>>

\* The transfer; and every so often a poll, a push and a render after it.
Send ==
    /\ loc = "send" /\ Goes("pace")
    /\ sends' = <<sends[2], now>>
    /\ UNCHANGED <<start, began, step, left, label, next_tick, wake>>

\* Mutant of Pace: a slow frame is made up for by frames without a pause.
PaceAndCatchUp ==
    /\ loc = "pace"
    /\ next_tick' = next_tick + tick_interval
    /\ IF next_tick' > now
       THEN wake' = next_tick' /\ Goes("sleep")
       ELSE UNCHANGED wake /\ Goes("check")
    /\ UNCHANGED <<start, began, step, left, label, sends>>

\* delay = next_tick - monotonic(); without a tick_interval no pacing.
Pace ==
    /\ loc = "pace"
    /\ IF tick_interval = 0
       THEN Goes("check") /\ UNCHANGED <<next_tick, wake>>
       ELSE /\ next_tick' = next_tick + tick_interval
            /\ IF next_tick' > now
               THEN wake' = next_tick' /\ Goes("sleep")
               ELSE UNCHANGED wake /\ Goes("recover")
    /\ UNCHANGED <<start, began, step, left, label, sends>>

\* drift recovery on slow tick
Recover ==
    /\ loc = "recover" /\ Goes("check")
    /\ next_tick' = now
    /\ UNCHANGED <<start, began, step, left, label, wake, sends>>

\* time.sleep is never too short.
Wake ==
    /\ loc = "sleep" /\ now >= wake /\ Goes("check")
    /\ UNCHANGED <<start, began, step, left, label, next_tick, wake, sends>>

Process == \/ Start \/ PaceFrom \/ Check \/ Begin \/ Yield \/ NextStep
           \/ Label \/ Send \/ Pace \/ Recover \/ Wake

TimePasses ==
    /\ loc # "done"
    /\ now < Horizon \/ (loc = "sleep" /\ now < wake)
    /\ now' = now + 1
    /\ UNCHANGED <<args, loc, start, began, step, left, label, next_tick, wake, sends>>

ClockInit ==
    /\ args \in Options
    /\ now = 0 /\ loc = "start" /\ start = 0 /\ began = NotYet
    /\ step = 1 /\ left = _build_schedule[1].frames /\ label = 0
    /\ next_tick = 0 /\ wake = 0 /\ sends = <<NotYet, NotYet>>

ClockNext == Process \/ TimePasses

\* The process is not starved, and the clock does not stop.
ClockSpec == /\ ClockInit /\ [][ClockNext]_clockVars
             /\ WF_clockVars(Process) /\ WF_clockVars(TimePasses)

(***************************************************************************)
(* Properties                                                               *)
(***************************************************************************)
\* run_loop's pacing: of three frames in a row the last goes out at least
\* tick_interval after the first, however long polls, pushes and renders
\* take: a slow one is not made up for by a burst.
AtMostTwoPerInterval ==
    loc = "send" /\ sends[1] # NotYet => now >= sends[1] + tick_interval

\* The scenario a frame is recorded under is never one that was over when
\* the frame was made, though run_loop and Schedule.frames each start a
\* clock of their own; it may be a later one.
LabelNotBehind == loc = "send" => label >= step

\* Neither a generator that runs dry nor a slow frame ends the demo before
\* its schedule, or its --duration, is over.
EndsOnlyWhenOver ==
    loc = "done" =>
        now - start >= IF duration_s # None /\ duration_s < total_s
                       THEN duration_s ELSE total_s

\* A run that is given an end, by the script or by --duration, comes to it:
\* slow frames, generators made anew and the schedule's own clock put it off
\* by a frame at most and never for good.
RunEnds == duration_s # None ~> loc = "done"

\* What run_demo.py says of a scenario pinned without --duration: "pin one
\* scenario, run forever" (line 5).
PinnedRunsForever == duration_s = None => loc # "done"

=============================================================================
