--------------------------- MODULE TelemetryStream ---------------------------
(***************************************************************************)
(* Telemetry under the stream nids_top feeds it: classify frames and point  *)
(* queries arrive at least TelGap cycles apart, the window timer runs on    *)
(* its own.  Nothing in nids_top keeps the timer from firing while a frame  *)
(* is in the pipeline: such a tick parts the frame between two windows, and *)
(* synced says whether the open window is free of that.                     *)
(***************************************************************************)
EXTENDS Telemetry

CONSTANTS
    TelGap,         \* least cycles between two frames
    MaxWindows      \* bound: windows in which frames still come; 0 for none

\* Cycles after which a frame is in no pipeline register: four phases of
\* cms, the done pulse and the top-1 edge.
PipeLen == 5

\* A frame of 21 bytes or more over SPI takes far longer than that.
ASSUME StreamAssumption ==
    /\ {TelGap, MaxWindows} \subseteq Nat
    /\ TelGap >= PipeLen

VARIABLES
    age,        \* cycles since the last frame, at most TelGap
    windows,    \* window ticks so far, at most MaxWindows
    exact,      \* history: packets of each source since the tick
    synced,     \* history: the tick that opened the window met no frame
    drained     \* history: the state when the pipelines were last idle

streamVars == <<telVars, age, windows, exact, synced, drained>>

Observed == [cell |-> cms_mem, epoch |-> cms.epoch, reg |-> hll_mem,
             sum |-> hll.sum, zeros |-> hll.zeros,
             open |-> [window |-> tel.window, total |-> tel.total,
                       top_count |-> tel.top_count, top_key |-> tel.top_key],
             snapshot |-> snap, answer |-> cms.q_count]

InFlight == age < PipeLen

MayArrive ==
    /\ age = TelGap
    /\ MaxWindows > 0 => windows < MaxWindows

Bookkeeping(arrived) ==
    /\ age' = IF arrived THEN 0 ELSE IF age < TelGap THEN age + 1 ELSE age
    /\ windows' = IF tel.tick /\ windows < MaxWindows THEN windows + 1
                                                      ELSE windows
    /\ synced' = IF tel.tick THEN ~(arrived \/ InFlight) ELSE synced
    /\ drained' = IF age' >= PipeLen THEN Observed' ELSE drained

Counted(ip) == IF exact[ip] = CountMax THEN CountMax ELSE exact[ip] + 1

PacketArrives(ip) ==
    /\ MayArrive
    /\ TelClock(FALSE, TRUE, ip, FALSE, ip)
    /\ Bookkeeping(TRUE)
    /\ exact' = IF tel.tick THEN [[i \in Ip |-> 0] EXCEPT ![ip] = 1]
                            ELSE [exact EXCEPT ![ip] = Counted(ip)]

QueryArrives(ip) ==
    /\ MayArrive
    /\ TelClock(FALSE, FALSE, ip, TRUE, ip)
    /\ Bookkeeping(TRUE)
    /\ exact' = IF tel.tick THEN [i \in Ip |-> 0] ELSE exact

NoFrameArrives ==
    /\ TelClock(FALSE, FALSE, ZeroIp, FALSE, ZeroIp)
    /\ Bookkeeping(FALSE)
    /\ exact' = IF tel.tick THEN [i \in Ip |-> 0] ELSE exact

Init ==
    /\ TelInit
    /\ age = TelGap /\ windows = 0
    /\ exact = [i \in Ip |-> 0]
    /\ synced = TRUE /\ drained = Observed

Next == \/ \E ip \in Ip : PacketArrives(ip) \/ QueryArrives(ip)
        \/ NoFrameArrives

Spec == Init /\ [][Next]_streamVars

(***************************************************************************)
(* Properties                                                               *)
(***************************************************************************)
T == INSTANCE TelemetryTwin WITH
       cell <- drained.cell, epoch <- drained.epoch, reg <- drained.reg,
       sum <- drained.sum, zeros <- drained.zeros, open <- drained.open,
       snapshot <- drained.snapshot, answer <- drained.answer,
       lost <- ~synced

\* Seen between frames, telemetry.v moves as telemetry_model.py does: one
\* packet, one query or one window tick at a time.  A tick that meets a frame
\* takes it off its twin for the window it opens and no longer: the next tick
\* between two frames closes that window as the twin would, with whatever it
\* has come to hold, and clears everything.
ImplementsTwin == T!Spec

\* The Count-Min estimate never misses a packet of the open window, wherever
\* the ticks fall and whatever epoch an old cell carries: it may be too
\* large, a heavy source is never reported lighter than it is.
NeverUndercounts ==
    ~InFlight => \A ip \in Ip :
        LET est == Least({Eff(cms_mem[b][CmsHash[b][ip]]) : b \in Bank})
        IN  est >= exact[ip]

=============================================================================
