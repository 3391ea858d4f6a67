-------------------------------- MODULE PiBus --------------------------------
(***************************************************************************)
(* The other scripts of the Pi, one of them at a time on the bus, most with *)
(* closed_loop.py beside them as the plans of steps 1 and 4 have it: the    *)
(* step-4 demo, the telemetry check, the telemetry reader and the live view *)
(* of captured packets.  A second poller makes answers that closed_loop.py  *)
(* may read in place of its own.                                            *)
(***************************************************************************)
EXTENDS ClosedLoop, Sequences

CONSTANTS
    FLOOD_SRC, FLOOD_N,     \* of silicon_loop_demo.py
    STREAM, CMS_QUERIES,    \* of gen_telemetry_golden.py
    MaxRows                 \* bound: packets the viewer shows

ASSUME ToolAssumption ==
    /\ FLOOD_SRC \in Ip \ {ZeroIp}
    /\ STREAM \in Seq(Ip) /\ CMS_QUERIES \in Seq(Ip)
    /\ {FLOOD_N, MaxRows} \subseteq Nat \ {0} /\ FLOOD_N <= CountMax

VARIABLES
    tool,       \* the script
    at,         \* where it is: the transfer to come, or how it ended
    n,          \* frames of the flood or the plan sent; rows shown
    ok,         \* errs = 0
    total,      \* total_packets of the last completed window
    asked,      \* cand.total: what it was when the snapshot was asked for
    row,        \* the viewer's last row: its packet, the packet of its verdict
    stats,      \* Stats.total
    calm        \* history: an empty window at the start of the tool, and
                \* nobody else on the bus and no end of a window since

toolVars == <<tool, at, n, ok, total, asked, row, stats, calm>>
busVars == <<vars, toolVars>>

LoopRuns == pc \notin {"off", "epoch", "epoch_rx"}

(***************************************************************************)
(* Requests that PiDevice does not need                                     *)
(***************************************************************************)
Answered(body) ==
    answer' = body /\ UNCHANGED <<rules, epoch, sent, top, last, resets, everHot>>

\* The transfer of a point query brings back rx.
Query(key, rx) ==
    \/ Answered(CmsAnswer(key, Estimate(sent, key))) /\ rx = answer
    \/ Reset /\ rx \in Torn(answer)
Harmonic == Answered(HllAnswer) \/ Reset

\* total_packets of a window that ends
SumOf(tally) == MapThenSumSet(LAMBDA ip : tally[ip], Ip)

(***************************************************************************)
(* silicon_telemetry_check.py: the stream, then one query after the other   *)
(***************************************************************************)
\* cms_golden: the same stream into the twin.
Golden(key) ==
    LET tally == [ip \in Ip |-> AtMost(Cardinality({i \in DOMAIN STREAM : STREAM[i] = ip}), CountMax)]
    IN  Estimate(tally, key)

PlanLen == Len(STREAM) + 1 + 2 * Len(CMS_QUERIES)
Asks(k) == k > Len(STREAM) + 1 /\ k <= PlanLen /\ (k - Len(STREAM)) % 2 = 0
AskedKey(k) == CMS_QUERIES[(k - Len(STREAM)) \div 2]

PlanTransfer(k, rx) ==
    IF k <= Len(STREAM) THEN Receive(PacketFrame(STREAM[k]), rx)
    ELSE IF Asks(k) THEN Query(AskedKey(k), rx) ELSE Receive(FlushFrame, rx)

\* Mutant of Judged: the answer is looked for in the transfer of the query.
JudgedAtOnce(k, rx) ==
    Asks(k) => rx = CmsAnswer(AskedKey(k), Golden(AskedKey(k)))

\* Transfer k returns the answer to frame k - 1.
Judged(k, rx) ==
    Asks(k - 1) => rx = CmsAnswer(AskedKey(k - 1), Golden(AskedKey(k - 1)))

TelemetryCheck ==
    /\ tool = "telemetry_check" /\ n < PlanLen
    /\ \E rx \in Torn(answer) :
          PlanTransfer(n + 1, rx) /\ ok' = (ok /\ Judged(n + 1, rx))
    /\ n' = n + 1
    /\ calm' = IF n = 0 THEN sent = Silence ELSE calm
    /\ UNCHANGED <<tool, at, total, asked, row, stats>>

(***************************************************************************)
(* silicon_loop_demo.py                                                     *)
(***************************************************************************)
DemoGoes(to) == at' = to /\ UNCHANGED <<tool, ok, row, stats, calm>>

Flood ==
    /\ at = "flood"
    /\ IF n < FLOOD_N
       THEN /\ Transfer(PacketFrame(FLOOD_SRC))
            /\ n' = n + 1 /\ DemoGoes("flood")
       ELSE Transfer(FlushFrame) /\ DemoGoes("ask") /\ UNCHANGED n
    /\ UNCHANGED <<total, asked>>

DemoAsks ==
    /\ at = "ask"
    /\ Transfer(SnapFrame) /\ DemoGoes("read")
    /\ asked' = total
    /\ UNCHANGED <<n, total>>

\* Until the deadline: only a window that holds the whole flood will do.
DemoReads ==
    /\ at = "read"
    /\ \E rx \in Torn(answer) :
          /\ Receive(FlushFrame, rx)
          /\ LET cand == DecodedSnapshot(rx)
             IN  IF /\ IsResponse(rx)
                    /\ asked >= FLOOD_N /\ cand.key = FLOOD_SRC
                 THEN DemoGoes("push")
                 ELSE DemoGoes("ask") \/ DemoGoes("failed")
    /\ UNCHANGED <<n, total, asked>>

DemoPushes ==
    /\ at = "push"
    /\ Transfer(RuleFrame(FLOOD_SRC, 0)) /\ DemoGoes("ack")
    /\ UNCHANGED <<n, total, asked>>

DemoChecksAck ==
    /\ at = "ack"
    /\ \E rx \in Torn(answer) :
          /\ Receive(FlushFrame, rx)
          /\ DemoGoes(IF rx = Acked THEN "again" ELSE "failed")
    /\ UNCHANGED <<n, total, asked>>

DemoSends ==
    /\ at = "again"
    /\ Transfer(PacketFrame(FLOOD_SRC)) /\ DemoGoes("verdict")
    /\ UNCHANGED <<n, total, asked>>

\* Mutant of ShowsRule: any verdict will do.
ShowsVerdict(rx) == IsVerdict(rx)

ShowsRule(rx) == IsVerdict(rx) /\ rx.rule

DemoJudges ==
    /\ at = "verdict"
    /\ \E rx \in Torn(answer) :
          /\ Receive(FlushFrame, rx)
          /\ DemoGoes(IF ShowsRule(rx) THEN "passed" ELSE "failed")
    /\ UNCHANGED <<n, total, asked>>

LoopDemo == \/ Flood \/ DemoAsks \/ DemoReads \/ DemoPushes
            \/ DemoChecksAck \/ DemoSends \/ DemoJudges

(***************************************************************************)
(* read_telemetry.py and the viewers                                        *)
(***************************************************************************)
\* issue: a snapshot, or a point query or live HLL, of whose answer only the
\* magic means something to anybody else; then the flush that prints it.
Issue ==
    /\ tool = "read_telemetry"
    /\ \/ /\ at = "ask" /\ at' = "read"
          /\ Transfer(SnapFrame) \/ Harmonic
       \/ at = "read" /\ at' = "ask" /\ Transfer(FlushFrame)
    /\ UNCHANGED <<tool, n, ok, total, asked, row, stats, calm>>

\* Mutant of Tallied: what is no verdict counts too.
TalliedAll(rx) == stats + 1

\* Stats.update ignores what is not a verdict.
Tallied(rx) == IF IsVerdict(rx) THEN stats + 1 ELSE stats

\* run_live: the row shows the packet sent now with the verdict that came
\* back; what is not IPv4 is not sent.
Show(ip) ==
    /\ tool = "viewer" /\ n < MaxRows
    /\ \E rx \in Torn(answer) :
          /\ Receive(PacketFrame(ip), rx)
          /\ stats' = Tallied(rx)
          /\ row' = [src |-> ip, shows |-> IF IsVerdict(rx) THEN rx.src ELSE ZeroIp,
                     above |-> row.src]
    /\ n' = n + 1
    /\ calm' = IF n = 0 THEN TRUE ELSE calm
    /\ UNCHANGED <<tool, at, ok, total, asked>>

(***************************************************************************)
(* The bus                                                                  *)
(***************************************************************************)
BusInit ==
    /\ DeviceInit
    /\ rule_epoch = 0 /\ seen = {} /\ target = ZeroIp
    /\ \/ /\ pc = "epoch"
          /\ tool \in {"sender", "telemetry_check", "read_telemetry"}
       \/ pc = "off" /\ tool \in {"telemetry_check", "loop_demo", "viewer"}
    /\ at = IF tool = "loop_demo" THEN "flood" ELSE "ask"
    /\ n = 0 /\ ok = TRUE /\ total = 0 /\ asked = 0 /\ stats = 0 /\ calm = FALSE
    /\ row = [src |-> ZeroIp, shows |-> ZeroIp, above |-> ZeroIp]

\* closed_loop.py is started first, in the background.
ToolStep ==
    /\ LoopRuns \/ pc = "off"
    /\ \/ TelemetryCheck \/ Issue
       \/ tool = "loop_demo" /\ LoopDemo
       \/ \E ip \in Others : Show(ip)
    /\ UNCHANGED loopVars

Sender ==
    /\ tool = "sender"
    /\ \E ip \in Others : OtherSends(ip)
    /\ UNCHANGED toolVars

LoopStep == Step /\ calm' = FALSE
            /\ UNCHANGED <<tool, at, n, ok, total, asked, row, stats>>

BusTick ==
    /\ WindowTick /\ UNCHANGED loopVars
    /\ total' = IF tool = "loop_demo" THEN SumOf(sent) ELSE 0
    /\ calm' = FALSE
    /\ UNCHANGED <<tool, at, n, ok, asked, row, stats>>

BusReset == Reset /\ UNCHANGED <<loopVars, toolVars>>

BusNext == ToolStep \/ Sender \/ LoopStep \/ BusTick \/ BusReset

\* The loop goes on; and the others do not for ever get a frame between the
\* two transfers of every poll.
BusSpec == /\ BusInit /\ [][BusNext]_busVars
           /\ WF_busVars(LoopStep) /\ SF_busVars(PollUndisturbed /\ LoopStep)

(***************************************************************************)
(* Properties                                                               *)
(***************************************************************************)
\* silicon_telemetry_check.py: alone on a board that counts from an empty
\* window, and within that window, the check passes: the flush frames and
\* the one-frame lag do not disturb what it expects.
CalmCheckPasses ==
    tool = "telemetry_check" /\ n = PlanLen /\ calm /\ resets = 0 => ok

\* silicon_loop_demo.py: PASS means that the board blocks the source, though
\* the rule goes out with epoch 0 whatever the register holds.
DemoPassMeansBlocked == at = "passed" => Blocked(FLOOD_SRC)

\* packet_capture.py: "the 32 bytes read back carry the verdict for the
\* PREVIOUS frame".  A viewer alone shows in each row the verdict of the row
\* above, and counts every verdict but the last.
RowsLagByOne ==
    tool = "viewer" /\ n > 0 /\ resets = 0 =>
        stats = n - 1 /\ row.shows = row.above

=============================================================================
