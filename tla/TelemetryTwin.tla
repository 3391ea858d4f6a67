---------------------------- MODULE TelemetryTwin ----------------------------
(***************************************************************************)
(* telemetry_model.py over cms.py and hll.py: the twin telemetry.v claims   *)
(* to equal.  A packet updates sketch, HyperLogLog, total and top-1 at      *)
(* once, a window tick snapshots and clears at once, a point query answers  *)
(* at once.  Its callers never tick within an update.  An implementation    *)
(* whose timer may says so in lost, and nothing is promised until the next  *)
(* tick.                                                                    *)
(***************************************************************************)
EXTENDS NidsTypes

CONSTANTS
    Bank, CmsHash, CountMax, Register, HllHash, HllRank, Weight, TelEpochs,
    WindowMod

VARIABLES
    cell, epoch,            \* CountMin; both sketches tick together, so one
    reg, sum, zeros,        \* epoch serves the HyperLogLog too
    open,                   \* window_index, total_packets, top1_count, top1_key
    snapshot,               \* the last completed window (all zero: none yet)
    answer,                 \* the last point query's result
    lost                    \* the open window began within an update

twinVars == <<cell, epoch, reg, sum, zeros, open, snapshot, answer, lost>>

Smallest(S) == CHOOSE m \in S : \A n \in S : m <= n
EmptySum == Cardinality(Register) * Weight[0]

\* cms.py: a cell of another epoch counts 0; the estimate is the least bank.
CountOf(c) == IF c.epoch = epoch THEN c.count ELSE 0
CellOf(b, ip) == cell[b][CmsHash[b][ip]]
PointQuery(ip) == Smallest({CountOf(CellOf(b, ip)) : b \in Bank})
Bumped(b, ip) ==
    LET v == CountOf(CellOf(b, ip)) + 1
    IN  [epoch |-> epoch, count |-> IF v > CountMax THEN CountMax ELSE v]

\* hll.py: only a larger rank changes anything.
RankOf(g) == IF reg[g].epoch = epoch THEN reg[g].rank ELSE 0
HllUpdated(ip) ==
    LET g == HllHash[ip]
    IN  \/ /\ HllRank[ip] <= RankOf(g)
           /\ UNCHANGED <<reg, sum, zeros>>
        \/ /\ HllRank[ip] > RankOf(g)
           /\ reg' = [reg EXCEPT ![g] = [epoch |-> epoch, rank |-> HllRank[ip]]]
           /\ sum' = sum + Weight[HllRank[ip]] - Weight[RankOf(g)]
           /\ zeros' = IF RankOf(g) = 0 THEN zeros - 1 ELSE zeros

Update(ip) ==
    LET est == Smallest({Bumped(b, ip).count : b \in Bank})
        counted == [open EXCEPT !.total = @ + 1]
    IN  /\ ~lost
        /\ cell' = [b \in Bank |->
                      [cell[b] EXCEPT ![CmsHash[b][ip]] = Bumped(b, ip)]]
        /\ HllUpdated(ip)
        /\ open' = IF est > open.top_count
                   THEN [counted EXCEPT !.top_count = est, !.top_key = ip]
                   ELSE counted
        /\ UNCHANGED <<epoch, snapshot, answer, lost>>

Query(ip) ==
    /\ ~lost
    /\ answer' = PointQuery(ip)
    /\ UNCHANGED <<cell, epoch, reg, sum, zeros, open, snapshot, lost>>

WindowTick ==
    /\ snapshot' = [window |-> open.window, total |-> open.total, sum |-> sum,
                    zeros |-> zeros, top_count |-> open.top_count,
                    top_key |-> open.top_key]
    /\ epoch' = (epoch + 1) % TelEpochs
    /\ sum' = EmptySum /\ zeros' = Cardinality(Register)
    /\ open' = [window |-> (open.window + 1) % WindowMod, total |-> 0,
                top_count |-> 0, top_key |-> ZeroIp]
    /\ lost' = FALSE
    /\ UNCHANGED <<cell, reg, answer>>

\* A tick within an update, and all that comes until the next.
LosesTrack == lost'

Init ==
    /\ \A b \in Bank : \A c \in DOMAIN cell[b] : cell[b][c].count = 0
    /\ \A g \in Register : reg[g].rank = 0
    /\ epoch = 0 /\ sum = EmptySum /\ zeros = Cardinality(Register)
    /\ open = [window |-> 0, total |-> 0, top_count |-> 0, top_key |-> ZeroIp]
    /\ snapshot = [window |-> 0, total |-> 0, sum |-> sum, zeros |-> zeros,
                   top_count |-> 0, top_key |-> ZeroIp]
    /\ answer = 0 /\ lost = FALSE

Next == (\E ip \in Ip : Update(ip) \/ Query(ip)) \/ WindowTick \/ LosesTrack

Spec == Init /\ [][Next]_twinVars

=============================================================================
