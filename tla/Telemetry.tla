------------------------------ MODULE Telemetry ------------------------------
(***************************************************************************)
(* cms.v, hll.v and telemetry.v: a Count-Min sketch and a HyperLogLog over  *)
(* the source address, the tumbling-window timer, the snapshot latched at   *)
(* the window boundary and the top-1 tracker.  One step is one clk edge.    *)
(* Sketch cells carry a 4-bit epoch: one of another epoch reads as zero     *)
(* (lazy reset).  The hashes are constants; a column, bucket or rank is     *)
(* looked up from the latched address.                                      *)
(***************************************************************************)
EXTENDS NidsTypes

CONSTANTS
    Bank, Col, CmsHash,     \* banks, columns, [Bank -> [Ip -> Col]]
    CountMax,               \* saturation of the 14-bit counts
    Register, HllHash,      \* registers, [Ip -> Register]
    RankMax, HllRank,       \* 22, [Ip -> 1 .. RankMax]
    Weight,                 \* 2^(32 - rank), the harmonic term of a rank
    TelEpochs,              \* 2^4 epochs of both sketches
    WindowCycles,           \* clk cycles per window
    WindowMod               \* 2^16, the width of window_index

ASSUME TelAssumption ==
    /\ CmsHash \in [Bank -> [Ip -> Col]] /\ Bank # {}
    /\ HllHash \in [Ip -> Register] /\ IsFiniteSet(Register)
    /\ HllRank \in [Ip -> 1 .. RankMax]
    /\ Weight \in [0 .. RankMax -> Nat \ {0}] /\ Register # {}
    /\ {CountMax, RankMax, TelEpochs, WindowCycles, WindowMod}
         \subseteq Nat \ {0}

\* A larger rank weighs less, so the sum only falls within a window.
ASSUME WeightAssumption ==
    \A r, s \in 0 .. RankMax : r <= s => Weight[s] <= Weight[r]

VARIABLES
    cms_mem,    \* [Bank -> [Col -> cell]]
    cms,        \* phase, operation, read and scratch registers, outputs
    hll_mem,    \* [Register -> cell]
    hll,        \* phase, latched key, read register, harmonic sum, zeros
    tel,        \* window timer, top-1, total and index of the open window
    snap        \* the last completed window, as opcode 0x02 returns it

telVars == <<cms_mem, cms, hll_mem, hll, tel, snap>>

TelEpoch == 0 .. TelEpochs - 1
Count == 0 .. CountMax

\* m * 2^32: the sum with every register empty.
EmptySum == Cardinality(Register) * Weight[0]

\* The widths: zeros has one bit more than it needs for "all empty" (12 bits
\* for 2048), the sum five (48 bits for 2^43).
ZerosMod == 2 * Cardinality(Register)
SumMod == 32 * EmptySum

Sum == 0 .. SumMod - 1
Zeros == 0 .. ZerosMod - 1
Rank == 0 .. RankMax
WindowIndex == 0 .. WindowMod - 1
Timer == 0 .. WindowCycles - 1
CmsPhase == 0 .. 3
HllPhase == 0 .. 4
CmsCell == [epoch : TelEpoch, count : Count]
HllCell == [epoch : TelEpoch, rank : Rank]

CmsState == [phase : CmsPhase, upd : BOOLEAN, key : Ip, epoch : TelEpoch,
             r : [Bank -> CmsCell], s : [Bank -> Count], q_count : Count,
             q_done : BOOLEAN, upd_count : Count, upd_done : BOOLEAN]
HllState == [phase : HllPhase, key : Ip, epoch : TelEpoch, rword : HllCell,
             sum : Sum, zeros : Zeros]
WindowState == [wcnt : Timer, tick : BOOLEAN, key : Ip, window : WindowIndex,
                total : Nat, top_count : Count, top_key : Ip]
Snapshot == [window : WindowIndex, total : Nat, sum : Sum, zeros : Zeros,
             top_count : Count, top_key : Ip]

TelTypeOK ==
    /\ cms_mem \in [Bank -> [Col -> CmsCell]]
    /\ cms \in CmsState
    /\ hll_mem \in [Register -> HllCell]
    /\ hll \in HllState
    /\ tel \in WindowState
    /\ snap \in Snapshot

NoCell == [epoch |-> 0, count |-> 0]
NoRank == [epoch |-> 0, rank |-> 0]

\* The state after btnC: before the first press wcnt and the snapshot hold no
\* value telemetry.v gives them.
TelInit ==
    /\ cms_mem = [b \in Bank |-> [c \in Col |-> NoCell]]
    /\ cms = [phase |-> 0, upd |-> FALSE, key |-> ZeroIp, epoch |-> 0,
              r |-> [b \in Bank |-> NoCell], s |-> [b \in Bank |-> 0],
              q_count |-> 0, q_done |-> FALSE, upd_count |-> 0,
              upd_done |-> FALSE]
    /\ hll_mem = [g \in Register |-> NoRank]
    /\ hll = [phase |-> 0, key |-> ZeroIp, epoch |-> 0, rword |-> NoRank,
              sum |-> EmptySum, zeros |-> Cardinality(Register)]
    /\ tel = [wcnt |-> WindowCycles - 1, tick |-> FALSE, key |-> ZeroIp,
              window |-> 0, total |-> 0, top_count |-> 0, top_key |-> ZeroIp]
    /\ snap = [window |-> 0, total |-> 0, sum |-> EmptySum,
               zeros |-> Cardinality(Register), top_count |-> 0,
               top_key |-> ZeroIp]

(***************************************************************************)
(* cms.v                                                                    *)
(***************************************************************************)
NextTelEpoch(e, tick) == IF tick THEN (e + 1) % TelEpochs ELSE e

\* Mutant of Eff: the epoch of a cell is not compared.
AnyEff(cell) == cell.count

\* The count a cell stands for, in the epoch of this cycle.
Eff(cell) == IF cell.epoch = cms.epoch THEN cell.count ELSE 0

\* Mutants of Inc: the count wraps; it goes on.
WrapInc(v) == IF v = CountMax THEN 0 ELSE v + 1
OverInc(v) == v + 1

Inc(v) == IF v = CountMax THEN CountMax ELSE v + 1
Least(S) == CHOOSE m \in S : \A n \in S : m <= n
LeastScratch == Least({cms.s[b] : b \in Bank})

\* Every edge outside reset: the done pulses end, the banks are read at the
\* registered columns, and a tick advances the epoch in whatever phase.
CmsDefault(tick) ==
    [cms EXCEPT !.q_done = FALSE, !.upd_done = FALSE,
                !.epoch = NextTelEpoch(cms.epoch, tick),
                !.r = [b \in Bank |-> cms_mem[b][CmsHash[b][cms.key]]]]

CmsReset ==
    /\ cms' = [CmsDefault(FALSE) EXCEPT !.phase = 0, !.epoch = 0, !.q_count = 0]
    /\ UNCHANGED cms_mem

\* Mutant of CmsStart: no cycle for the block RAM.
HastyCmsStart(upd, ip, q, q_ip, tick) ==
    /\ cms.phase = 0
    /\ cms' = IF upd \/ q
              THEN [CmsDefault(tick) EXCEPT !.phase = 2, !.upd = upd,
                       !.key = IF upd THEN ip ELSE q_ip]
              ELSE CmsDefault(tick)
    /\ UNCHANGED cms_mem

\* Phase 0: an update wins over a query.
CmsStart(upd, ip, q, q_ip, tick) ==
    /\ cms.phase = 0
    /\ cms' = IF upd \/ q
              THEN [CmsDefault(tick) EXCEPT !.phase = 1, !.upd = upd,
                       !.key = IF upd THEN ip ELSE q_ip]
              ELSE CmsDefault(tick)
    /\ UNCHANGED cms_mem

CmsWait(tick) ==
    /\ cms.phase = 1
    /\ cms' = [CmsDefault(tick) EXCEPT !.phase = 2]
    /\ UNCHANGED cms_mem

\* Phase 2: write the incremented counts under the epoch of this cycle.
CmsReadModifyWrite(tick) ==
    LET s == [b \in Bank |-> IF cms.upd THEN Inc(Eff(cms.r[b]))
                                        ELSE Eff(cms.r[b])]
    IN  /\ cms.phase = 2
        /\ cms_mem' = IF cms.upd
              THEN [b \in Bank |-> [cms_mem[b] EXCEPT ![CmsHash[b][cms.key]] =
                       [epoch |-> cms.epoch, count |-> s[b]]]]
              ELSE cms_mem
        /\ cms' = [CmsDefault(tick) EXCEPT !.phase = 3, !.s = s]

\* Phase 3: the minimum over the banks, to whichever output asked for it.
CmsFinish(tick) ==
    /\ cms.phase = 3
    /\ cms' = IF cms.upd
              THEN [CmsDefault(tick) EXCEPT !.phase = 0, !.upd_done = TRUE,
                                            !.upd_count = LeastScratch]
              ELSE [CmsDefault(tick) EXCEPT !.phase = 0, !.q_done = TRUE,
                                            !.q_count = LeastScratch]
    /\ UNCHANGED cms_mem

CmsClock(rst, upd, ip, q, q_ip, tick) ==
    \/ rst /\ CmsReset
    \/ ~rst /\ (CmsStart(upd, ip, q, q_ip, tick) \/ CmsWait(tick)
                \/ CmsReadModifyWrite(tick) \/ CmsFinish(tick))

(***************************************************************************)
(* hll.v                                                                    *)
(***************************************************************************)
\* Every edge outside reset.  A tick resets sum and zeros; an assignment of
\* phase 4 in the same edge comes later in the block and wins over it.
HllDefault(tick) ==
    [hll EXCEPT !.epoch = NextTelEpoch(hll.epoch, tick),
                !.rword = hll_mem[HllHash[hll.key]],
                !.sum = IF tick THEN EmptySum ELSE hll.sum,
                !.zeros = IF tick THEN Cardinality(Register) ELSE hll.zeros]

HllReset ==
    /\ hll' = [HllDefault(TRUE) EXCEPT !.phase = 0, !.epoch = 0]
    /\ UNCHANGED hll_mem

HllStart(upd, ip, tick) ==
    /\ hll.phase = 0
    /\ hll' = IF upd THEN [HllDefault(tick) EXCEPT !.phase = 1, !.key = ip]
                     ELSE HllDefault(tick)
    /\ UNCHANGED hll_mem

\* Phases 1 to 3: the two hash multiplies and the read latency.
HllHashing(tick) ==
    /\ hll.phase \in 1 .. 3
    /\ hll' = [HllDefault(tick) EXCEPT !.phase = hll.phase + 1]
    /\ UNCHANGED hll_mem

\* Phase 4: a larger rank replaces the old one and moves sum and zeros.
HllUpdate(tick) ==
    LET old == IF hll.rword.epoch = hll.epoch THEN hll.rword.rank ELSE 0
        new == HllRank[hll.key]
        done == [HllDefault(tick) EXCEPT !.phase = 0]
    IN  /\ hll.phase = 4
        /\ \/ /\ new <= old
              /\ hll' = done
              /\ UNCHANGED hll_mem
           \/ /\ new > old
              /\ hll' = [done EXCEPT !.sum = (hll.sum + Weight[new] - Weight[old]) % SumMod,
                            !.zeros = IF old = 0
                                     THEN (hll.zeros - 1) % ZerosMod
                                     ELSE done.zeros]
              /\ hll_mem' = [hll_mem EXCEPT ![HllHash[hll.key]] =
                                [epoch |-> hll.epoch, rank |-> new]]

HllClock(rst, upd, ip, tick) ==
    \/ rst /\ HllReset
    \/ ~rst /\ (HllStart(upd, ip, tick) \/ HllHashing(tick) \/ HllUpdate(tick))

(***************************************************************************)
(* telemetry.v                                                              *)
(***************************************************************************)
\* Mutant of TelDefault: the key is latched in the open window only.
GatedTelDefault(rst, upd, ip) ==
    [tel EXCEPT !.tick = ~rst /\ tel.wcnt = 0,
                !.wcnt = IF rst \/ tel.wcnt = 0 THEN WindowCycles - 1
                                                ELSE tel.wcnt - 1,
                !.key = IF upd /\ ~tel.tick THEN ip ELSE tel.key]

\* The window timer and the key held for the top-1 run in every cycle.
TelDefault(rst, upd, ip) ==
    [tel EXCEPT !.tick = ~rst /\ tel.wcnt = 0,
                !.wcnt = IF rst \/ tel.wcnt = 0 THEN WindowCycles - 1
                                                ELSE tel.wcnt - 1,
                !.key = IF upd THEN ip ELSE tel.key]

WindowReset(upd, ip) ==
    /\ tel' = [TelDefault(TRUE, upd, ip) EXCEPT !.window = 0, !.total = 0,
                                      !.top_count = 0, !.top_key = ZeroIp]
    /\ snap' = [window |-> 0, total |-> 0, sum |-> EmptySum,
                zeros |-> Cardinality(Register), top_count |-> 0,
                top_key |-> ZeroIp]

\* The boundary has priority: a packet or a finished count on this very edge
\* is in neither window.
WindowBoundary(upd, ip) ==
    /\ tel.tick
    /\ snap' = [window |-> tel.window, total |-> tel.total, sum |-> hll.sum,
                zeros |-> hll.zeros, top_count |-> tel.top_count,
                top_key |-> tel.top_key]
    /\ tel' = [TelDefault(FALSE, upd, ip) EXCEPT !.window = (tel.window + 1) % WindowMod,
                  !.total = 0, !.top_count = 0, !.top_key = ZeroIp]

\* Within a window: count the packet, promote a strictly larger estimate.
WindowOpen(upd, ip) ==
    LET promote == cms.upd_done /\ cms.upd_count > tel.top_count
    IN  /\ ~tel.tick
        /\ tel' = [TelDefault(FALSE, upd, ip) EXCEPT
                      !.total = IF upd THEN tel.total + 1 ELSE tel.total,
                      !.top_count = IF promote THEN cms.upd_count
                                               ELSE tel.top_count,
                      !.top_key = IF promote THEN tel.key ELSE tel.top_key]
        /\ UNCHANGED snap

\* One clock edge of the three: upd with ip counts a packet, q with q_ip asks.
TelClock(rst, upd, ip, q, q_ip) ==
    /\ CmsClock(rst, upd, ip, q, q_ip, tel.tick)
    /\ HllClock(rst, upd, ip, tel.tick)
    /\ \/ rst /\ WindowReset(upd, ip)
       \/ ~rst /\ (WindowBoundary(upd, ip) \/ WindowOpen(upd, ip))

=============================================================================
