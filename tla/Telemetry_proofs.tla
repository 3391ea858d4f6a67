--------------------------- MODULE Telemetry_proofs ---------------------------
(***************************************************************************)
(* Every clock edge keeps the registers of cms.v, hll.v and telemetry.v     *)
(* within their widths, through saturation, modular sums and window ticks   *)
(* that fall in any phase.                                                  *)
(***************************************************************************)
EXTENDS Telemetry, FiniteSetTheorems, TLAPS

\* A nonempty set of naturals has a least element: the sets {0 .. m} of its
\* members m are well-founded under strict inclusion.
LEMMA LeastExists ==
    ASSUME NEW S \in SUBSET Nat, S # {}
    PROVE  \E m \in S : \A n \in S : m <= n
<1> PICK k \in S : TRUE
  OBVIOUS
<1> DEFINE Below(m) == 0 .. m
           T == {Below(m) : m \in S}
<1>1. IsWellFoundedOn(StrictSubsetOrdering(Nat), FiniteSubsetsOf(Nat))
  BY FS_StrictSubsetOrderingWellFounded
<1>2. T \subseteq FiniteSubsetsOf(Nat) /\ T # {}
  <2>1. \A m \in S : IsFiniteSet(Below(m)) /\ Below(m) \in SUBSET Nat
    BY FS_Interval
  <2> HIDE DEF Below
  <2> QED
    BY <2>1 DEF FiniteSubsetsOf
<1>3. PICK x \in T : \A y \in T : ~(<<y, x>> \in StrictSubsetOrdering(Nat))
  BY <1>1, <1>2, WFMin
<1>4. PICK m \in S : x = Below(m)
  OBVIOUS
<1>5. ASSUME NEW n \in S, ~(m <= n) PROVE FALSE
  <2>1. n < m /\ Below(n) \subseteq Below(m) /\ m \in Below(m) /\ m \notin Below(n)
    BY <1>5
  <2>2. <<Below(n), x>> \in StrictSubsetOrdering(Nat)
    BY <2>1, <1>4 DEF StrictSubsetOrdering
  <2> QED
    BY <1>3, <2>2
<1> QED
  BY <1>5

(***************************************************************************)
(* cms.v                                                                    *)
(***************************************************************************)
LEMMA CountFacts ==
    /\ 0 \in Count /\ 0 \in TelEpoch /\ {0, 1, 2, 3} \subseteq CmsPhase
    /\ \A v \in Count : Inc(v) \in Count
    /\ \A e \in TelEpoch : \A t \in BOOLEAN : NextTelEpoch(e, t) \in TelEpoch
<1>1. 0 \in Count /\ 0 \in TelEpoch /\ {0, 1, 2, 3} \subseteq CmsPhase
  BY TelAssumption DEF Count, TelEpoch, CmsPhase
<1>2. \A v \in Count : Inc(v) \in Count
  BY TelAssumption DEF Count, Inc
<1>3. \A e \in TelEpoch : (e + 1) % TelEpochs \in TelEpoch
  BY TelAssumption DEF TelEpoch
<1> QED
  BY <1>1, <1>2, <1>3 DEF NextTelEpoch

\* The estimate, the least of the scratch counts, is a count.
LEMMA LeastScratchType == ASSUME cms \in CmsState PROVE LeastScratch \in Count
<1> DEFINE S == {cms.s[b] : b \in Bank}
<1>1. S \subseteq Count /\ S # {} /\ Count \subseteq Nat
  BY TelAssumption DEF CmsState, Count
<1>2. \E m \in S : \A n \in S : m <= n
  BY <1>1, LeastExists
<1> HIDE DEF S
<1>3. Least(S) \in S
  BY <1>2 DEF Least
<1> QED
  BY <1>1, <1>3 DEF LeastScratch, S

\* One edge of the Count-Min sketch.
LEMMA CmsStep ==
    ASSUME TelTypeOK, NEW r \in BOOLEAN, NEW upd \in BOOLEAN, NEW ip \in Ip,
           NEW q \in BOOLEAN, NEW q_ip \in Ip, NEW tick \in BOOLEAN,
           CmsClock(r, upd, ip, q, q_ip, tick)
    PROVE  cms' \in CmsState /\ cms_mem' \in [Bank -> [Col -> CmsCell]]
<1>1. /\ cms \in CmsState /\ cms_mem \in [Bank -> [Col -> CmsCell]]
      /\ cms.key \in Ip /\ \A b \in Bank : CmsHash[b][cms.key] \in Col
  BY TelAssumption DEF TelTypeOK, CmsState
<1>2. \A t \in BOOLEAN : CmsDefault(t) \in CmsState
  <2> SUFFICES ASSUME NEW t \in BOOLEAN PROVE CmsDefault(t) \in CmsState
    OBVIOUS
  <2>1. [b \in Bank |-> cms_mem[b][CmsHash[b][cms.key]]] \in [Bank -> CmsCell]
    BY <1>1
  <2>2. NextTelEpoch(cms.epoch, t) \in TelEpoch
    BY <1>1, CountFacts DEF CmsState
  <2> QED
    BY <1>1, <2>1, <2>2 DEF CmsDefault, CmsState
<1>3. LeastScratch \in Count
  BY <1>1, LeastScratchType
<1>4. CASE CmsReset
  BY <1>1, <1>2, <1>4, CountFacts DEF CmsReset, CmsState
<1>5. CASE CmsStart(upd, ip, q, q_ip, tick)
  <2>1. PICK d \in CmsState : d = CmsDefault(tick)
    BY <1>2
  <2>2. PICK k \in Ip : k = IF upd THEN ip ELSE q_ip
    OBVIOUS
  <2>3. cms' = IF upd \/ q THEN [d EXCEPT !.phase = 1, !.upd = upd, !.key = k] ELSE d
    BY <1>5, <2>1, <2>2 DEF CmsStart
  <2>4. [d EXCEPT !.phase = 1, !.upd = upd, !.key = k] \in CmsState
    BY <2>1, <2>2, CountFacts DEF CmsState
  <2>5. cms' \in CmsState
    BY <2>1, <2>3, <2>4
  <2> QED
    BY <1>1, <1>5, <2>5 DEF CmsStart
<1>6. CASE CmsWait(tick)
  <2>1. PICK d \in CmsState : d = CmsDefault(tick)
    BY <1>2
  <2>2. cms' = [d EXCEPT !.phase = 2]
    BY <1>6, <2>1 DEF CmsWait
  <2>3. cms' \in CmsState
    BY <2>1, <2>2, CountFacts DEF CmsState
  <2> QED
    BY <1>1, <1>6, <2>3 DEF CmsWait
<1>7. CASE CmsReadModifyWrite(tick)
  <2> DEFINE s == [b \in Bank |-> IF cms.upd THEN Inc(Eff(cms.r[b]))
                                             ELSE Eff(cms.r[b])]
  <2>1. \A b \in Bank : Eff(cms.r[b]) \in Count
    BY <1>1, CountFacts DEF Eff, CmsState, CmsCell
  <2>2. s \in [Bank -> Count]
    BY <2>1, CountFacts
  <2>3. \A b \in Bank : [epoch |-> cms.epoch, count |-> s[b]] \in CmsCell
    BY <1>1, <2>2 DEF CmsState, CmsCell
  <2>4. /\ cms' = [CmsDefault(tick) EXCEPT !.phase = 3, !.s = s]
        /\ cms_mem' = IF cms.upd
             THEN [b \in Bank |-> [cms_mem[b] EXCEPT ![CmsHash[b][cms.key]] =
                      [epoch |-> cms.epoch, count |-> s[b]]]]
             ELSE cms_mem
    BY <1>7 DEF CmsReadModifyWrite
  <2> HIDE DEF s
  <2>5. cms_mem' \in [Bank -> [Col -> CmsCell]]
    BY <1>1, <2>3, <2>4
  <2> QED
    BY <1>2, <2>2, <2>4, <2>5, CountFacts DEF CmsState
<1>8. CASE CmsFinish(tick)
  BY <1>1, <1>2, <1>3, <1>8, CountFacts DEF CmsFinish, CmsState
<1> QED
  BY <1>4, <1>5, <1>6, <1>7, <1>8 DEF CmsClock

(***************************************************************************)
(* hll.v                                                                    *)
(***************************************************************************)
LEMMA WidthFacts ==
    /\ EmptySum \in Sum /\ Cardinality(Register) \in Zeros
    /\ 0 \in Rank /\ {0, 1, 2, 3, 4} \subseteq HllPhase
    /\ \A n \in Int : n % SumMod \in Sum /\ n % ZerosMod \in Zeros
<1>1. Cardinality(Register) \in Nat \ {0}
  BY TelAssumption, FS_CardinalityType, FS_EmptySet
<1>2. Weight[0] \in Nat \ {0}
  <2>1. RankMax \in Nat /\ 0 \in 0 .. RankMax
    BY TelAssumption
  <2> QED
    BY <2>1, TelAssumption
<1>3. EmptySum \in Nat \ {0}
  BY <1>1, <1>2 DEF EmptySum
<1>4. EmptySum \in Sum /\ SumMod \in Nat \ {0}
  BY <1>3 DEF Sum, SumMod
<1>5. Cardinality(Register) \in Zeros /\ ZerosMod \in Nat \ {0}
  BY <1>1 DEF Zeros, ZerosMod
<1>6. 0 \in Rank /\ {0, 1, 2, 3, 4} \subseteq HllPhase
  BY TelAssumption DEF Rank, HllPhase
<1>7. \A n \in Int : n % SumMod \in Sum /\ n % ZerosMod \in Zeros
  BY <1>4, <1>5 DEF Sum, Zeros
<1> QED
  BY <1>4, <1>5, <1>6, <1>7

\* One edge of the HyperLogLog.
LEMMA HllStep ==
    ASSUME TelTypeOK, NEW r \in BOOLEAN, NEW upd \in BOOLEAN, NEW ip \in Ip,
           NEW tick \in BOOLEAN, HllClock(r, upd, ip, tick)
    PROVE  hll' \in HllState /\ hll_mem' \in [Register -> HllCell]
<1>1. /\ hll \in HllState /\ hll_mem \in [Register -> HllCell]
      /\ hll.key \in Ip /\ HllHash[hll.key] \in Register
      /\ HllRank[hll.key] \in Rank
  BY TelAssumption DEF TelTypeOK, HllState, Rank
<1>2. \A t \in BOOLEAN : HllDefault(t) \in HllState
  <2> SUFFICES ASSUME NEW t \in BOOLEAN PROVE HllDefault(t) \in HllState
    OBVIOUS
  <2>1. NextTelEpoch(hll.epoch, t) \in TelEpoch
    BY <1>1, CountFacts DEF HllState
  <2> QED
    BY <1>1, <2>1, WidthFacts DEF HllDefault, HllState
<1>3. CASE HllReset
  BY <1>1, <1>2, <1>3, WidthFacts, CountFacts DEF HllReset, HllState
<1>4. CASE HllStart(upd, ip, tick)
  BY <1>1, <1>2, <1>4, WidthFacts DEF HllStart, HllState
<1>5. CASE HllHashing(tick)
  <2>1. hll.phase + 1 \in HllPhase
    BY <1>5 DEF HllHashing, HllPhase
  <2> QED
    BY <1>1, <1>2, <1>5, <2>1 DEF HllHashing, HllState
<1>6. CASE HllUpdate(tick)
  <2> DEFINE old == IF hll.rword.epoch = hll.epoch THEN hll.rword.rank ELSE 0
             new == HllRank[hll.key]
             done == [HllDefault(tick) EXCEPT !.phase = 0]
             sum == (hll.sum + Weight[new] - Weight[old]) % SumMod
             zeros == IF old = 0 THEN (hll.zeros - 1) % ZerosMod ELSE done.zeros
  <2>1. done \in HllState
    BY <1>2, WidthFacts DEF HllState
  <2>2. old \in Rank
    BY <1>1, WidthFacts DEF HllState, HllCell
  <2>3. sum \in Sum
    <3>1. Weight[new] \in Int /\ Weight[old] \in Int /\ hll.sum \in Int
      BY <1>1, <2>2, TelAssumption DEF Rank, HllState, Sum
    <3> HIDE DEF old, new
    <3> QED
      BY <3>1, WidthFacts
  <2>4. zeros \in Zeros
    <3>1. hll.zeros - 1 \in Int /\ done.zeros \in Zeros
      BY <1>1, <2>1 DEF HllState, Zeros
    <3> HIDE DEF done
    <3> QED
      BY <3>1, WidthFacts
  <2>5. [epoch |-> hll.epoch, rank |-> new] \in HllCell
    BY <1>1 DEF HllState, HllCell
  <2>6. \/ hll' = done /\ hll_mem' = hll_mem
        \/ /\ hll' = [done EXCEPT !.sum = sum, !.zeros = zeros]
           /\ hll_mem' = [hll_mem EXCEPT ![HllHash[hll.key]] =
                             [epoch |-> hll.epoch, rank |-> new]]
    BY <1>6 DEF HllUpdate
  <2> HIDE DEF old, new, done, sum, zeros
  <2>7. [done EXCEPT !.sum = sum, !.zeros = zeros] \in HllState
    BY <2>1, <2>3, <2>4 DEF HllState
  <2> QED
    BY <1>1, <2>1, <2>5, <2>6, <2>7
<1> QED
  BY <1>3, <1>4, <1>5, <1>6 DEF HllClock

(***************************************************************************)
(* telemetry.v                                                              *)
(***************************************************************************)
LEMMA TelInitType == ASSUME TelInit PROVE TelTypeOK
<1>1. NoCell \in CmsCell /\ NoRank \in HllCell /\ 0 \in CmsPhase /\ 0 \in HllPhase
  BY CountFacts, WidthFacts DEF NoCell, NoRank, CmsCell, HllCell
<1>2. 0 \in WindowIndex /\ WindowCycles - 1 \in Timer
  BY TelAssumption DEF WindowIndex, Timer
<1>3. cms \in CmsState
  BY <1>1, CountFacts, IpAssumption DEF TelInit, CmsState
<1>4. hll \in HllState
  BY <1>1, CountFacts, WidthFacts, IpAssumption DEF TelInit, HllState
<1>5. tel \in WindowState
  BY <1>2, CountFacts, IpAssumption DEF TelInit, WindowState
<1>6. snap \in Snapshot
  BY <1>2, CountFacts, WidthFacts, IpAssumption DEF TelInit, Snapshot
<1> QED
  BY <1>1, <1>3, <1>4, <1>5, <1>6 DEF TelInit, TelTypeOK

\* One edge of sketch, HyperLogLog, timer, snapshot and top-1.
LEMMA TelStep ==
    ASSUME TelTypeOK, NEW r \in BOOLEAN, NEW upd \in BOOLEAN, NEW ip \in Ip,
           NEW q \in BOOLEAN, NEW q_ip \in Ip, TelClock(r, upd, ip, q, q_ip)
    PROVE  TelTypeOK'
<1>1. tel \in WindowState /\ snap \in Snapshot /\ tel.tick \in BOOLEAN
  BY DEF TelTypeOK, WindowState
<1>2. cms' \in CmsState /\ cms_mem' \in [Bank -> [Col -> CmsCell]]
  BY <1>1, CmsStep DEF TelClock
<1>3. hll' \in HllState /\ hll_mem' \in [Register -> HllCell]
  BY <1>1, HllStep DEF TelClock
<1>4. /\ 0 \in WindowIndex /\ (tel.window + 1) % WindowMod \in WindowIndex
      /\ tel.total + 1 \in Nat /\ WindowCycles - 1 \in Timer
  <2>1. tel.window \in 0 .. WindowMod - 1 /\ tel.total \in Nat
    BY <1>1 DEF WindowState, WindowIndex
  <2>2. WindowMod \in Nat \ {0} /\ WindowCycles \in Nat \ {0}
    BY TelAssumption
  <2>3. (tel.window + 1) % WindowMod \in 0 .. WindowMod - 1
    BY <2>1, <2>2
  <2> QED
    BY <2>1, <2>2, <2>3 DEF WindowIndex, Timer
<1>5. \A x \in BOOLEAN : TelDefault(x, upd, ip) \in WindowState
  <2> SUFFICES ASSUME NEW x \in BOOLEAN
               PROVE  TelDefault(x, upd, ip) \in WindowState
    OBVIOUS
  <2> DEFINE w == IF x \/ tel.wcnt = 0 THEN WindowCycles - 1 ELSE tel.wcnt - 1
  <2>1. w \in Timer
    BY <1>1, TelAssumption DEF WindowState, Timer
  <2> HIDE DEF w
  <2> QED
    BY <1>1, <2>1 DEF TelDefault, WindowState, w
<1>6. /\ tel.top_count \in Count /\ tel.top_key \in Ip /\ tel.key \in Ip
      /\ tel.total \in Nat /\ tel.window \in WindowIndex
      /\ cms.upd_count \in Count /\ hll.sum \in Sum /\ hll.zeros \in Zeros
      /\ 0 \in Nat
  BY <1>1 DEF WindowState, TelTypeOK, CmsState, HllState
<1>7. CASE WindowReset(upd, ip)
  BY <1>2, <1>3, <1>4, <1>5, <1>6, <1>7, CountFacts, WidthFacts, IpAssumption
     DEF WindowReset, TelTypeOK, WindowState, Snapshot
<1>8. CASE WindowBoundary(upd, ip)
  BY <1>2, <1>3, <1>4, <1>5, <1>6, <1>8, CountFacts, IpAssumption
     DEF WindowBoundary, TelTypeOK, WindowState, Snapshot
<1>9. CASE WindowOpen(upd, ip)
  BY <1>1, <1>2, <1>3, <1>4, <1>5, <1>6, <1>9
     DEF WindowOpen, TelTypeOK, WindowState
<1> QED
  BY <1>7, <1>8, <1>9 DEF TelClock

(***************************************************************************)
(* How far one edge moves the two sketches                                  *)
(***************************************************************************)
LEMMA CmsMoves ==
    ASSUME TelTypeOK, NEW r, NEW upd, NEW ip, NEW q, NEW q_ip, NEW tick,
           CmsClock(r, upd, ip, q, q_ip, tick)
    PROVE  /\ cms'.phase # 0 => \/ cms.phase = 0 /\ (upd \/ q) /\ cms'.phase = 1
                                \/ cms.phase \in 1 .. 2 /\ cms'.phase = cms.phase + 1
           /\ cms'.q_done \/ cms'.upd_done => cms.phase = 3
           /\ cms_mem' # cms_mem => cms.phase = 2
<1>1. \A x : /\ DOMAIN CmsDefault(x) = DOMAIN cms
             /\ {"phase", "q_done", "upd_done"} \subseteq DOMAIN cms
             /\ CmsDefault(x).phase = cms.phase
             /\ ~CmsDefault(x).q_done /\ ~CmsDefault(x).upd_done
  BY DEF TelTypeOK, CmsState, CmsDefault
<1>2. CASE CmsReset
  BY <1>1, <1>2 DEF CmsReset
<1>3. CASE CmsStart(upd, ip, q, q_ip, tick)
  BY <1>1, <1>3 DEF CmsStart
<1>4. CASE CmsWait(tick)
  BY <1>1, <1>4 DEF CmsWait
<1>5. CASE CmsReadModifyWrite(tick)
  BY <1>1, <1>5 DEF CmsReadModifyWrite
<1>6. CASE CmsFinish(tick)
  BY <1>1, <1>6 DEF CmsFinish
<1> QED
  BY <1>2, <1>3, <1>4, <1>5, <1>6 DEF CmsClock

\* The walk of one update or query through the four phases, outside reset.
LEMMA CmsEdge ==
    ASSUME TelTypeOK, NEW upd, NEW ip, NEW q, NEW q_ip, NEW tick,
           CmsClock(FALSE, upd, ip, q, q_ip, tick)
    PROVE  /\ cms'.epoch = NextTelEpoch(cms.epoch, tick)
           /\ cms.phase = 0 /\ (upd \/ q)
                => /\ cms'.phase = 1 /\ cms'.upd = upd
                   /\ cms'.key = IF upd THEN ip ELSE q_ip
           /\ cms.phase = 0 /\ ~upd /\ ~q => cms'.phase = 0
           /\ cms.phase \in 1 .. 2
                => /\ cms'.phase = cms.phase + 1
                   /\ cms'.upd = cms.upd /\ cms'.key = cms.key
           /\ cms.phase = 3 => cms'.phase = 0 /\ (~cms.upd => cms'.q_done)
           /\ cms_mem' = IF cms.phase = 2 /\ cms.upd
                 THEN [b \in Bank |-> [cms_mem[b] EXCEPT ![CmsHash[b][cms.key]] =
                          [epoch |-> cms.epoch, count |-> Inc(Eff(cms.r[b]))]]]
                 ELSE cms_mem
<1>1. \A x : /\ {"phase", "upd", "key", "epoch", "q_done"} \subseteq DOMAIN CmsDefault(x)
             /\ CmsDefault(x).upd = cms.upd /\ CmsDefault(x).phase = cms.phase
             /\ CmsDefault(x).key = cms.key
             /\ CmsDefault(x).epoch = NextTelEpoch(cms.epoch, x)
  BY DEF TelTypeOK, CmsState, CmsDefault
<1>2. \/ CmsStart(upd, ip, q, q_ip, tick) \/ CmsWait(tick)
      \/ CmsReadModifyWrite(tick) \/ CmsFinish(tick)
  BY DEF CmsClock
<1>3. CASE CmsStart(upd, ip, q, q_ip, tick)
  BY <1>1, <1>3 DEF CmsStart
<1>4. CASE CmsWait(tick)
  BY <1>1, <1>4 DEF CmsWait
<1>5. CASE CmsReadModifyWrite(tick)
  <2> DEFINE s == [b \in Bank |-> IF cms.upd THEN Inc(Eff(cms.r[b]))
                                             ELSE Eff(cms.r[b])]
  <2>1. /\ cms.phase = 2 /\ cms' = [CmsDefault(tick) EXCEPT !.phase = 3, !.s = s]
        /\ cms_mem' = IF cms.upd
             THEN [b \in Bank |-> [cms_mem[b] EXCEPT ![CmsHash[b][cms.key]] =
                      [epoch |-> cms.epoch, count |-> s[b]]]]
             ELSE cms_mem
    BY <1>5 DEF CmsReadModifyWrite
  <2>2. ASSUME cms.upd
        PROVE  cms_mem' = [b \in Bank |-> [cms_mem[b] EXCEPT ![CmsHash[b][cms.key]] =
                 [epoch |-> cms.epoch, count |-> Inc(Eff(cms.r[b]))]]]
    <3>1. \A b \in Bank : s[b] = Inc(Eff(cms.r[b]))
      BY <2>2
    <3> HIDE DEF s
    <3> QED
      BY <2>1, <2>2, <3>1
  <2> HIDE DEF s
  <2>3. /\ cms'.phase = 3 /\ cms'.upd = cms.upd /\ cms'.key = cms.key
        /\ cms'.epoch = NextTelEpoch(cms.epoch, tick)
    BY <1>1, <2>1
  <2> QED
    BY <2>1, <2>2, <2>3
<1>6. CASE CmsFinish(tick)
  BY <1>1, <1>6 DEF CmsFinish
<1> QED
  BY <1>2, <1>3, <1>4, <1>5, <1>6

\* Entering phase 2 of the Count-Min sketch: the banks were read on this
\* edge, at the key that stays, and nothing was written.
LEMMA CmsReads ==
    ASSUME TelTypeOK, NEW r, NEW upd, NEW ip, NEW q, NEW q_ip, NEW tick,
           CmsClock(r, upd, ip, q, q_ip, tick), cms'.phase = 2
    PROVE  /\ cms'.r = [b \in Bank |-> cms_mem[b][CmsHash[b][cms.key]]]
           /\ cms'.key = cms.key /\ cms_mem' = cms_mem
<1>1. cms.phase = 1 /\ cms_mem' = cms_mem
  BY CmsMoves DEF TelTypeOK, CmsState, CmsPhase
<1>2. cms' = [CmsDefault(tick) EXCEPT !.phase = 2]
  <2>1. CmsWait(tick) \/ CmsReset
    BY <1>1 DEF CmsClock, CmsStart, CmsReadModifyWrite, CmsFinish
  <2>2. ASSUME CmsReset PROVE FALSE
    <3>1. \A x : "phase" \in DOMAIN CmsDefault(x)
      BY DEF CmsDefault, TelTypeOK, CmsState
    <3>2. cms'.phase = 0
      BY <2>2, <3>1 DEF CmsReset
    <3> QED BY <3>2
  <2> QED BY <2>1, <2>2 DEF CmsWait
<1>3. DOMAIN cms = {"phase", "upd", "key", "epoch", "r", "s", "q_count",
                    "q_done", "upd_count", "upd_done"}
  BY DEF TelTypeOK, CmsState
<1> QED BY <1>1, <1>2, <1>3 DEF CmsDefault

LEMMA HllMoves ==
    ASSUME TelTypeOK, NEW r, NEW upd, NEW ip, NEW tick, HllClock(r, upd, ip, tick)
    PROVE  /\ hll'.phase # 0 => \/ hll.phase = 0 /\ upd /\ hll'.phase = 1
                                \/ hll.phase \in 1 .. 3 /\ hll'.phase = hll.phase + 1
           /\ hll_mem' # hll_mem => hll.phase = 4
<1>1. \A x : /\ DOMAIN HllDefault(x) = DOMAIN hll
             /\ "phase" \in DOMAIN hll /\ HllDefault(x).phase = hll.phase
  BY DEF TelTypeOK, HllState, HllDefault
<1>2. CASE HllReset
  BY <1>1, <1>2 DEF HllReset
<1>3. CASE HllStart(upd, ip, tick)
  BY <1>1, <1>3 DEF HllStart
<1>4. CASE HllHashing(tick)
  BY <1>1, <1>4 DEF HllHashing
<1>5. CASE HllUpdate(tick)
  <2> DEFINE done == [HllDefault(tick) EXCEPT !.phase = 0]
  <2>1. done.phase = 0 /\ "phase" \in DOMAIN done
    BY <1>1
  <2>2. hll.phase = 4 /\ hll'.phase = 0
    BY <1>5, <2>1 DEF HllUpdate
  <2> QED
    BY <2>2
<1> QED
  BY <1>2, <1>3, <1>4, <1>5 DEF HllClock

LEMMA CmsEpoch ==
    ASSUME TelTypeOK, NEW upd, NEW ip, NEW q, NEW q_ip, NEW tick,
           CmsClock(FALSE, upd, ip, q, q_ip, tick)
    PROVE  cms'.epoch = NextTelEpoch(cms.epoch, tick)
<1>1. /\ {"phase", "upd", "key", "epoch", "q_count", "q_done", "upd_count",
          "upd_done", "s"} \subseteq DOMAIN CmsDefault(tick)
      /\ CmsDefault(tick).epoch = NextTelEpoch(cms.epoch, tick)
  BY DEF TelTypeOK, CmsState, CmsDefault
<1> QED
  BY <1>1 DEF CmsClock, CmsStart, CmsWait, CmsReadModifyWrite, CmsFinish

\* The pulses, the scratch counts and the answers of one edge.
LEMMA CmsResult ==
    ASSUME TelTypeOK, NEW upd, NEW ip, NEW q, NEW q_ip, NEW tick,
           CmsClock(FALSE, upd, ip, q, q_ip, tick)
    PROVE  /\ cms.phase # 3 => ~cms'.upd_done /\ cms'.q_count = cms.q_count
           /\ cms.phase = 3 => cms'.upd = cms.upd /\ cms'.key = cms.key
           /\ cms.phase = 3 /\ cms.upd
                => /\ cms'.upd_done /\ cms'.upd_count = LeastScratch
                   /\ cms'.q_count = cms.q_count
           /\ cms.phase = 3 /\ ~cms.upd
                => ~cms'.upd_done /\ cms'.q_count = LeastScratch
           /\ cms.phase = 2
                => cms'.s = [b \in Bank |-> IF cms.upd THEN Inc(Eff(cms.r[b]))
                                                       ELSE Eff(cms.r[b])]
<1>1. \A x : /\ {"phase", "upd", "key", "q_count", "q_done", "upd_count",
                 "upd_done", "s"} \subseteq DOMAIN CmsDefault(x)
             /\ CmsDefault(x).upd = cms.upd /\ CmsDefault(x).key = cms.key
             /\ CmsDefault(x).q_count = cms.q_count /\ ~CmsDefault(x).upd_done
  BY DEF TelTypeOK, CmsState, CmsDefault
<1>2. CASE CmsStart(upd, ip, q, q_ip, tick)
  BY <1>1, <1>2 DEF CmsStart
<1>3. CASE CmsWait(tick)
  BY <1>1, <1>3 DEF CmsWait
<1>4. CASE CmsReadModifyWrite(tick)
  <2> DEFINE s == [b \in Bank |-> IF cms.upd THEN Inc(Eff(cms.r[b]))
                                             ELSE Eff(cms.r[b])]
  <2>1. cms.phase = 2 /\ cms' = [CmsDefault(tick) EXCEPT !.phase = 3, !.s = s]
    BY <1>4 DEF CmsReadModifyWrite
  <2> HIDE DEF s
  <2>2. cms'.s = s /\ ~cms'.upd_done /\ cms'.q_count = cms.q_count
    BY <1>1, <2>1
  <2> QED
    BY <2>1, <2>2 DEF s
<1>5. CASE CmsFinish(tick)
  BY <1>1, <1>5 DEF CmsFinish
<1> QED
  BY <1>2, <1>3, <1>4, <1>5 DEF CmsClock

\* What the HyperLogLog does in one edge outside reset.
LEMMA HllEdge ==
    ASSUME TelTypeOK, NEW upd, NEW ip, NEW tick, HllClock(FALSE, upd, ip, tick)
    PROVE  /\ hll'.epoch = NextTelEpoch(hll.epoch, tick)
           /\ hll'.rword = hll_mem[HllHash[hll.key]]
           /\ hll.phase = 0 /\ upd => hll'.phase = 1 /\ hll'.key = ip
           /\ hll.phase = 0 /\ ~upd => hll'.phase = 0
           /\ hll.phase \in 1 .. 3
                => hll'.phase = hll.phase + 1 /\ hll'.key = hll.key
           /\ hll.phase # 4
                => /\ hll_mem' = hll_mem
                   /\ hll'.sum = IF tick THEN EmptySum ELSE hll.sum
                   /\ hll'.zeros = IF tick THEN Cardinality(Register) ELSE hll.zeros
           /\ hll.phase = 4 => hll'.phase = 0
<1>1. \A x : /\ {"phase", "key", "epoch", "rword", "sum", "zeros"}
                  \subseteq DOMAIN HllDefault(x)
             /\ HllDefault(x).key = hll.key /\ HllDefault(x).phase = hll.phase
             /\ HllDefault(x).epoch = NextTelEpoch(hll.epoch, x)
             /\ HllDefault(x).rword = hll_mem[HllHash[hll.key]]
             /\ HllDefault(x).sum = IF x THEN EmptySum ELSE hll.sum
             /\ HllDefault(x).zeros = IF x THEN Cardinality(Register) ELSE hll.zeros
  BY DEF TelTypeOK, HllState, HllDefault
<1>2. CASE HllStart(upd, ip, tick)
  BY <1>1, <1>2 DEF HllStart
<1>3. CASE HllHashing(tick)
  BY <1>1, <1>3 DEF HllHashing
<1>4. CASE HllUpdate(tick)
  <2> DEFINE done == [HllDefault(tick) EXCEPT !.phase = 0]
             new == HllRank[hll.key]
             old == IF hll.rword.epoch = hll.epoch THEN hll.rword.rank ELSE 0
             sum == (hll.sum + Weight[new] - Weight[old]) % SumMod
             zeros == IF old = 0 THEN (hll.zeros - 1) % ZerosMod ELSE done.zeros
  <2>1. hll.phase = 4
    BY <1>4 DEF HllUpdate
  <2>2. hll' = done \/ hll' = [done EXCEPT !.sum = sum, !.zeros = zeros]
    BY <1>4 DEF HllUpdate
  <2> HIDE DEF new, old, sum, zeros
  <2>3. hll'.phase = 0 /\ hll'.epoch = HllDefault(tick).epoch
        /\ hll'.rword = HllDefault(tick).rword
    BY <1>1, <2>2
  <2> QED
    BY <1>1, <2>1, <2>3
<1> QED
  BY <1>2, <1>3, <1>4 DEF HllClock

(***************************************************************************)
(* The harmonic sum.  An old cell of the epoch that comes back weighs less  *)
(* than the sum has for it, so the sum bounds the weights and no more: F    *)
(* says for every set of registers how much of the sum is theirs.           *)
(***************************************************************************)
RankNow(g) == IF hll_mem[g].epoch = hll.epoch THEN hll_mem[g].rank ELSE 0
Shares ==
    \E F \in [SUBSET Register -> Nat] :
        /\ F[Register] = hll.sum
        /\ \A A \in SUBSET Register : \A g \in Register \ A :
              F[A \cup {g}] >= F[A] + Weight[RankNow(g)]
EmptyOnes ==
    \E Z \in SUBSET Register :
        /\ Cardinality(Z) = hll.zeros
        /\ \A g \in Register : RankNow(g) = 0 => g \in Z
HllOK == hll.sum <= EmptySum /\ Shares /\ EmptyOnes

LEMMA WeightFacts ==
    /\ \A r \in Rank : Weight[r] \in Nat /\ Weight[r] <= Weight[0]
    /\ Cardinality(Register) \in Nat \ {0} /\ EmptySum \in Nat \ {0}
    /\ SumMod \in Nat \ {0} /\ ZerosMod \in Nat \ {0}
    /\ EmptySum < SumMod /\ Cardinality(Register) < ZerosMod
<1>1. 0 \in Rank /\ \A r \in Rank : 0 <= r
  BY TelAssumption DEF Rank
<1>2. Weight[0] \in Nat \ {0} /\ \A r \in Rank : Weight[r] \in Nat
  BY <1>1, TelAssumption DEF Rank
<1>3. \A r \in Rank : Weight[r] <= Weight[0]
  BY <1>1, WeightAssumption DEF Rank
<1>4. Cardinality(Register) \in Nat \ {0}
  BY TelAssumption, FS_CardinalityType, FS_EmptySet
<1>5. EmptySum \in Nat \ {0}
  BY <1>2, <1>4 DEF EmptySum
<1> QED
  BY <1>2, <1>3, <1>4, <1>5 DEF SumMod, ZerosMod

\* All registers empty: the sum is EmptySum, whatever old ranks show through.
LEMMA SharesOfEmpty ==
    ASSUME NEW R \in [Register -> Rank]
    PROVE  \E F \in [SUBSET Register -> Nat] :
              /\ F[Register] = EmptySum
              /\ \A A \in SUBSET Register : \A g \in Register \ A :
                    F[A \cup {g}] >= F[A] + Weight[R[g]]
<1> DEFINE F == [A \in SUBSET Register |-> Cardinality(A) * Weight[0]]
<1>1. \A A \in SUBSET Register : IsFiniteSet(A) /\ Cardinality(A) \in Nat
  BY TelAssumption, FS_Subset, FS_CardinalityType
<1>2. Weight[0] \in Nat
  BY WeightFacts, WidthFacts
<1>3. \A n \in Nat : n * Weight[0] \in Nat
  BY <1>2
<1>4. F \in [SUBSET Register -> Nat]
  BY <1>1, <1>3
<1>5. F[Register] = EmptySum
  BY DEF EmptySum
<1>6. ASSUME NEW A \in SUBSET Register, NEW g \in Register \ A
      PROVE  F[A \cup {g}] >= F[A] + Weight[R[g]]
  <2>1. Cardinality(A \cup {g}) = Cardinality(A) + 1 /\ A \cup {g} \in SUBSET Register
    BY <1>1, FS_AddElement
  <2>2. (Cardinality(A) + 1) * Weight[0] = Cardinality(A) * Weight[0] + Weight[0]
    BY <1>1, <1>2
  <2>3. Weight[R[g]] \in Nat /\ Weight[R[g]] <= Weight[0]
    BY WeightFacts
  <2>4. F[A \cup {g}] = F[A] + Weight[0] /\ F[A] \in Nat
    BY <1>4, <2>1, <2>2
  <2> HIDE DEF F
  <2> QED
    BY <1>2, <2>3, <2>4
<1> QED
  BY <1>4, <1>5, <1>6

LEMMA HllEmpty ==
    ASSUME TelTypeOK, hll.sum = EmptySum, hll.zeros = Cardinality(Register)
    PROVE  HllOK
<1> DEFINE R == [g \in Register |-> RankNow(g)]
<1>1. R \in [Register -> Rank]
  BY WidthFacts DEF RankNow, TelTypeOK, HllCell
<1>2. Shares
  <2>1. \E F \in [SUBSET Register -> Nat] :
           /\ F[Register] = EmptySum
           /\ \A A \in SUBSET Register : \A g \in Register \ A :
                 F[A \cup {g}] >= F[A] + Weight[R[g]]
    BY <1>1, SharesOfEmpty
  <2>2. \A g \in Register : R[g] = RankNow(g)
    OBVIOUS
  <2> HIDE DEF R
  <2> QED
    BY <2>1, <2>2 DEF Shares
<1>3. EmptyOnes
  <2>1. Register \in SUBSET Register
    OBVIOUS
  <2> QED
    BY <2>1 DEF EmptyOnes
<1> QED
  BY <1>2, <1>3, WeightFacts DEF HllOK

LEMMA ModSmall ==
    ASSUME NEW n \in Nat, NEW m \in Nat \ {0}, n < m
    PROVE  n % m = n
<1> QED
  OBVIOUS

\* Neither the sum nor the count of empty registers ever wraps: phase 4 moves
\* them by exactly what hll.py moves its integers.
LEMMA HllExact ==
    ASSUME TelTypeOK, HllOK, hll.phase = 4, hll.rword = hll_mem[HllHash[hll.key]],
           HllUpdate(FALSE)
    PROVE  LET g == HllHash[hll.key]
               old == RankNow(g)
               new == HllRank[hll.key]
           IN  IF new <= old
               THEN hll_mem' = hll_mem /\ hll'.sum = hll.sum /\ hll'.zeros = hll.zeros
               ELSE /\ hll_mem' = [hll_mem EXCEPT ![g] = [epoch |-> hll.epoch, rank |-> new]]
                    /\ hll'.sum = hll.sum + Weight[new] - Weight[old]
                    /\ hll'.zeros = IF old = 0 THEN hll.zeros - 1 ELSE hll.zeros
<1> DEFINE g == HllHash[hll.key]
           old == RankNow(g)
           new == HllRank[hll.key]
           done == [HllDefault(FALSE) EXCEPT !.phase = 0]
<1>1. /\ g \in Register /\ new \in Rank /\ hll.key \in Ip
      /\ hll.sum \in Nat /\ hll.zeros \in Nat
  BY TelAssumption, WeightFacts DEF TelTypeOK, HllState, Rank, Sum, Zeros
<1>2. old \in Rank
  BY <1>1, WidthFacts DEF RankNow, TelTypeOK, HllCell
<1>3. /\ {"phase", "sum", "zeros"} \subseteq DOMAIN done
      /\ done.sum = hll.sum /\ done.zeros = hll.zeros
  BY DEF TelTypeOK, HllState, HllDefault
<1>4. \/ new <= old /\ hll' = done /\ hll_mem' = hll_mem
      \/ /\ new > old
         /\ hll' = [done EXCEPT !.sum = (hll.sum + Weight[new] - Weight[old]) % SumMod,
                       !.zeros = IF old = 0 THEN (hll.zeros - 1) % ZerosMod
                                            ELSE done.zeros]
         /\ hll_mem' = [hll_mem EXCEPT ![g] = [epoch |-> hll.epoch, rank |-> new]]
  <2> DEFINE read == IF hll.rword.epoch = hll.epoch THEN hll.rword.rank ELSE 0
  <2>1. \/ new <= read /\ hll' = done /\ hll_mem' = hll_mem
        \/ /\ new > read
           /\ hll' = [done EXCEPT !.sum = (hll.sum + Weight[new] - Weight[read]) % SumMod,
                         !.zeros = IF read = 0 THEN (hll.zeros - 1) % ZerosMod
                                              ELSE done.zeros]
           /\ hll_mem' = [hll_mem EXCEPT ![g] = [epoch |-> hll.epoch, rank |-> new]]
    BY DEF HllUpdate
  <2>2. read = old
    BY DEF RankNow
  <2> HIDE DEF read, old, new, done, g
  <2> QED
    BY <2>1, <2>2
<1>5. Weight[old] <= hll.sum
  <2>1. PICK F \in [SUBSET Register -> Nat] :
           /\ F[Register] = hll.sum
           /\ \A A \in SUBSET Register : \A h \in Register \ A :
                 F[A \cup {h}] >= F[A] + Weight[RankNow(h)]
    BY DEF HllOK, Shares
  <2>2. /\ Register \ {g} \in SUBSET Register /\ g \in Register \ (Register \ {g})
        /\ (Register \ {g}) \cup {g} = Register
    BY <1>1
  <2>3. F[Register] >= F[Register \ {g}] + Weight[old] /\ F[Register \ {g}] \in Nat
    BY <2>1, <2>2
  <2> HIDE DEF old
  <2> QED
    BY <1>1, <1>2, <2>1, <2>3, WeightFacts
<1>6. hll.zeros <= Cardinality(Register) /\ (old = 0 => hll.zeros >= 1)
  <2>1. PICK Z \in SUBSET Register :
           /\ Cardinality(Z) = hll.zeros
           /\ \A h \in Register : RankNow(h) = 0 => h \in Z
    BY DEF HllOK, EmptyOnes
  <2>2. IsFiniteSet(Z) /\ Cardinality(Z) <= Cardinality(Register)
    BY TelAssumption, FS_Subset
  <2>3. old = 0 => Z # {}
    BY <1>1, <2>1
  <2>4. Cardinality(Z) = 0 <=> Z = {}
    BY <2>2, FS_EmptySet
  <2> HIDE DEF old
  <2> QED
    BY <1>1, <2>1, <2>2, <2>3, <2>4
<1>7. CASE new > old
  <2>1. Weight[new] \in Nat /\ Weight[old] \in Nat /\ Weight[new] <= Weight[old]
    <3>1. old <= new /\ old \in 0 .. RankMax /\ new \in 0 .. RankMax
      BY <1>1, <1>2, <1>7 DEF Rank
    <3> QED
      BY <1>1, <1>2, <3>1, WeightFacts, WeightAssumption
  <2> HIDE DEF old, new
  <2>2. /\ hll.sum + Weight[new] - Weight[old] \in Nat
        /\ hll.sum + Weight[new] - Weight[old] < SumMod
    BY <1>1, <1>5, <2>1, WeightFacts DEF HllOK
  <2>3. (hll.sum + Weight[new] - Weight[old]) % SumMod
           = hll.sum + Weight[new] - Weight[old]
    BY <2>2, ModSmall, WeightFacts
  <2>4. old = 0 => (hll.zeros - 1) % ZerosMod = hll.zeros - 1
    <3>1. old = 0 => hll.zeros - 1 \in Nat /\ hll.zeros - 1 < ZerosMod
      BY <1>1, <1>6, WeightFacts
    <3> QED
      BY <3>1, ModSmall, WeightFacts
  <2> HIDE DEF done
  <2>5. /\ hll'.sum = hll.sum + Weight[new] - Weight[old]
        /\ hll'.zeros = IF old = 0 THEN hll.zeros - 1 ELSE hll.zeros
    <3>1. hll' = [done EXCEPT !.sum = (hll.sum + Weight[new] - Weight[old]) % SumMod,
                       !.zeros = IF old = 0 THEN (hll.zeros - 1) % ZerosMod
                                            ELSE done.zeros]
      BY <1>1, <1>2, <1>4, <1>7 DEF Rank
    <3>2. /\ hll'.sum = (hll.sum + Weight[new] - Weight[old]) % SumMod
          /\ hll'.zeros = IF old = 0 THEN (hll.zeros - 1) % ZerosMod ELSE done.zeros
      BY <1>3, <3>1
    <3> QED
      BY <1>3, <2>3, <2>4, <3>2
  <2>6. hll_mem' = [hll_mem EXCEPT ![g] = [epoch |-> hll.epoch, rank |-> new]]
    BY <1>1, <1>2, <1>4, <1>7 DEF Rank
  <2>7. ~(new <= old)
    BY <1>1, <1>2, <1>7 DEF Rank
  <2> QED
    BY <2>5, <2>6, <2>7 DEF old, new
<1>8. CASE ~(new > old)
  <2>1. new <= old
    BY <1>1, <1>2, <1>8 DEF Rank
  <2>2. hll' = done /\ hll_mem' = hll_mem
    BY <1>4, <1>8
  <2> QED
    BY <1>3, <2>1, <2>2
<1> QED
  BY <1>7, <1>8

\* The bounds survive phase 4 ...
LEMMA HllUpdateOK ==
    ASSUME TelTypeOK, HllOK, hll.phase = 4, hll.rword = hll_mem[HllHash[hll.key]],
           NEW upd, NEW ip, HllClock(FALSE, upd, ip, FALSE)
    PROVE  HllOK'
<1>0. /\ hll.key \in Ip /\ HllHash[hll.key] \in Register
      /\ HllRank[hll.key] \in Rank /\ HllRank[hll.key] >= 1
      /\ RankNow(HllHash[hll.key]) \in Rank
      /\ hll.sum \in Nat /\ hll.zeros \in Nat
  <2>1. /\ hll.key \in Ip /\ HllHash[hll.key] \in Register
        /\ hll_mem[HllHash[hll.key]] \in HllCell
    BY TelAssumption DEF TelTypeOK, HllState
  <2>2. RankNow(HllHash[hll.key]) \in Rank
    BY <2>1, WidthFacts DEF RankNow, HllCell
  <2>3. HllRank[hll.key] \in 1 .. RankMax /\ RankMax \in Nat
    BY <2>1, TelAssumption
  <2> QED
    BY <2>1, <2>2, <2>3, WeightFacts DEF TelTypeOK, HllState, Rank, Sum, Zeros
<1> PICK g \in Register, new \in Rank, old \in Rank :
       g = HllHash[hll.key] /\ new = HllRank[hll.key] /\ old = RankNow(g)
  BY <1>0
<1>1. /\ g \in Register /\ new \in Rank /\ old \in Rank /\ new >= 1
      /\ hll.sum \in Nat /\ hll.zeros \in Nat
  BY <1>0
<1>2. HllUpdate(FALSE) /\ hll'.epoch = hll.epoch
  <2>1. HllStart(upd, ip, FALSE) \/ HllHashing(FALSE) \/ HllUpdate(FALSE)
    BY DEF HllClock
  <2>2. ~HllStart(upd, ip, FALSE) /\ ~HllHashing(FALSE)
    BY DEF HllStart, HllHashing
  <2>3. hll'.epoch = NextTelEpoch(hll.epoch, FALSE)
    BY HllEdge
  <2> QED
    BY <2>1, <2>2, <2>3 DEF NextTelEpoch
<1>3. IF new <= old
      THEN hll_mem' = hll_mem /\ hll'.sum = hll.sum /\ hll'.zeros = hll.zeros
      ELSE /\ hll_mem' = [hll_mem EXCEPT ![g] = [epoch |-> hll.epoch, rank |-> new]]
           /\ hll'.sum = hll.sum + Weight[new] - Weight[old]
           /\ hll'.zeros = IF old = 0 THEN hll.zeros - 1 ELSE hll.zeros
  BY <1>2, HllExact
<1>4. PICK F \in [SUBSET Register -> Nat] :
         /\ F[Register] = hll.sum
         /\ \A A \in SUBSET Register : \A h \in Register \ A :
               F[A \cup {h}] >= F[A] + Weight[RankNow(h)]
  BY DEF HllOK, Shares
<1>5. PICK Z \in SUBSET Register :
         /\ Cardinality(Z) = hll.zeros
         /\ \A h \in Register : RankNow(h) = 0 => h \in Z
  BY DEF HllOK, EmptyOnes
<1>6. CASE new <= old
  <2>1. hll_mem' = hll_mem /\ hll'.sum = hll.sum /\ hll'.zeros = hll.zeros
    BY <1>3, <1>6
  <2>2. \A h : RankNow(h)' = RankNow(h)
    BY <1>2, <2>1 DEF RankNow
  <2> QED
    BY <2>1, <2>2 DEF HllOK, Shares, EmptyOnes
<1>7. CASE ~(new <= old)
  <2>1. /\ hll_mem' = [hll_mem EXCEPT ![g] = [epoch |-> hll.epoch, rank |-> new]]
        /\ hll'.sum = hll.sum + Weight[new] - Weight[old]
        /\ hll'.zeros = IF old = 0 THEN hll.zeros - 1 ELSE hll.zeros
    BY <1>3, <1>7
  <2>2. RankNow(g)' = new /\ \A h \in Register \ {g} : RankNow(h)' = RankNow(h)
    <3>1. DOMAIN hll_mem = Register
      BY DEF TelTypeOK
    <3>2. hll_mem'[g] = [epoch |-> hll.epoch, rank |-> new]
      BY <1>1, <2>1, <3>1
    <3>3. \A h \in Register \ {g} : hll_mem'[h] = hll_mem[h]
      BY <1>1, <2>1, <3>1
    <3> QED
      BY <1>2, <3>2, <3>3 DEF RankNow
  <2>3. Weight[new] \in Nat /\ Weight[old] \in Nat /\ Weight[new] <= Weight[old]
    <3>1. old <= new /\ old \in 0 .. RankMax /\ new \in 0 .. RankMax
      BY <1>1, <1>7 DEF Rank
    <3> QED
      BY <1>1, <3>1, WeightFacts, WeightAssumption
  <2>4. Shares'
    <3> DEFINE G == [A \in SUBSET Register |->
                       IF g \in A THEN F[A] + Weight[new] - Weight[old] ELSE F[A]]
    <3>1. \A A \in SUBSET Register : g \in A => F[A] >= Weight[old]
      <4> SUFFICES ASSUME NEW A \in SUBSET Register, g \in A
                   PROVE  F[A] >= Weight[old]
        OBVIOUS
      <4>1. /\ A \ {g} \in SUBSET Register /\ g \in Register \ (A \ {g})
            /\ (A \ {g}) \cup {g} = A
        BY <1>1
      <4>2. F[A] >= F[A \ {g}] + Weight[old] /\ F[A \ {g}] \in Nat /\ F[A] \in Nat
        BY <1>4, <4>1
      <4> QED
        BY <2>3, <4>2
    <3>2. G \in [SUBSET Register -> Nat]
      <4>1. \A A \in SUBSET Register : F[A] \in Nat
        OBVIOUS
      <4> QED
        BY <2>3, <3>1, <4>1
    <3>3. G[Register] = hll'.sum
      BY <1>1, <1>4, <2>1
    <3>4. ASSUME NEW A \in SUBSET Register, NEW h \in Register \ A
          PROVE  G[A \cup {h}] >= G[A] + Weight[RankNow(h)']
      <4>1. /\ A \cup {h} \in SUBSET Register
            /\ F[A \cup {h}] >= F[A] + Weight[RankNow(h)]
            /\ F[A] \in Nat /\ F[A \cup {h}] \in Nat
        BY <1>4
      <4>2. CASE h = g
        <5>1. /\ G[A \cup {h}] = F[A \cup {h}] + Weight[new] - Weight[old]
              /\ G[A] = F[A] /\ RankNow(h)' = new /\ RankNow(h) = old
          BY <2>2, <4>1, <4>2
        <5> HIDE DEF G
        <5> QED
          BY <2>3, <4>1, <5>1
      <4>3. CASE h # g
        <5>1. RankNow(h)' = RankNow(h) /\ Weight[RankNow(h)] \in Nat
          <6>1. hll_mem[h] \in HllCell
            BY DEF TelTypeOK
          <6>2. RankNow(h) \in Rank
            BY <6>1, WidthFacts DEF RankNow, HllCell
          <6> QED
            BY <2>2, <4>3, <6>2, WeightFacts
        <5>2. CASE g \in A
          <6>1. /\ G[A \cup {h}] = F[A \cup {h}] + Weight[new] - Weight[old]
                /\ G[A] = F[A] + Weight[new] - Weight[old]
            BY <4>1, <5>2
          <6> HIDE DEF G
          <6> QED
            BY <2>3, <4>1, <5>1, <6>1
        <5>3. CASE g \notin A
          <6>1. G[A \cup {h}] = F[A \cup {h}] /\ G[A] = F[A]
            BY <4>1, <4>3, <5>3
          <6> HIDE DEF G
          <6> QED
            BY <4>1, <5>1, <6>1
        <5> QED
          BY <5>2, <5>3
      <4> QED
        BY <4>2, <4>3
    <3> HIDE DEF G
    <3> QED
      BY <3>2, <3>3, <3>4 DEF Shares
  <2>5. EmptyOnes'
    <3>1. IsFiniteSet(Z)
      BY TelAssumption, FS_Subset
    <3>2. CASE old = 0
      <4>1. g \in Z
        BY <1>1, <1>5, <3>2
      <4>2. Cardinality(Z \ {g}) = hll.zeros - 1
        <5>1. Cardinality(Z \ {g}) = IF g \in Z THEN Cardinality(Z) - 1 ELSE Cardinality(Z)
          BY <3>1, FS_RemoveElement
        <5> QED
          BY <1>5, <4>1, <5>1
      <4>3. \A h \in Register : RankNow(h)' = 0 => h \in Z \ {g}
        BY <1>1, <1>5, <2>2
      <4>4. Z \ {g} \in SUBSET Register
        OBVIOUS
      <4> QED
        BY <2>1, <3>2, <4>2, <4>3, <4>4 DEF EmptyOnes
    <3>3. CASE old # 0
      <4>1. \A h \in Register : RankNow(h)' = 0 => h \in Z
        BY <1>1, <1>5, <2>2
      <4> QED
        BY <1>5, <2>1, <3>3, <4>1 DEF EmptyOnes
    <3> QED
      BY <3>2, <3>3
  <2>6. hll'.sum <= EmptySum
    <3> QED
      BY <1>1, <2>1, <2>3, WeightFacts DEF HllOK
  <2> QED
    BY <2>4, <2>5, <2>6 DEF HllOK
<1> QED
  BY <1>6, <1>7

\* ... and every other edge; a tick between two frames sets them up anew.
LEMMA HllKeepOK ==
    ASSUME TelTypeOK, TelTypeOK', hll.phase # 4, NEW upd, NEW ip,
           NEW tick \in BOOLEAN, tick \/ HllOK, HllClock(FALSE, upd, ip, tick)
    PROVE  HllOK'
<1>1. /\ hll_mem' = hll_mem /\ hll'.epoch = NextTelEpoch(hll.epoch, tick)
      /\ hll'.sum = IF tick THEN EmptySum ELSE hll.sum
      /\ hll'.zeros = IF tick THEN Cardinality(Register) ELSE hll.zeros
  BY HllEdge
<1>2. CASE tick
  <2>1. TelTypeOK' /\ hll'.sum = EmptySum /\ hll'.zeros = Cardinality(Register)
    BY <1>1, <1>2
  <2> DEFINE R == [g \in Register |-> RankNow(g)']
  <2>2. R \in [Register -> Rank]
    <3>1. \A g \in Register : hll_mem'[g] \in HllCell
      BY <2>1 DEF TelTypeOK
    <3> QED
      BY <3>1, WidthFacts DEF RankNow, HllCell
  <2>3. \E F \in [SUBSET Register -> Nat] :
           /\ F[Register] = EmptySum
           /\ \A A \in SUBSET Register : \A g \in Register \ A :
                 F[A \cup {g}] >= F[A] + Weight[R[g]]
    BY <2>2, SharesOfEmpty
  <2>4. \A g \in Register : R[g] = RankNow(g)'
    OBVIOUS
  <2> HIDE DEF R
  <2>5. Shares'
    BY <2>1, <2>3, <2>4 DEF Shares
  <2>6. EmptyOnes'
    <3>1. Register \in SUBSET Register
      OBVIOUS
    <3> QED
      BY <2>1, <3>1 DEF EmptyOnes
  <2> QED
    BY <2>1, <2>5, <2>6, WeightFacts DEF HllOK
<1>3. CASE ~tick
  <2>1. /\ hll_mem' = hll_mem /\ hll'.epoch = hll.epoch
        /\ hll'.sum = hll.sum /\ hll'.zeros = hll.zeros
    BY <1>1, <1>3 DEF NextTelEpoch
  <2>2. \A h : RankNow(h)' = RankNow(h)
    BY <2>1 DEF RankNow
  <2> QED
    BY <1>3, <2>1, <2>2 DEF HllOK, Shares, EmptyOnes
<1> QED
  BY <1>2, <1>3

=============================================================================
