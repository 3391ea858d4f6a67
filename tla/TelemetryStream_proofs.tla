------------------------ MODULE TelemetryStream_proofs ------------------------
(***************************************************************************)
(* The Count-Min estimate never undercounts, wherever the window ticks      *)
(* fall.  A frame is counted in the history at the edge it arrives and in   *)
(* the banks two edges later; SketchInv says what every bank owes to every  *)
(* source in between, and that the bank words held for the write are those  *)
(* still in the memory.                                                     *)
(*                                                                          *)
(* The three pipelines implement TelemetryTwin: TwinInv says, phase by      *)
(* phase, how far the frame under way has got beyond what was seen when the *)
(* pipelines were last at rest, as long as the window is synced; and that   *)
(* they do come to rest between two frames, synced or not.                  *)
(***************************************************************************)
EXTENDS TelemetryStream, Telemetry_proofs

Share(b, ip) == Eff(cms_mem[b][CmsHash[b][ip]])

\* An update of this source is on its way to the banks.
Owing(ip) == cms.phase \in 1 .. 2 /\ cms.upd /\ cms.key = ip

CellsCover ==
    \A ip \in Ip, b \in Bank :
        \/ exact[ip] <= Share(b, ip)
        \/ Owing(ip) /\ exact[ip] <= Share(b, ip) + 1

\* A walk starts only after the last one ended.
WalkAge == cms.phase # 0 => age = cms.phase - 1

\* The same of the HyperLogLog's walk and of the done pulse.
PulseAge == /\ hll.phase # 0 => age = hll.phase - 1
            /\ cms.upd_done => age = 3

ReadIsCurrent ==
    cms.phase = 2 => cms.r = [b \in Bank |-> cms_mem[b][CmsHash[b][cms.key]]]

StreamTypeOK == TelTypeOK /\ age \in 0 .. TelGap /\ exact \in [Ip -> Count]

SketchInv ==
    StreamTypeOK /\ WalkAge /\ PulseAge /\ ReadIsCurrent /\ CellsCover

(***************************************************************************)
(* One step, whichever of the three actions took it                         *)
(***************************************************************************)
Frame(upd, q, src) ==
    /\ TelClock(FALSE, upd, src, q, src)
    /\ upd \/ q => age = TelGap
    /\ ~(upd /\ q)
    /\ age' = IF upd \/ q THEN 0 ELSE IF age < TelGap THEN age + 1 ELSE age
    /\ synced' = IF tel.tick THEN ~((upd \/ q) \/ InFlight) ELSE synced
    /\ drained' = IF age' >= PipeLen THEN Observed' ELSE drained
    /\ exact' = [i \in Ip |->
          IF tel.tick THEN (IF upd /\ i = src THEN 1 ELSE 0)
                      ELSE (IF upd /\ i = src THEN Counted(i) ELSE exact[i])]

LEMMA StepIsFrame ==
    ASSUME StreamTypeOK, Next
    PROVE  \E upd, q \in BOOLEAN : \E src \in Ip : Frame(upd, q, src)
<1>0. exact \in [Ip -> Count]
  BY DEF StreamTypeOK
<1>1. CASE \E ip \in Ip : PacketArrives(ip)
  <2> PICK ip \in Ip : PacketArrives(ip)
    BY <1>1
  <2>1. exact' = [i \in Ip |->
           IF tel.tick THEN (IF TRUE /\ i = ip THEN 1 ELSE 0)
                       ELSE (IF TRUE /\ i = ip THEN Counted(i) ELSE exact[i])]
    BY <1>0 DEF PacketArrives
  <2>2. Frame(TRUE, FALSE, ip)
    BY <2>1 DEF Frame, PacketArrives, MayArrive, Bookkeeping
  <2> QED
    BY <2>2
<1>2. CASE \E ip \in Ip : QueryArrives(ip)
  <2> PICK ip \in Ip : QueryArrives(ip)
    BY <1>2
  <2>1. exact' = [i \in Ip |->
           IF tel.tick THEN (IF FALSE /\ i = ip THEN 1 ELSE 0)
                       ELSE (IF FALSE /\ i = ip THEN Counted(i) ELSE exact[i])]
    BY <1>0 DEF QueryArrives
  <2>2. Frame(FALSE, TRUE, ip)
    BY <2>1 DEF Frame, QueryArrives, MayArrive, Bookkeeping
  <2> QED
    BY <2>2
<1>3. CASE NoFrameArrives
  <2>1. exact' = [i \in Ip |->
           IF tel.tick THEN (IF FALSE /\ i = ZeroIp THEN 1 ELSE 0)
                       ELSE (IF FALSE /\ i = ZeroIp THEN Counted(i) ELSE exact[i])]
    BY <1>0, <1>3 DEF NoFrameArrives
  <2>2. Frame(FALSE, FALSE, ZeroIp)
    BY <1>3, <2>1 DEF Frame, NoFrameArrives, Bookkeeping
  <2> QED
    BY <2>2, IpAssumption
<1> QED
  BY <1>1, <1>2, <1>3 DEF Next

LEMMA ExactCounts ==
    ASSUME StreamTypeOK, NEW upd \in BOOLEAN, NEW q \in BOOLEAN,
           NEW src \in Ip, Frame(upd, q, src)
    PROVE  exact' \in [Ip -> Count] /\ age' \in 0 .. TelGap
<1>1. {0, 1} \subseteq Count
  BY TelAssumption DEF Count
<1>2. \A i \in Ip : exact[i] \in Count /\ Counted(i) \in Count
  BY TelAssumption DEF StreamTypeOK, Count, Counted
<1>3. age' \in 0 .. TelGap
  BY StreamAssumption DEF StreamTypeOK, Frame
<1> QED
  BY <1>1, <1>2, <1>3 DEF Frame

(***************************************************************************)
(* The banks                                                                *)
(***************************************************************************)
LEMMA ShareType ==
    ASSUME TelTypeOK, NEW b \in Bank, NEW ip \in Ip
    PROVE  Share(b, ip) \in Count
<1>1. cms_mem[b][CmsHash[b][ip]] \in CmsCell
  BY TelAssumption DEF TelTypeOK
<1> QED
  BY <1>1, CountFacts DEF Share, Eff, CmsCell

\* The read registers hold, on entering phase 2, what the memory holds.
LEMMA ReadStep ==
    ASSUME TelTypeOK, NEW upd, NEW q, NEW src, Frame(upd, q, src)
    PROVE  ReadIsCurrent'
<1>1. CmsClock(FALSE, upd, src, q, src, tel.tick)
  BY DEF Frame, TelClock
<1>2. ASSUME cms'.phase = 2
      PROVE  cms'.r = [b \in Bank |-> cms_mem'[b][CmsHash[b][cms'.key]]]
  BY <1>1, <1>2, CmsReads
<1> QED
  BY <1>2 DEF ReadIsCurrent

LEMMA WalkStep ==
    ASSUME StreamTypeOK, WalkAge, PulseAge, NEW upd \in BOOLEAN,
           NEW q \in BOOLEAN, NEW src, Frame(upd, q, src)
    PROVE  WalkAge' /\ PulseAge' /\ (upd \/ q => cms.phase = 0)
<1>1. CmsClock(FALSE, upd, src, q, src, tel.tick) /\ TelTypeOK
  BY DEF Frame, TelClock, StreamTypeOK
<1>2. /\ cms.phase = 0 /\ ~upd /\ ~q => cms'.phase = 0
      /\ cms.phase \in 1 .. 2 => cms'.phase = cms.phase + 1
      /\ cms.phase = 3 => cms'.phase = 0
      /\ cms.phase = 0 /\ (upd \/ q) => cms'.phase = 1
  BY <1>1, CmsEdge
<1>3. cms.phase \in 0 .. 3 /\ age \in 0 .. TelGap /\ TelGap \in Nat /\ TelGap >= 5
  BY <1>1, StreamAssumption DEF StreamTypeOK, TelTypeOK, CmsState, CmsPhase, PipeLen
<1>4. upd \/ q => cms.phase = 0
  BY <1>3 DEF Frame, WalkAge
<1>5. cms'.phase # 0 => age' = cms'.phase - 1
  BY <1>2, <1>3, <1>4 DEF Frame, WalkAge
<1>6. hll'.phase # 0 => age' = hll'.phase - 1
  <2>1. HllClock(FALSE, upd, src, tel.tick)
    BY DEF Frame, TelClock
  <2>2. /\ hll.phase = 0 /\ upd => hll'.phase = 1
        /\ hll.phase = 0 /\ ~upd => hll'.phase = 0
        /\ hll.phase \in 1 .. 3 => hll'.phase = hll.phase + 1
        /\ hll.phase = 4 => hll'.phase = 0
    BY <1>1, <2>1, HllEdge
  <2>3. hll.phase \in 0 .. 4
    BY <1>1 DEF TelTypeOK, HllState, HllPhase
  <2> QED
    BY <1>3, <2>2, <2>3 DEF Frame, PulseAge
<1>7. cms'.upd_done => age' = 3
  <2>1. cms.phase # 3 => ~cms'.upd_done
    BY <1>1, CmsResult
  <2>2. cms'.upd_done => age = 2
    BY <2>1 DEF WalkAge
  <2> QED
    BY <1>3, <2>2 DEF Frame
<1> QED
  BY <1>4, <1>5, <1>6, <1>7 DEF WalkAge, PulseAge

\* What one edge does to the share of a source in a bank while the epoch
\* lasts: the write of phase 2 adds one for its own source and takes nothing
\* from any other.
LEMMA ShareStep ==
    ASSUME TelTypeOK, ReadIsCurrent, NEW upd, NEW q, NEW src,
           CmsClock(FALSE, upd, src, q, src, FALSE),
           NEW b \in Bank, NEW ip \in Ip
    PROVE  /\ Share(b, ip)' >= Share(b, ip)
           /\ cms.phase = 2 /\ cms.upd /\ cms.key = ip
                => Share(b, ip)' = Inc(Share(b, ip))
<1>1. cms'.epoch = cms.epoch
  BY CmsEdge DEF NextTelEpoch
<1> DEFINE k == CmsHash[b][cms.key]
           c == CmsHash[b][ip]
<1>2. /\ c \in Col /\ k \in Col /\ cms_mem[b] \in [Col -> CmsCell]
      /\ cms_mem[b][c] \in CmsCell
  BY TelAssumption DEF TelTypeOK, CmsState
<1>3. Share(b, ip) \in Count /\ Share(b, ip) \in Nat
  BY ShareType, TelAssumption DEF Count
<1>4. Inc(Share(b, ip)) >= Share(b, ip)
  BY <1>3, TelAssumption DEF Inc, Count
<1>5. CASE cms.phase = 2 /\ cms.upd
  <2>1. cms.r[b] = cms_mem[b][k]
    BY <1>5 DEF ReadIsCurrent
  <2>2. cms_mem' = [x \in Bank |-> [cms_mem[x] EXCEPT ![CmsHash[x][cms.key]] =
                      [epoch |-> cms.epoch, count |-> Inc(Eff(cms.r[x]))]]]
    BY <1>5, CmsEdge
  <2>3. cms_mem'[b] = [cms_mem[b] EXCEPT ![k] =
                      [epoch |-> cms.epoch, count |-> Inc(Eff(cms_mem[b][k]))]]
    BY <2>1, <2>2
  <2> HIDE DEF k, c
  <2>4. CASE c = k
    <3>1. cms_mem'[b][c] = [epoch |-> cms.epoch, count |-> Inc(Eff(cms_mem[b][c]))]
      BY <1>2, <2>3, <2>4
    <3>2. Share(b, ip)' = Inc(Share(b, ip))
      BY <1>1, <3>1 DEF Share, Eff, c
    <3> QED
      BY <1>4, <3>2
  <2>5. CASE c # k
    <3>1. cms_mem'[b][c] = cms_mem[b][c]
      BY <1>2, <2>3, <2>5
    <3>2. Share(b, ip)' = Share(b, ip)
      BY <1>1, <3>1 DEF Share, Eff, c
    <3>3. cms.key # ip
      BY <2>5 DEF c, k
    <3> QED
      BY <1>3, <3>2, <3>3
  <2> QED
    BY <2>4, <2>5
<1>6. CASE ~(cms.phase = 2 /\ cms.upd)
  <2>1. cms_mem' = cms_mem
    BY <1>6, CmsEdge
  <2>2. Share(b, ip)' = Share(b, ip)
    BY <1>1, <2>1 DEF Share, Eff
  <2> QED
    BY <1>3, <1>6, <2>2
<1> QED
  BY <1>5, <1>6

\* Who is owed a write after the edge.
LEMMA OwingStep ==
    ASSUME TelTypeOK, NEW upd \in BOOLEAN, NEW q \in BOOLEAN, NEW src,
           NEW tick, CmsClock(FALSE, upd, src, q, src, tick), NEW ip
    PROVE  /\ upd /\ cms.phase = 0 /\ ip = src => Owing(ip)'
           /\ Owing(ip) /\ cms.phase = 1 => Owing(ip)'
<1>0. /\ cms.phase = 0 /\ (upd \/ q)
           => /\ cms'.phase = 1 /\ cms'.upd = upd
              /\ cms'.key = IF upd THEN src ELSE src
      /\ cms.phase \in 1 .. 2
           => /\ cms'.phase = cms.phase + 1
              /\ cms'.upd = cms.upd /\ cms'.key = cms.key
  BY CmsEdge, Zenon
<1>1. CASE upd /\ cms.phase = 0 /\ ip = src
  <2>1. cms'.phase = 1 /\ cms'.upd = upd /\ cms'.key = src
    BY <1>0, <1>1
  <2> QED
    BY <1>1, <2>1 DEF Owing
<1>2. CASE Owing(ip) /\ cms.phase = 1
  <2>1. cms'.phase = cms.phase + 1 /\ cms'.upd = cms.upd /\ cms'.key = cms.key
    BY <1>0, <1>2 DEF Owing
  <2> QED
    BY <1>2, <2>1 DEF Owing
<1> QED
  BY <1>1, <1>2 DEF Owing

LEMMA CoverStep ==
    ASSUME StreamTypeOK, ReadIsCurrent, CellsCover,
           NEW upd \in BOOLEAN, NEW q \in BOOLEAN, NEW src \in Ip,
           Frame(upd, q, src), upd \/ q => cms.phase = 0, StreamTypeOK'
    PROVE  CellsCover'
<1> SUFFICES ASSUME NEW ip \in Ip, NEW b \in Bank
             PROVE  \/ exact'[ip] <= Share(b, ip)'
                    \/ Owing(ip)' /\ exact'[ip] <= Share(b, ip)' + 1
  BY DEF CellsCover
<1>1. TelTypeOK /\ TelTypeOK'
  BY DEF StreamTypeOK
<1>2. Share(b, ip) \in Nat /\ Share(b, ip)' \in Nat /\ Share(b, ip) <= CountMax
  <2>1. cms_mem'[b][CmsHash[b][ip]] \in CmsCell
    BY <1>1, TelAssumption DEF TelTypeOK
  <2>2. Share(b, ip)' \in Count
    BY <1>1, <2>1, CountFacts DEF Share, Eff, CmsCell
  <2> QED
    BY <1>1, <2>2, ShareType, TelAssumption DEF Count
<1>3. /\ exact[ip] \in Nat /\ exact[ip] <= CountMax /\ exact'[ip] \in Nat
      /\ CountMax \in Nat
  BY TelAssumption DEF StreamTypeOK, Count
<1>4. CmsClock(FALSE, upd, src, q, src, tel.tick)
  BY DEF Frame, TelClock
<1>5. exact'[ip] = IF tel.tick THEN (IF upd /\ ip = src THEN 1 ELSE 0)
                   ELSE (IF upd /\ ip = src THEN Counted(ip) ELSE exact[ip])
  BY DEF Frame
<1>6. /\ upd /\ ip = src => Owing(ip)'
      /\ Owing(ip) /\ cms.phase = 1 => Owing(ip)'
  BY <1>1, <1>4, OwingStep
<1>7. CASE tel.tick
  BY <1>2, <1>3, <1>5, <1>6, <1>7
<1>8. CASE ~tel.tick
  <2>0. tel.tick = FALSE
    BY <1>1, <1>8 DEF TelTypeOK, WindowState
  <2>1. /\ Share(b, ip)' >= Share(b, ip)
        /\ cms.phase = 2 /\ cms.upd /\ cms.key = ip
             => Share(b, ip)' = Inc(Share(b, ip))
    <3>1. CmsClock(FALSE, upd, src, q, src, FALSE)
      BY <1>4, <2>0
    <3> QED
      BY <1>1, <3>1, ShareStep
  <2>2. \/ exact[ip] <= Share(b, ip)
        \/ Owing(ip) /\ exact[ip] <= Share(b, ip) + 1
    BY DEF CellsCover
  <2>3. CASE upd /\ ip = src
    <3>1. ~Owing(ip)
      BY <2>3 DEF Owing
    <3>2. exact'[ip] <= exact[ip] + 1
      BY <1>3, <1>5, <1>8, <2>3 DEF Counted
    <3> QED
      BY <1>2, <1>3, <1>6, <2>1, <2>2, <2>3, <3>1, <3>2
  <2>4. CASE ~(upd /\ ip = src)
    <3>1. exact'[ip] = exact[ip]
      BY <1>5, <1>8, <2>4
    <3>2. CASE Owing(ip) /\ cms.phase = 2
      <4>1. Share(b, ip)' = Inc(Share(b, ip))
        BY <2>1, <3>2 DEF Owing
      <4>2. exact[ip] <= Inc(Share(b, ip))
        BY <1>2, <1>3, <2>2 DEF Inc
      <4> QED
        BY <3>1, <4>1, <4>2
    <3>3. CASE Owing(ip) /\ cms.phase = 1
      BY <1>2, <1>3, <1>6, <2>1, <2>2, <3>1, <3>3
    <3>4. CASE ~Owing(ip)
      BY <1>2, <1>3, <2>1, <2>2, <3>1, <3>4
    <3> QED
      BY <3>2, <3>3, <3>4 DEF Owing
  <2> QED
    BY <2>3, <2>4
<1> QED
  BY <1>7, <1>8

(***************************************************************************)
(* The invariant of the stream                                              *)
(***************************************************************************)
LEMMA StreamInit == ASSUME Init PROVE SketchInv
<1>1. TelTypeOK
  BY TelInitType DEF Init
<1>2. age \in 0 .. TelGap /\ exact \in [Ip -> Count]
  BY StreamAssumption, CountFacts DEF Init
<1>3. cms.phase = 0 /\ hll.phase = 0 /\ ~cms.upd_done
  BY DEF Init, TelInit
<1>4. \A ip \in Ip, b \in Bank : exact[ip] = 0 /\ Share(b, ip) \in Nat
  BY <1>1, ShareType, TelAssumption DEF Init, Count
<1>5. CellsCover
  BY <1>4 DEF CellsCover
<1> QED
  BY <1>1, <1>2, <1>3, <1>5
     DEF SketchInv, StreamTypeOK, WalkAge, PulseAge, ReadIsCurrent

LEMMA StreamStep == ASSUME SketchInv, [Next]_streamVars PROVE SketchInv'
<1>1. CASE Next
  <2>0. StreamTypeOK
    BY DEF SketchInv
  <2>1. PICK upd, q \in BOOLEAN : \E src \in Ip : Frame(upd, q, src)
    BY <1>1, <2>0, StepIsFrame
  <2>2. PICK src \in Ip : Frame(upd, q, src)
    BY <2>1
  <2>3. StreamTypeOK'
    <3>1. TelTypeOK'
      BY <2>0, <2>2, TelStep DEF Frame, StreamTypeOK
    <3> QED
      BY <2>0, <2>2, <3>1, ExactCounts DEF StreamTypeOK
  <2>4. WalkAge' /\ PulseAge' /\ (upd \/ q => cms.phase = 0)
    BY <2>0, <2>2, WalkStep DEF SketchInv
  <2>5. ReadIsCurrent'
    BY <2>0, <2>2, ReadStep DEF StreamTypeOK
  <2>6. CellsCover'
    BY <2>0, <2>2, <2>3, <2>4, CoverStep DEF SketchInv
  <2> QED
    BY <2>3, <2>4, <2>5, <2>6 DEF SketchInv
<1>2. CASE UNCHANGED streamVars
  <2>1. /\ cms' = cms /\ cms_mem' = cms_mem /\ hll' = hll /\ hll_mem' = hll_mem
        /\ tel' = tel /\ snap' = snap /\ age' = age /\ exact' = exact
    BY <1>2 DEF streamVars, telVars
  <2>2. \A ip, b : Share(b, ip)' = Share(b, ip) /\ Owing(ip)' = Owing(ip)
    BY <2>1 DEF Share, Eff, Owing
  <2>3. TelTypeOK'
    BY <2>1 DEF SketchInv, StreamTypeOK, TelTypeOK
  <2>4. WalkAge' /\ PulseAge' /\ ReadIsCurrent'
    BY <2>1 DEF SketchInv, WalkAge, PulseAge, ReadIsCurrent
  <2>5. CellsCover'
    BY <2>1, <2>2 DEF SketchInv, CellsCover
  <2> QED
    BY <2>1, <2>3, <2>4, <2>5 DEF SketchInv, StreamTypeOK
<1> QED
  BY <1>1, <1>2

LEMMA StreamInvariant == Spec => []SketchInv
<1> QED
  BY StreamInit, StreamStep, PTL DEF Spec

(***************************************************************************)
(* The twin.  A frame is handled in five edges; what the twin makes of it   *)
(* at once, from the state before it, is named here.                        *)
(***************************************************************************)
BanksAfter(ip) ==
    [b \in Bank |-> [drained.cell[b] EXCEPT ![CmsHash[b][ip]] = T!Bumped(b, ip)]]
EstimateAfter(ip) == T!Smallest({T!Bumped(b, ip).count : b \in Bank})
Promotes(ip) == EstimateAfter(ip) > drained.open.top_count

\* The registers the RTL keeps for the open window, but for its timer.
OpenAs(open) ==
    /\ tel.window = open.window /\ tel.total = open.total
    /\ tel.top_count = open.top_count /\ tel.top_key = open.top_key
HllAs(reg, sum, zeros) == hll_mem = reg /\ hll.sum = sum /\ hll.zeros = zeros
HllKept == HllAs(drained.reg, drained.sum, drained.zeros)
OpenKept == OpenAs(drained.open)
OpenCounted == OpenAs([drained.open EXCEPT !.total = @ + 1])

HllUpdatedTo(ip) ==
    LET g   == HllHash[ip]
        old == T!RankOf(g)
        new == HllRank[ip]
    IN  IF new <= old THEN HllKept
        ELSE HllAs([drained.reg EXCEPT ![g] = [epoch |-> drained.epoch, rank |-> new]],
                   drained.sum + Weight[new] - Weight[old],
                   IF old = 0 THEN drained.zeros - 1 ELSE drained.zeros)
OpenUpdatedTo(ip) ==
    IF Promotes(ip)
    THEN OpenAs([drained.open EXCEPT !.total = @ + 1, !.top_count = EstimateAfter(ip),
                                     !.top_key = ip])
    ELSE OpenCounted

\* A packet on its way, by the edges since it came.
PacketFlight(ip) ==
    /\ cms.q_count = drained.answer
    /\ age <= 3 => cms.upd /\ cms.key = ip /\ hll.key = ip /\ tel.key = ip
    /\ cms_mem = IF age <= 1 THEN drained.cell ELSE BanksAfter(ip)
    /\ age <= 2 => cms.phase = age + 1
    /\ age = 2 => cms.s = [b \in Bank |-> T!Bumped(b, ip).count]
    /\ age >= 3 => cms.phase = 0
    /\ age = 3 => cms.upd_done /\ cms.upd_count = EstimateAfter(ip)
    /\ age # 3 => ~cms.upd_done
    /\ age <= 3 => hll.phase = age + 1 /\ HllKept /\ OpenCounted
    /\ age = 3 => hll.rword = hll_mem[HllHash[ip]]
    /\ age = 4 => hll.phase = 0 /\ HllUpdatedTo(ip) /\ OpenUpdatedTo(ip)

QueryFlight(ip) ==
    /\ cms_mem = drained.cell /\ HllKept /\ OpenKept
    /\ hll.phase = 0 /\ ~cms.upd_done
    /\ age <= 3 => ~cms.upd /\ cms.key = ip
    /\ age <= 2 => cms.phase = age + 1 /\ cms.q_count = drained.answer
    /\ age = 2 => cms.s = [b \in Bank |-> T!CountOf(T!CellOf(b, ip))]
    /\ age >= 3 => cms.phase = 0 /\ cms.q_count = T!PointQuery(ip)

InPipeline ==
    /\ cms.epoch = drained.epoch /\ snap = drained.snapshot
    /\ \E ip \in Ip : PacketFlight(ip) \/ QueryFlight(ip)

Idle == cms.phase = 0 /\ hll.phase = 0 /\ ~cms.upd_done

DrainedTyped ==
    /\ drained.open \in [window : WindowIndex, total : Nat, top_count : Count,
                          top_key : Ip]
    /\ drained.reg \in [Register -> HllCell]

TwinInv ==
    /\ SketchInv /\ DrainedTyped
    /\ synced \in BOOLEAN /\ hll.epoch = cms.epoch
    /\ ~InFlight => drained = Observed
    /\ synced => HllOK /\ (InFlight => InPipeline)

LEMMA TwinKept ==
    ASSUME drained' = drained, NEW ip
    PROVE  /\ BanksAfter(ip)' = BanksAfter(ip)
           /\ EstimateAfter(ip)' = EstimateAfter(ip)
           /\ Promotes(ip)' <=> Promotes(ip)
           /\ \A b : T!Bumped(b, ip)' = T!Bumped(b, ip)
           /\ \A b : T!CountOf(T!CellOf(b, ip))' = T!CountOf(T!CellOf(b, ip))
           /\ T!PointQuery(ip)' = T!PointQuery(ip)
           /\ \A g : T!RankOf(g)' = T!RankOf(g)
<1>1. \A b : T!Bumped(b, ip)' = T!Bumped(b, ip)
  BY DEF T!Bumped, T!CountOf, T!CellOf
<1>2. \A b : T!CountOf(T!CellOf(b, ip))' = T!CountOf(T!CellOf(b, ip))
  BY DEF T!CountOf, T!CellOf
<1>3. BanksAfter(ip)' = BanksAfter(ip)
  BY <1>1 DEF BanksAfter
<1>4. EstimateAfter(ip)' = EstimateAfter(ip)
  BY <1>1 DEF EstimateAfter, T!Smallest
<1>5. Promotes(ip)' <=> Promotes(ip)
  BY <1>4 DEF Promotes
<1>6. T!PointQuery(ip)' = T!PointQuery(ip)
  BY <1>2 DEF T!PointQuery, T!Smallest
<1>7. \A g : T!RankOf(g)' = T!RankOf(g)
  BY DEF T!RankOf
<1> QED
  BY <1>1, <1>2, <1>3, <1>4, <1>5, <1>6, <1>7

\* One edge of the timer, the total, the top-1 and the snapshot.
LEMMA WindowEdge ==
    ASSUME TelTypeOK, NEW upd, NEW ip, NEW q, NEW q_ip,
           TelClock(FALSE, upd, ip, q, q_ip)
    PROVE  /\ tel'.tick = (tel.wcnt = 0)
           /\ tel'.wcnt = IF tel.wcnt = 0 THEN WindowCycles - 1 ELSE tel.wcnt - 1
           /\ tel'.key = IF upd THEN ip ELSE tel.key
           /\ ~tel.tick =>
                LET promote == cms.upd_done /\ cms.upd_count > tel.top_count
                IN  /\ tel'.window = tel.window
                    /\ tel'.total = IF upd THEN tel.total + 1 ELSE tel.total
                    /\ tel'.top_count = IF promote THEN cms.upd_count ELSE tel.top_count
                    /\ tel'.top_key = IF promote THEN tel.key ELSE tel.top_key
                    /\ snap' = snap
           /\ tel.tick =>
                /\ tel'.window = (tel.window + 1) % WindowMod /\ tel'.total = 0
                /\ tel'.top_count = 0 /\ tel'.top_key = ZeroIp
                /\ snap' = [window |-> tel.window, total |-> tel.total,
                            sum |-> hll.sum, zeros |-> hll.zeros,
                            top_count |-> tel.top_count, top_key |-> tel.top_key]
<1> DEFINE d == TelDefault(FALSE, upd, ip)
<1>1. /\ {"wcnt", "tick", "key", "window", "total", "top_count", "top_key"}
            \subseteq DOMAIN d
      /\ d.tick = (tel.wcnt = 0)
      /\ d.wcnt = IF tel.wcnt = 0 THEN WindowCycles - 1 ELSE tel.wcnt - 1
      /\ d.key = IF upd THEN ip ELSE tel.key
      /\ d.window = tel.window
  BY DEF TelTypeOK, WindowState, TelDefault
<1>2. CASE WindowBoundary(upd, ip)
  BY <1>1, <1>2 DEF WindowBoundary
<1>3. CASE WindowOpen(upd, ip)
  BY <1>1, <1>3 DEF WindowOpen
<1> QED
  BY <1>2, <1>3 DEF TelClock

\* A counter one higher, written as cms.v and as cms.py write it.
LEMMA IncIsBump ==
    ASSUME NEW v \in Count
    PROVE  Inc(v) = IF v + 1 > CountMax THEN CountMax ELSE v + 1
<1> QED
  BY TelAssumption DEF Inc, Count

\* Between two frames the pipelines are at rest, wherever the ticks fell.
LEMMA IdleApart == ASSUME SketchInv, ~InFlight PROVE Idle
<1>1. TelTypeOK /\ age \in 0 .. TelGap /\ TelGap \in Nat /\ ~(age < 5)
  BY StreamAssumption DEF SketchInv, StreamTypeOK, InFlight, PipeLen
<1>2. cms.phase \in 0 .. 3 /\ hll.phase \in 0 .. 4
  BY <1>1 DEF TelTypeOK, CmsState, CmsPhase, HllState, HllPhase
<1> QED
  BY <1>1, <1>2 DEF SketchInv, WalkAge, PulseAge, Idle

\* An edge of a flight that no tick meets: nothing else arrives.
LEMMA FlightEdge ==
    ASSUME SketchInv, InFlight, InPipeline, ~tel.tick, NEW upd \in BOOLEAN,
           NEW q \in BOOLEAN, NEW src \in Ip, Frame(upd, q, src)
    PROVE  /\ TelTypeOK /\ age \in 0 .. 4 /\ age' = age + 1
           /\ drained' = IF age <= 3 THEN drained ELSE Observed'
           /\ TelClock(FALSE, FALSE, src, FALSE, src) /\ tel.tick = FALSE
           /\ CmsClock(FALSE, FALSE, src, FALSE, src, FALSE)
           /\ HllClock(FALSE, FALSE, src, FALSE)
           /\ cms'.epoch = cms.epoch /\ hll'.epoch = hll.epoch /\ snap' = snap
<1>1. /\ TelTypeOK /\ age \in 0 .. 4 /\ age < TelGap /\ TelGap \in Nat
      /\ tel.tick = FALSE
  <2>1. TelTypeOK /\ age \in 0 .. TelGap /\ TelGap \in Nat /\ TelGap >= 5 /\ age < 5
    BY StreamAssumption DEF SketchInv, StreamTypeOK, InFlight, PipeLen
  <2>2. tel.tick = FALSE
    BY <2>1 DEF TelTypeOK, WindowState
  <2> QED
    BY <2>1, <2>2
<1>2. upd = FALSE /\ q = FALSE /\ age' = age + 1
  BY <1>1 DEF Frame
<1>3. drained' = IF age <= 3 THEN drained ELSE Observed'
  <2>1. drained' = IF age' >= PipeLen THEN Observed' ELSE drained
    BY DEF Frame
  <2>2. age' >= PipeLen <=> ~(age <= 3)
    BY <1>1, <1>2 DEF PipeLen
  <2> QED
    BY <2>1, <2>2
<1>4. TelClock(FALSE, FALSE, src, FALSE, src)
  BY <1>2 DEF Frame
<1>5. /\ CmsClock(FALSE, FALSE, src, FALSE, src, FALSE)
      /\ HllClock(FALSE, FALSE, src, FALSE)
  BY <1>1, <1>4 DEF TelClock
<1>6. cms'.epoch = cms.epoch
  BY <1>1, <1>5, CmsEdge DEF NextTelEpoch
<1>7. hll'.epoch = hll.epoch
  BY <1>1, <1>5, HllEdge DEF NextTelEpoch
<1>8. snap' = snap
  BY <1>1, <1>4, WindowEdge
<1> QED
  BY <1>1, <1>2, <1>3, <1>4, <1>5, <1>6, <1>7, <1>8

\* The read registers of phase 2, seen through the twin.
LEMMA ReadsAreCells ==
    ASSUME TelTypeOK, ReadIsCurrent, cms.phase = 2, cms_mem = drained.cell,
           cms.epoch = drained.epoch, NEW b \in Bank
    PROVE  /\ Eff(cms.r[b]) = T!CountOf(T!CellOf(b, cms.key))
           /\ Eff(cms.r[b]) \in Count
           /\ [epoch |-> cms.epoch, count |-> Inc(Eff(cms.r[b]))] = T!Bumped(b, cms.key)
<1>1. cms.r[b] = cms_mem[b][CmsHash[b][cms.key]] /\ cms.r[b] \in CmsCell
  BY DEF ReadIsCurrent, TelTypeOK, CmsState
<1>2. Eff(cms.r[b]) \in Count
  BY <1>1, CountFacts DEF Eff, CmsCell
<1>3. Eff(cms.r[b]) = T!CountOf(T!CellOf(b, cms.key))
  BY <1>1 DEF Eff, T!CountOf, T!CellOf
<1> DEFINE v == Eff(cms.r[b])
<1>4. Inc(v) = IF v + 1 > CountMax THEN CountMax ELSE v + 1
  BY <1>2, IncIsBump
<1> QED
  BY <1>2, <1>3, <1>4 DEF T!Bumped

LEMMA PacketStep ==
    ASSUME SketchInv, InFlight, InPipeline, ~tel.tick, hll.epoch = cms.epoch,
           HllOK, DrainedTyped,
           NEW src \in Ip, Frame(FALSE, FALSE, src),
           NEW ip \in Ip, PacketFlight(ip), age <= 3
    PROVE  PacketFlight(ip)'
<1>1. /\ TelTypeOK /\ age \in 0 .. 3 /\ age' = age + 1 /\ drained' = drained
      /\ TelClock(FALSE, FALSE, src, FALSE, src) /\ tel.tick = FALSE
      /\ CmsClock(FALSE, FALSE, src, FALSE, src, FALSE)
      /\ HllClock(FALSE, FALSE, src, FALSE)
      /\ cms'.epoch = cms.epoch /\ hll'.epoch = hll.epoch
  <2>1. FALSE \in BOOLEAN /\ age \in 0 .. 4 => age \in 0 .. 3
    OBVIOUS
  <2> QED
    BY <2>1, FlightEdge
<1>2. /\ BanksAfter(ip)' = BanksAfter(ip) /\ EstimateAfter(ip)' = EstimateAfter(ip)
      /\ Promotes(ip)' <=> Promotes(ip)
      /\ \A b : T!Bumped(b, ip)' = T!Bumped(b, ip)
      /\ \A g : T!RankOf(g)' = T!RankOf(g)
  BY <1>1, TwinKept
<1>3. /\ hll'.rword = hll_mem[HllHash[hll.key]]
      /\ hll.phase \in 1 .. 3 => hll'.phase = hll.phase + 1 /\ hll'.key = hll.key
      /\ hll.phase # 4 => /\ hll_mem' = hll_mem
                          /\ hll'.sum = hll.sum /\ hll'.zeros = hll.zeros
      /\ hll.phase = 4 => hll'.phase = 0
  BY <1>1, HllEdge
<1>4. /\ cms.phase = 0 => cms'.phase = 0
      /\ cms.phase \in 1 .. 2 => /\ cms'.phase = cms.phase + 1
                                 /\ cms'.upd = cms.upd /\ cms'.key = cms.key
      /\ cms.phase = 3 => cms'.phase = 0
      /\ cms_mem' = IF cms.phase = 2 /\ cms.upd
           THEN [b \in Bank |-> [cms_mem[b] EXCEPT ![CmsHash[b][cms.key]] =
                    [epoch |-> cms.epoch, count |-> Inc(Eff(cms.r[b]))]]]
           ELSE cms_mem
  BY <1>1, CmsEdge
<1>5. /\ cms.phase # 3 => ~cms'.upd_done /\ cms'.q_count = cms.q_count
      /\ cms.phase = 3 => cms'.upd = cms.upd /\ cms'.key = cms.key
      /\ cms.phase = 3 /\ cms.upd => /\ cms'.upd_done /\ cms'.upd_count = LeastScratch
                                     /\ cms'.q_count = cms.q_count
      /\ cms.phase = 2 => cms'.s = [b \in Bank |-> IF cms.upd THEN Inc(Eff(cms.r[b]))
                                                              ELSE Eff(cms.r[b])]
  BY <1>1, CmsResult
<1>6. /\ tel'.key = tel.key /\ tel'.window = tel.window /\ tel'.total = tel.total
      /\ LET promote == cms.upd_done /\ cms.upd_count > tel.top_count
         IN  /\ tel'.top_count = IF promote THEN cms.upd_count ELSE tel.top_count
             /\ tel'.top_key = IF promote THEN tel.key ELSE tel.top_key
  BY <1>1, WindowEdge
<1>7. CASE age <= 2
  <2>1. /\ cms.upd /\ cms.key = ip /\ hll.key = ip /\ tel.key = ip
        /\ cms.phase = age + 1 /\ ~cms.upd_done /\ hll.phase = age + 1
        /\ cms.q_count = drained.answer /\ HllKept /\ OpenCounted
    BY <1>1, <1>7 DEF PacketFlight
  <2>2. HllKept'
    BY <1>1, <1>3, <1>7, <2>1 DEF HllKept, HllAs
  <2>3. OpenCounted'
    BY <1>1, <1>6, <2>1 DEF OpenCounted, OpenAs
  <2>4. hll'.phase = age' + 1 /\ hll'.key = ip /\ tel'.key = ip
    BY <1>1, <1>3, <1>6, <1>7, <2>1
  <2>5. cms'.upd /\ cms'.key = ip
    <3>1. cms.phase \in 1 .. 2 \/ cms.phase = 3
      BY <1>1, <1>7, <2>1
    <3>2. cms'.upd = cms.upd /\ cms'.key = cms.key
      BY <1>4, <1>5, <3>1
    <3> QED
      BY <2>1, <3>2
  <2>6. age = 2 => hll'.rword = hll_mem'[HllHash[ip]]
    BY <1>3, <2>1
  <2>7. CASE age = 0
    <3>1. cms_mem' = drained'.cell /\ cms'.phase = 2 /\ age' = 1
      BY <1>1, <1>4, <2>1, <2>7 DEF PacketFlight
    <3>2. ~cms'.upd_done /\ cms'.q_count = drained'.answer
      BY <1>1, <1>5, <2>1, <2>7
    <3> QED
      BY <2>2, <2>3, <2>4, <2>5, <3>1, <3>2 DEF PacketFlight
  <2>8. CASE age = 1
    <3>1. /\ cms_mem = drained.cell /\ cms.phase = 2 /\ age' = 2 /\ cms.epoch = drained.epoch
          /\ ReadIsCurrent
      BY <1>1, <2>1, <2>8 DEF PacketFlight, InPipeline, SketchInv
    <3>2. \A b \in Bank :
             [epoch |-> cms.epoch, count |-> Inc(Eff(cms.r[b]))] = T!Bumped(b, ip)
      BY <1>1, <2>1, <3>1, ReadsAreCells
    <3>3. cms_mem' = BanksAfter(ip)
      <4>1. cms_mem' = [b \in Bank |-> [cms_mem[b] EXCEPT ![CmsHash[b][ip]] =
                    [epoch |-> cms.epoch, count |-> Inc(Eff(cms.r[b]))]]]
        BY <1>4, <2>1, <3>1
      <4> QED
        BY <3>1, <3>2, <4>1 DEF BanksAfter
    <3>4. cms'.s = [b \in Bank |-> T!Bumped(b, ip).count]
      <4>1. cms'.s = [b \in Bank |-> Inc(Eff(cms.r[b]))]
        BY <1>5, <2>1, <3>1
      <4>2. \A b \in Bank : Inc(Eff(cms.r[b])) = T!Bumped(b, ip).count
        BY <3>2
      <4> QED
        BY <4>1, <4>2
    <3>5. cms'.phase = 3 /\ ~cms'.upd_done /\ cms'.q_count = drained'.answer
      <4>1. cms'.phase = 3
        BY <1>4, <3>1
      <4>2. ~cms'.upd_done /\ cms'.q_count = cms.q_count
        BY <1>5, <3>1
      <4> QED
        BY <1>1, <2>1, <4>1, <4>2
    <3>6. cms'.s = [b \in Bank |-> T!Bumped(b, ip)'.count]
      BY <1>2, <3>4
    <3>7. cms_mem' = BanksAfter(ip)'
      BY <1>2, <3>3
    <3> QED
      BY <2>2, <2>3, <2>4, <2>5, <3>1, <3>5, <3>6, <3>7 DEF PacketFlight
  <2>9. CASE age = 2
    <3>1. cms_mem = BanksAfter(ip) /\ cms.phase = 3 /\ age' = 3
      BY <1>1, <2>1, <2>9 DEF PacketFlight
    <3>2. cms_mem' = BanksAfter(ip)' /\ cms'.phase = 0
      BY <1>2, <1>4, <3>1
    <3>3. LeastScratch = EstimateAfter(ip)
      <4>1. cms.s = [b \in Bank |-> T!Bumped(b, ip).count]
        BY <2>9 DEF PacketFlight
      <4>2. {cms.s[b] : b \in Bank} = {T!Bumped(b, ip).count : b \in Bank}
        BY <4>1
      <4> QED
        BY <4>2 DEF LeastScratch, Least, EstimateAfter, T!Smallest
    <3>4. /\ cms'.upd_done /\ cms'.upd_count = EstimateAfter(ip)'
          /\ cms'.q_count = drained'.answer
      BY <1>1, <1>2, <1>5, <2>1, <3>1, <3>3
    <3> QED
      BY <2>2, <2>3, <2>4, <2>5, <2>6, <2>9, <3>1, <3>2, <3>4 DEF PacketFlight
  <2> QED
    BY <1>1, <1>7, <2>7, <2>8, <2>9
<1>8. CASE age = 3
  <2>1. /\ hll.key = ip /\ tel.key = ip /\ cms_mem = BanksAfter(ip) /\ cms.phase = 0
        /\ cms.upd_done /\ cms.upd_count = EstimateAfter(ip)
        /\ hll.phase = 4 /\ HllKept /\ OpenCounted
        /\ hll.rword = hll_mem[HllHash[ip]] /\ cms.q_count = drained.answer
    BY <1>8 DEF PacketFlight
  <2>2. /\ cms_mem' = BanksAfter(ip)' /\ cms'.phase = 0 /\ ~cms'.upd_done
        /\ cms'.q_count = drained'.answer /\ hll'.phase = 0 /\ age' = 4
    BY <1>1, <1>2, <1>3, <1>4, <1>5, <1>8, <2>1
  <2>3. HllUpdatedTo(ip)'
    <3>1. T!RankOf(HllHash[ip]) = RankNow(HllHash[ip]) /\ hll.epoch = drained.epoch
      BY <2>1 DEF T!RankOf, RankNow, HllKept, HllAs, InPipeline
    <3>2. HllUpdate(FALSE)
      <4>1. HllStart(FALSE, src, FALSE) \/ HllHashing(FALSE) \/ HllUpdate(FALSE)
        BY <1>1 DEF HllClock
      <4>2. ~HllStart(FALSE, src, FALSE) /\ ~HllHashing(FALSE)
        BY <2>1 DEF HllStart, HllHashing
      <4> QED
        BY <4>1, <4>2
    <3> DEFINE g   == HllHash[ip]
               old == RankNow(g)
               new == HllRank[ip]
    <3>3. IF new <= old
          THEN hll_mem' = hll_mem /\ hll'.sum = hll.sum /\ hll'.zeros = hll.zeros
          ELSE /\ hll_mem' = [hll_mem EXCEPT ![g] = [epoch |-> hll.epoch, rank |-> new]]
               /\ hll'.sum = hll.sum + Weight[new] - Weight[old]
               /\ hll'.zeros = IF old = 0 THEN hll.zeros - 1 ELSE hll.zeros
      BY <1>1, <2>1, <3>2, HllExact
    <3>4. T!RankOf(g)' = old
      BY <1>2, <3>1
    <3>5. hll_mem = drained.reg /\ hll.sum = drained.sum /\ hll.zeros = drained.zeros
      BY <2>1 DEF HllKept, HllAs
    <3>6. CASE new <= old
      <4>1. HllKept'
        BY <1>1, <3>3, <3>5, <3>6 DEF HllKept, HllAs
      <4> QED
        BY <3>4, <3>6, <4>1 DEF HllUpdatedTo
    <3>7. CASE ~(new <= old)
      <4>1. /\ hll_mem' = [drained'.reg EXCEPT ![g] = [epoch |-> drained'.epoch, rank |-> new]]
            /\ hll'.sum = drained'.sum + Weight[new] - Weight[T!RankOf(g)']
            /\ hll'.zeros = IF T!RankOf(g)' = 0 THEN drained'.zeros - 1 ELSE drained'.zeros
        BY <1>1, <3>1, <3>3, <3>4, <3>5, <3>7
      <4> QED
        BY <3>4, <3>7, <4>1 DEF HllUpdatedTo, HllAs
    <3> QED
      BY <3>6, <3>7
  <2>4. OpenUpdatedTo(ip)'
    <3>1. drained.open \in [window : WindowIndex, total : Nat, top_count : Count,
                            top_key : Ip]
      BY DEF DrainedTyped
    <3>2. /\ tel.window = drained.open.window /\ tel.total = drained.open.total + 1
          /\ tel.top_count = drained.open.top_count /\ tel.top_key = drained.open.top_key
      BY <2>1, <3>1 DEF OpenCounted, OpenAs
    <3>3. CASE Promotes(ip)
      BY <1>1, <1>2, <1>6, <2>1, <3>1, <3>2, <3>3 DEF OpenUpdatedTo, OpenAs, Promotes
    <3>4. CASE ~Promotes(ip)
      BY <1>1, <1>2, <1>6, <2>1, <3>1, <3>2, <3>4
         DEF OpenUpdatedTo, OpenCounted, OpenAs, Promotes
    <3> QED
      BY <3>3, <3>4
  <2> QED
    BY <2>2, <2>3, <2>4 DEF PacketFlight
<1> QED
  BY <1>1, <1>7, <1>8

LEMMA QueryStep ==
    ASSUME SketchInv, InFlight, InPipeline, ~tel.tick,
           NEW src \in Ip, Frame(FALSE, FALSE, src),
           NEW ip \in Ip, QueryFlight(ip), age <= 3
    PROVE  QueryFlight(ip)'
<1>1. /\ TelTypeOK /\ age \in 0 .. 3 /\ age' = age + 1 /\ drained' = drained
      /\ TelClock(FALSE, FALSE, src, FALSE, src) /\ tel.tick = FALSE
      /\ CmsClock(FALSE, FALSE, src, FALSE, src, FALSE)
      /\ HllClock(FALSE, FALSE, src, FALSE)
  <2>1. FALSE \in BOOLEAN /\ age \in 0 .. 4 => age \in 0 .. 3
    OBVIOUS
  <2> QED
    BY <2>1, FlightEdge
<1>2. /\ \A b : T!CountOf(T!CellOf(b, ip))' = T!CountOf(T!CellOf(b, ip))
      /\ T!PointQuery(ip)' = T!PointQuery(ip)
  BY <1>1, TwinKept
<1>3. hll'.phase = 0 /\ HllKept'
  <2>1. hll.phase = 0 /\ HllKept
    BY DEF QueryFlight
  <2>2. /\ hll.phase = 0 => hll'.phase = 0
        /\ hll.phase # 4 => /\ hll_mem' = hll_mem
                            /\ hll'.sum = hll.sum /\ hll'.zeros = hll.zeros
    BY <1>1, HllEdge
  <2> QED
    BY <1>1, <2>1, <2>2 DEF HllKept, HllAs
<1>4. OpenKept'
  <2>1. OpenKept /\ ~cms.upd_done
    BY DEF QueryFlight
  <2>2. /\ tel'.window = tel.window /\ tel'.total = tel.total
        /\ tel'.top_count = tel.top_count /\ tel'.top_key = tel.top_key
    BY <1>1, <2>1, WindowEdge
  <2> QED
    BY <1>1, <2>1, <2>2 DEF OpenKept, OpenAs
<1>5. ~cms.upd /\ cms.key = ip /\ cms_mem = drained.cell
  BY DEF QueryFlight
<1>6. /\ cms.phase = 0 => cms'.phase = 0
      /\ cms.phase \in 1 .. 2 => /\ cms'.phase = cms.phase + 1
                                 /\ cms'.upd = cms.upd /\ cms'.key = cms.key
      /\ cms.phase = 3 => cms'.phase = 0
      /\ cms_mem' = cms_mem
  BY <1>1, <1>5, CmsEdge
<1>7. /\ cms.phase # 3 => ~cms'.upd_done /\ cms'.q_count = cms.q_count
      /\ cms.phase = 3 => cms'.upd = cms.upd /\ cms'.key = cms.key
      /\ cms.phase = 3 => ~cms'.upd_done /\ cms'.q_count = LeastScratch
      /\ cms.phase = 2 => cms'.s = [b \in Bank |-> IF cms.upd THEN Inc(Eff(cms.r[b]))
                                                              ELSE Eff(cms.r[b])]
  BY <1>1, <1>5, CmsResult
<1>8. CASE age = 0
  BY <1>1, <1>3, <1>4, <1>5, <1>6, <1>7, <1>8 DEF QueryFlight
<1>9. CASE age = 1
  <2>1. cms.phase = 2 /\ cms.epoch = drained.epoch /\ ReadIsCurrent /\ age' = 2
    BY <1>1, <1>9 DEF QueryFlight, InPipeline, SketchInv
  <2>2. \A b \in Bank : Eff(cms.r[b]) = T!CountOf(T!CellOf(b, ip))
    BY <1>1, <1>5, <2>1, ReadsAreCells
  <2>3. cms'.s = [b \in Bank |-> T!CountOf(T!CellOf(b, ip))']
    <3>1. cms'.s = [b \in Bank |-> Eff(cms.r[b])]
      BY <1>5, <1>7, <2>1
    <3> QED
      BY <1>2, <2>2, <3>1
  <2>4. cms.q_count = drained.answer
    BY <1>9 DEF QueryFlight
  <2> QED
    BY <1>1, <1>3, <1>4, <1>5, <1>6, <1>7, <2>1, <2>3, <2>4 DEF QueryFlight
<1>10. CASE age = 2
  <2>1. cms.phase = 3 /\ age' = 3 /\ cms.s = [b \in Bank |-> T!CountOf(T!CellOf(b, ip))]
    BY <1>1, <1>10 DEF QueryFlight
  <2>2. {cms.s[b] : b \in Bank} = {T!CountOf(T!CellOf(b, ip)) : b \in Bank}
    BY <2>1
  <2>3. LeastScratch = T!PointQuery(ip)
    BY <2>2 DEF LeastScratch, Least, T!PointQuery, T!Smallest
  <2> QED
    BY <1>1, <1>2, <1>3, <1>4, <1>5, <1>6, <1>7, <2>1, <2>3 DEF QueryFlight
<1>11. CASE age = 3
  <2>1. cms.phase = 0 /\ age' = 4 /\ cms.q_count = T!PointQuery(ip)
    BY <1>1, <1>11 DEF QueryFlight
  <2> QED
    BY <1>1, <1>2, <1>3, <1>4, <1>5, <1>6, <1>7, <2>1 DEF QueryFlight
<1> QED
  BY <1>1, <1>8, <1>9, <1>10, <1>11

\* The fifth edge of a flight: the pipelines are idle, and what the twin is
\* shown moves by one packet or one query.
LEMMA FlightDone ==
    ASSUME SketchInv, InFlight, InPipeline, ~tel.tick, DrainedTyped, synced,
           NEW src \in Ip, Frame(FALSE, FALSE, src),
           NEW ip \in Ip, PacketFlight(ip) \/ QueryFlight(ip), age = 4
    PROVE  T!Update(ip) \/ T!Query(ip)
<1>0. synced' = synced
  BY DEF Frame
<1>1. /\ TelTypeOK /\ drained' = Observed'
      /\ TelClock(FALSE, FALSE, src, FALSE, src) /\ tel.tick = FALSE
      /\ CmsClock(FALSE, FALSE, src, FALSE, src, FALSE)
      /\ HllClock(FALSE, FALSE, src, FALSE)
      /\ cms'.epoch = cms.epoch /\ snap' = snap
  <2>1. FALSE \in BOOLEAN /\ ~(age <= 3)
    OBVIOUS
  <2> QED
    BY <2>1, FlightEdge
<1>2. cms.phase = 0 /\ hll.phase = 0 /\ ~cms.upd_done
  BY DEF PacketFlight, QueryFlight
<1>3. /\ hll'.phase = 0 /\ hll_mem' = hll_mem
      /\ hll'.sum = hll.sum /\ hll'.zeros = hll.zeros
  <2>1. /\ hll.phase = 0 => hll'.phase = 0
        /\ hll.phase # 4 => /\ hll_mem' = hll_mem
                            /\ hll'.sum = hll.sum /\ hll'.zeros = hll.zeros
    BY <1>1, HllEdge
  <2> QED
    BY <1>2, <2>1
<1>4. cms'.phase = 0 /\ cms_mem' = cms_mem
  <2>1. /\ cms.phase = 0 => cms'.phase = 0
        /\ cms_mem' = IF cms.phase = 2 /\ cms.upd
             THEN [b \in Bank |-> [cms_mem[b] EXCEPT ![CmsHash[b][cms.key]] =
                      [epoch |-> cms.epoch, count |-> Inc(Eff(cms.r[b]))]]]
             ELSE cms_mem
    BY <1>1, CmsEdge
  <2> QED
    BY <1>2, <2>1
<1>5. ~cms'.upd_done /\ cms'.q_count = cms.q_count
  <2>1. cms.phase # 3 => ~cms'.upd_done /\ cms'.q_count = cms.q_count
    BY <1>1, CmsResult
  <2> QED
    BY <1>2, <2>1
<1>6. /\ tel'.window = tel.window /\ tel'.total = tel.total
      /\ tel'.top_count = tel.top_count /\ tel'.top_key = tel.top_key
  BY <1>1, <1>2, WindowEdge
<1>8. /\ drained'.cell = cms_mem /\ drained'.epoch = drained.epoch
      /\ drained'.reg = hll_mem /\ drained'.sum = hll.sum /\ drained'.zeros = hll.zeros
      /\ drained'.open = [window |-> tel.window, total |-> tel.total,
                          top_count |-> tel.top_count, top_key |-> tel.top_key]
      /\ drained'.snapshot = drained.snapshot /\ drained'.answer = cms.q_count
  <2>1. cms.epoch = drained.epoch /\ snap = drained.snapshot
    BY DEF InPipeline
  <2> QED
    BY <1>1, <1>3, <1>4, <1>5, <1>6, <2>1 DEF Observed
<1>9. PICK w \in WindowIndex, t \in Nat, c \in Count, k \in Ip :
         drained.open = [window |-> w, total |-> t, top_count |-> c, top_key |-> k]
  BY DEF DrainedTyped
<1>10. CASE PacketFlight(ip)
  <2>1. /\ cms_mem = BanksAfter(ip) /\ cms.q_count = drained.answer
        /\ HllUpdatedTo(ip) /\ OpenUpdatedTo(ip)
    BY <1>10 DEF PacketFlight
  <2>2. drained'.cell = [b \in Bank |->
                  [drained.cell[b] EXCEPT ![CmsHash[b][ip]] = T!Bumped(b, ip)]]
    BY <1>8, <2>1 DEF BanksAfter
  <2>3. T!HllUpdated(ip)
    <3> DEFINE old == T!RankOf(HllHash[ip])
               new == HllRank[ip]
    <3>1. CASE new <= old
      <4>1. HllKept
        BY <2>1, <3>1 DEF HllUpdatedTo
      <4> QED
        BY <1>8, <3>1, <4>1 DEF T!HllUpdated, HllKept, HllAs
    <3>2. CASE ~(new <= old)
      <4>1. /\ drained'.reg = [drained.reg EXCEPT ![HllHash[ip]] =
                                 [epoch |-> drained.epoch, rank |-> new]]
            /\ drained'.sum = drained.sum + Weight[new] - Weight[old]
            /\ drained'.zeros = IF old = 0 THEN drained.zeros - 1 ELSE drained.zeros
        BY <1>8, <2>1, <3>2 DEF HllUpdatedTo, HllAs
      <4>2. new > old
        <5>1. new \in 1 .. RankMax /\ RankMax \in Nat /\ HllHash[ip] \in Register
          BY TelAssumption
        <5>2. old \in Rank
          BY <5>1, WidthFacts DEF DrainedTyped, HllCell, T!RankOf
        <5> HIDE DEF old, new
        <5> QED
          BY <3>2, <5>1, <5>2 DEF Rank
      <4> QED
        BY <4>1, <4>2 DEF T!HllUpdated
    <3> QED
      BY <3>1, <3>2
  <2>4. drained'.open = IF EstimateAfter(ip) > drained.open.top_count
            THEN [[drained.open EXCEPT !.total = @ + 1]
                     EXCEPT !.top_count = EstimateAfter(ip), !.top_key = ip]
            ELSE [drained.open EXCEPT !.total = @ + 1]
    <3>1. CASE Promotes(ip)
      <4>1. /\ tel.window = w /\ tel.total = t + 1
            /\ tel.top_count = EstimateAfter(ip) /\ tel.top_key = ip
        BY <1>9, <2>1, <3>1 DEF OpenUpdatedTo, OpenAs
      <4>2. drained'.open = [window |-> w, total |-> t + 1,
                             top_count |-> EstimateAfter(ip), top_key |-> ip]
        BY <1>8, <4>1
      <4>3. PICK e, r : e = EstimateAfter(ip) /\ r = [drained.open EXCEPT !.total = @ + 1]
        OBVIOUS
      <4>4. r = [window |-> w, total |-> t + 1, top_count |-> c, top_key |-> k]
        BY <1>9, <4>3
      <4>5. [r EXCEPT !.top_count = e, !.top_key = ip]
              = [window |-> w, total |-> t + 1, top_count |-> e, top_key |-> ip]
        <5> DEFINE u == [r EXCEPT !.top_count = e]
        <5>1. [r EXCEPT !.top_count = e, !.top_key = ip] = [u EXCEPT !.top_key = ip]
          OBVIOUS
        <5>2. u = [window |-> w, total |-> t + 1, top_count |-> e, top_key |-> k]
          BY <4>4
        <5> HIDE DEF u
        <5>3. [u EXCEPT !.top_key = ip]
                = [window |-> w, total |-> t + 1, top_count |-> e, top_key |-> ip]
          BY <5>2
        <5> QED
          BY <5>1, <5>3
      <4>6. EstimateAfter(ip) > drained.open.top_count
        BY <3>1 DEF Promotes
      <4> QED
        BY <4>2, <4>3, <4>5, <4>6, Zenon
    <3>2. CASE ~Promotes(ip)
      <4>1. /\ tel.window = w /\ tel.total = t + 1
            /\ tel.top_count = c /\ tel.top_key = k
        BY <1>9, <2>1, <3>2 DEF OpenUpdatedTo, OpenCounted, OpenAs
      <4>2. drained'.open = [window |-> w, total |-> t + 1, top_count |-> c, top_key |-> k]
        BY <1>8, <4>1
      <4> QED
        BY <1>9, <3>2, <4>2 DEF Promotes
    <3> QED
      BY <3>1, <3>2
  <2> QED
    BY <1>0, <1>8, <2>1, <2>2, <2>3, <2>4 DEF T!Update, EstimateAfter
<1>11. CASE QueryFlight(ip)
  <2>1. /\ cms_mem = drained.cell /\ HllKept /\ OpenKept
        /\ cms.q_count = T!PointQuery(ip)
    BY <1>11 DEF QueryFlight
  <2>2. drained'.open = drained.open
    BY <1>8, <1>9, <2>1 DEF OpenKept, OpenAs
  <2> QED
    BY <1>0, <1>8, <2>1, <2>2 DEF T!Query, HllKept, HllAs
<1> QED
  BY <1>10, <1>11

\* A frame that comes while the pipelines are idle starts its flight.
LEMMA TakeOff ==
    ASSUME SketchInv, ~InFlight, drained = Observed, ~tel.tick,
           NEW upd \in BOOLEAN, NEW q \in BOOLEAN, NEW src \in Ip,
           Frame(upd, q, src), upd \/ q
    PROVE  drained' = drained /\ InFlight' /\ InPipeline'
<1>1. TelTypeOK /\ age' = 0 /\ tel.tick = FALSE /\ upd = ~q
  <2>1. TelTypeOK
    BY DEF SketchInv, StreamTypeOK
  <2>2. tel.tick \in BOOLEAN
    BY <2>1 DEF TelTypeOK, WindowState
  <2>3. age' = 0 /\ ~(upd /\ q)
    BY DEF Frame
  <2> QED
    BY <2>1, <2>2, <2>3
<1>2. drained' = drained /\ InFlight'
  BY <1>1 DEF Frame, PipeLen, InFlight
<1>3. /\ TelClock(FALSE, upd, src, q, src)
      /\ CmsClock(FALSE, upd, src, q, src, FALSE) /\ HllClock(FALSE, upd, src, FALSE)
  BY <1>1 DEF Frame, TelClock
<1>4. cms.phase = 0 /\ hll.phase = 0 /\ ~cms.upd_done /\ drained = Observed
  BY IdleApart DEF Idle
<1>5. /\ drained.cell = cms_mem /\ drained.epoch = cms.epoch /\ drained.reg = hll_mem
      /\ drained.sum = hll.sum /\ drained.zeros = hll.zeros
      /\ drained.open.window = tel.window /\ drained.open.total = tel.total
      /\ drained.open.top_count = tel.top_count /\ drained.open.top_key = tel.top_key
      /\ drained.snapshot = snap /\ drained.answer = cms.q_count
  BY <1>4 DEF Observed
<1>6. /\ cms'.epoch = cms.epoch /\ cms_mem' = cms_mem
      /\ cms'.phase = 1 /\ cms'.upd = upd /\ cms'.key = src
  <2>0. TelTypeOK /\ CmsClock(FALSE, upd, src, q, src, FALSE)
    BY <1>1, <1>3
  <2>1. cms'.epoch = cms.epoch
    BY <2>0, CmsEdge DEF NextTelEpoch
  <2>2. cms.phase = 0 /\ (upd \/ q)
          => /\ cms'.phase = 1 /\ cms'.upd = upd
             /\ cms'.key = IF upd THEN src ELSE src
    BY <2>0, CmsEdge, Zenon
  <2>3. cms_mem' # cms_mem => cms.phase = 2
    BY <1>1, <1>3, CmsMoves
  <2> QED
    BY <1>4, <2>1, <2>2, <2>3
<1>7. ~cms'.upd_done /\ cms'.q_count = cms.q_count
  <2>1. cms.phase # 3 => ~cms'.upd_done /\ cms'.q_count = cms.q_count
    BY <1>1, <1>3, CmsResult
  <2> QED
    BY <1>4, <2>1
<1>8. /\ hll_mem' = hll_mem /\ hll'.sum = hll.sum /\ hll'.zeros = hll.zeros
      /\ upd => hll'.phase = 1 /\ hll'.key = src
      /\ ~upd => hll'.phase = 0
  <2>1. /\ hll.phase = 0 /\ upd => hll'.phase = 1 /\ hll'.key = src
        /\ hll.phase = 0 /\ ~upd => hll'.phase = 0
        /\ hll.phase # 4 => /\ hll_mem' = hll_mem
                            /\ hll'.sum = hll.sum /\ hll'.zeros = hll.zeros
    BY <1>1, <1>3, HllEdge
  <2> QED
    BY <1>4, <2>1
<1>9. /\ tel'.key = IF upd THEN src ELSE tel.key
      /\ tel'.window = tel.window
      /\ tel'.total = IF upd THEN tel.total + 1 ELSE tel.total
      /\ tel'.top_count = tel.top_count /\ tel'.top_key = tel.top_key /\ snap' = snap
  <2>1. /\ tel'.key = IF upd THEN src ELSE tel.key
        /\ ~tel.tick =>
             LET promote == cms.upd_done /\ cms.upd_count > tel.top_count
             IN  /\ tel'.window = tel.window
                 /\ tel'.total = IF upd THEN tel.total + 1 ELSE tel.total
                 /\ tel'.top_count = IF promote THEN cms.upd_count ELSE tel.top_count
                 /\ tel'.top_key = IF promote THEN tel.key ELSE tel.top_key
                 /\ snap' = snap
    BY <1>1, <1>3, WindowEdge, Zenon
  <2>2. /\ tel'.window = tel.window
        /\ tel'.total = IF upd THEN tel.total + 1 ELSE tel.total
        /\ tel'.top_count = tel.top_count /\ tel'.top_key = tel.top_key /\ snap' = snap
    BY <1>1, <1>4, <2>1
  <2> QED
    BY <2>1, <2>2
<1>10. HllKept'
  BY <1>2, <1>5, <1>8 DEF HllKept, HllAs
<1>11. CASE upd
  <2>1. OpenCounted'
    <3>1. drained.open = [window |-> tel.window, total |-> tel.total,
                          top_count |-> tel.top_count, top_key |-> tel.top_key]
      BY <1>4 DEF Observed
    <3> QED
      BY <1>2, <1>9, <1>11, <3>1 DEF OpenCounted, OpenAs
  <2>2. PacketFlight(src)'
    <3>1. /\ cms'.q_count = drained'.answer /\ cms_mem' = drained'.cell
          /\ cms'.upd /\ cms'.key = src /\ hll'.key = src /\ tel'.key = src
          /\ cms'.phase = 1 /\ hll'.phase = 1 /\ ~cms'.upd_done
      BY <1>2, <1>5, <1>6, <1>7, <1>8, <1>9, <1>11
    <3> QED
      BY <1>1, <1>10, <2>1, <3>1 DEF PacketFlight
  <2> QED
    BY <1>1, <1>2, <1>5, <1>6, <1>9, <2>2 DEF InPipeline, PipeLen
<1>12. CASE ~upd
  <2>1. OpenKept'
    BY <1>2, <1>5, <1>9, <1>12 DEF OpenKept, OpenAs
  <2>2. QueryFlight(src)'
    <3>1. /\ cms'.q_count = drained'.answer /\ cms_mem' = drained'.cell
          /\ ~cms'.upd /\ cms'.key = src
          /\ cms'.phase = 1 /\ hll'.phase = 0 /\ ~cms'.upd_done
      BY <1>2, <1>5, <1>6, <1>7, <1>8, <1>12
    <3> QED
      BY <1>1, <1>10, <2>1, <3>1 DEF QueryFlight
  <2> QED
    BY <1>1, <1>2, <1>5, <1>6, <1>9, <2>2 DEF InPipeline, PipeLen
<1> QED
  BY <1>2, <1>11, <1>12

LEMMA TwinSums ==
    T!EmptySum = EmptySum /\ T!Cardinality(Register) = Cardinality(Register)
<1> QED
  BY DEF T!EmptySum, EmptySum, T!Cardinality, Cardinality

\* An idle edge is a window tick of the twin, or nothing.
LEMMA IdleEdge ==
    ASSUME SketchInv, ~InFlight, drained = Observed, hll.epoch = cms.epoch,
           NEW src \in Ip, Frame(FALSE, FALSE, src)
    PROVE  T!WindowTick \/ (drained' = drained /\ synced' = synced)
<1>1. TelTypeOK /\ tel.tick \in BOOLEAN /\ age \in 5 .. TelGap /\ TelGap \in Nat
  <2>1. TelTypeOK /\ age \in 0 .. TelGap /\ TelGap \in Nat
    BY StreamAssumption DEF SketchInv, StreamTypeOK
  <2> QED
    BY <2>1 DEF TelTypeOK, WindowState, InFlight, PipeLen
<1>2. age' >= 5 /\ age' \in Nat
  BY <1>1 DEF Frame
<1>3. drained' = Observed' /\ ~InFlight'
  BY <1>2 DEF Frame, InFlight, PipeLen
<1>4. /\ TelClock(FALSE, FALSE, src, FALSE, src)
      /\ CmsClock(FALSE, FALSE, src, FALSE, src, tel.tick)
      /\ HllClock(FALSE, FALSE, src, tel.tick)
  BY DEF Frame, TelClock
<1>5. cms.phase = 0 /\ hll.phase = 0 /\ ~cms.upd_done /\ drained = Observed
  BY IdleApart DEF Idle
<1>6. /\ cms'.epoch = NextTelEpoch(cms.epoch, tel.tick) /\ cms_mem' = cms_mem
      /\ cms'.phase = 0
  <2>0. TelTypeOK /\ CmsClock(FALSE, FALSE, src, FALSE, src, tel.tick)
    BY <1>1, <1>4
  <2>1. cms'.epoch = NextTelEpoch(cms.epoch, tel.tick)
    BY <2>0, CmsEpoch
  <2>2. cms.phase = 0 => cms'.phase = 0
    BY <1>1, <1>4, CmsEdge
  <2>3. cms_mem' # cms_mem => cms.phase = 2
    BY <1>1, <1>4, CmsMoves
  <2> QED
    BY <1>5, <2>1, <2>2, <2>3
<1>7. cms'.q_count = cms.q_count
  <2>1. cms.phase # 3 => cms'.q_count = cms.q_count
    BY <1>1, <1>4, CmsResult
  <2> QED
    BY <1>5, <2>1
<1>8. /\ hll_mem' = hll_mem /\ hll'.phase = 0
      /\ hll'.sum = IF tel.tick THEN EmptySum ELSE hll.sum
      /\ hll'.zeros = IF tel.tick THEN Cardinality(Register) ELSE hll.zeros
  <2>1. /\ hll.phase = 0 => hll'.phase = 0
        /\ hll.phase # 4 =>
             /\ hll_mem' = hll_mem
             /\ hll'.sum = IF tel.tick THEN EmptySum ELSE hll.sum
             /\ hll'.zeros = IF tel.tick THEN Cardinality(Register) ELSE hll.zeros
    BY <1>1, <1>4, HllEdge
  <2> QED
    BY <1>5, <2>1
<1>9. (tel.tick => ~(~synced)') /\ (~tel.tick => synced' = synced)
  BY DEF Frame
<1>10. /\ drained'.cell = drained.cell /\ drained'.reg = drained.reg
       /\ drained'.answer = drained.answer
  BY <1>3, <1>5, <1>6, <1>7, <1>8 DEF Observed
<1>11. CASE tel.tick
  <2>1. /\ tel'.window = (tel.window + 1) % WindowMod /\ tel'.total = 0
        /\ tel'.top_count = 0 /\ tel'.top_key = ZeroIp
        /\ snap' = [window |-> tel.window, total |-> tel.total,
                    sum |-> hll.sum, zeros |-> hll.zeros,
                    top_count |-> tel.top_count, top_key |-> tel.top_key]
    BY <1>1, <1>4, <1>11, WindowEdge
  <2>2. drained'.snapshot = [window |-> drained.open.window, total |-> drained.open.total,
            sum |-> drained.sum, zeros |-> drained.zeros,
            top_count |-> drained.open.top_count, top_key |-> drained.open.top_key]
    BY <1>3, <1>5, <2>1 DEF Observed
  <2>3. /\ drained'.epoch = (drained.epoch + 1) % TelEpochs
        /\ drained'.sum = T!EmptySum /\ drained'.zeros = Cardinality(Register)
    <3>1. cms'.epoch = (cms.epoch + 1) % TelEpochs
      BY <1>6, <1>11 DEF NextTelEpoch
    <3>2. hll'.sum = EmptySum /\ hll'.zeros = Cardinality(Register)
      BY <1>8, <1>11
    <3>3. EmptySum = T!EmptySum
      BY TwinSums
    <3>4. drained.epoch = cms.epoch
      BY <1>5 DEF Observed
    <3>5. /\ drained'.epoch = cms'.epoch /\ drained'.sum = hll'.sum
          /\ drained'.zeros = hll'.zeros
      BY <1>3 DEF Observed
    <3> QED
      BY <3>1, <3>2, <3>3, <3>4, <3>5
  <2>4. drained'.open = [window |-> (drained.open.window + 1) % WindowMod, total |-> 0,
                         top_count |-> 0, top_key |-> ZeroIp]
    BY <1>3, <1>5, <2>1 DEF Observed
  <2> QED
    <3>1. (~synced)' = FALSE
      BY <1>9, <1>11
    <3> QED
      BY <1>10, <2>2, <2>3, <2>4, <3>1, TwinSums DEF T!WindowTick
<1>12. CASE ~tel.tick
  <2>1. /\ tel'.window = tel.window /\ tel'.total = tel.total
        /\ tel'.top_count = tel.top_count /\ tel'.top_key = tel.top_key /\ snap' = snap
    BY <1>1, <1>4, <1>5, <1>12, WindowEdge
  <2>2. Observed' = Observed
    BY <1>6, <1>7, <1>8, <1>12, <2>1 DEF Observed, NextTelEpoch
  <2> QED
    BY <1>3, <1>5, <1>9, <1>12, <2>2
<1> QED
  BY <1>11, <1>12

LEMMA ObservedTyped == ASSUME TelTypeOK', drained' = Observed' PROVE DrainedTyped'
<1>1. tel' \in WindowState /\ hll_mem' \in [Register -> HllCell]
  BY DEF TelTypeOK
<1>2. /\ drained'.reg = hll_mem'
      /\ drained'.open = [window |-> tel'.window, total |-> tel'.total,
                          top_count |-> tel'.top_count, top_key |-> tel'.top_key]
  BY DEF Observed
<1> QED
  BY <1>1, <1>2 DEF DrainedTyped, WindowState

LEMMA TwinInit == ASSUME Init PROVE TwinInv /\ T!Init
<1>1. SketchInv /\ TelTypeOK
  BY StreamInit DEF SketchInv, StreamTypeOK
<1>2. /\ cms.phase = 0 /\ hll.phase = 0 /\ ~cms.upd_done /\ cms.epoch = 0
      /\ hll.epoch = 0 /\ hll.sum = EmptySum /\ hll.zeros = Cardinality(Register)
      /\ cms.q_count = 0 /\ drained = Observed
      /\ cms_mem = [b \in Bank |-> [c \in Col |-> NoCell]]
      /\ hll_mem = [g \in Register |-> NoRank]
      /\ tel.window = 0 /\ tel.total = 0 /\ tel.top_count = 0 /\ tel.top_key = ZeroIp
      /\ snap = [window |-> 0, total |-> 0, sum |-> EmptySum,
                 zeros |-> Cardinality(Register), top_count |-> 0, top_key |-> ZeroIp]
  BY DEF Init, TelInit
<1>3. HllOK
  BY <1>1, <1>2, HllEmpty
<1>4. DrainedTyped
  <2>1. tel \in WindowState /\ hll_mem \in [Register -> HllCell]
    BY <1>1 DEF TelTypeOK
  <2>2. /\ drained.reg = hll_mem
        /\ drained.open = [window |-> tel.window, total |-> tel.total,
                           top_count |-> tel.top_count, top_key |-> tel.top_key]
    BY <1>2 DEF Observed
  <2> QED
    BY <2>1, <2>2 DEF DrainedTyped, WindowState
<1>5. ~InFlight /\ synced = TRUE
  BY StreamAssumption DEF Init, InFlight, PipeLen
<1>6. TwinInv
  BY <1>1, <1>2, <1>3, <1>4, <1>5 DEF TwinInv
<1>7. T!Init
  <2>1. /\ drained.cell = cms_mem /\ drained.epoch = 0 /\ drained.reg = hll_mem
        /\ drained.sum = EmptySum /\ drained.zeros = Cardinality(Register)
        /\ drained.open = [window |-> 0, total |-> 0, top_count |-> 0, top_key |-> ZeroIp]
        /\ drained.snapshot = snap /\ drained.answer = 0
    BY <1>2 DEF Observed
  <2>2. /\ \A b \in Bank : \A c \in DOMAIN cms_mem[b] : cms_mem[b][c].count = 0
        /\ \A g \in Register : hll_mem[g].rank = 0
    BY <1>2 DEF NoCell, NoRank
  <2>3. /\ drained.sum = T!EmptySum /\ drained.zeros = T!Cardinality(Register)
        /\ drained.snapshot = [window |-> 0, total |-> 0, sum |-> drained.sum,
                    zeros |-> drained.zeros, top_count |-> 0, top_key |-> ZeroIp]
    BY <1>2, <2>1, TwinSums
  <2> QED
    BY <1>5, <2>1, <2>2, <2>3 DEF T!Init
<1> QED
  BY <1>6, <1>7

LEMMA TwinStep ==
    ASSUME TwinInv, [Next]_streamVars
    PROVE  TwinInv' /\ [T!Next]_(T!twinVars)
<1>0. SketchInv /\ SketchInv' /\ TelTypeOK /\ TelTypeOK'
  <2>1. SketchInv /\ SketchInv'
    BY StreamStep DEF TwinInv
  <2> QED
    BY <2>1 DEF SketchInv, StreamTypeOK
<1>1. /\ drained' = drained /\ synced' = synced => UNCHANGED T!twinVars
      /\ drained' = drained /\ DrainedTyped => DrainedTyped'
  BY DEF T!twinVars, DrainedTyped
<1>2. CASE Next
  <2>1. PICK upd, q \in BOOLEAN : \E src \in Ip : Frame(upd, q, src)
    BY <1>0, <1>2, StepIsFrame DEF SketchInv
  <2>2. PICK src \in Ip : Frame(upd, q, src)
    BY <2>1
  <2>3. /\ hll.epoch = cms.epoch /\ DrainedTyped /\ synced \in BOOLEAN
        /\ ~InFlight => drained = Observed
        /\ synced => HllOK /\ (InFlight => InPipeline)
    BY DEF TwinInv
  <2>4. /\ CmsClock(FALSE, upd, src, q, src, tel.tick)
        /\ HllClock(FALSE, upd, src, tel.tick) /\ tel.tick \in BOOLEAN
    BY <1>0, <2>2 DEF Frame, TelClock, TelTypeOK, WindowState
  <2>5. hll'.epoch = cms'.epoch
    <3>1. cms'.epoch = NextTelEpoch(cms.epoch, tel.tick)
      BY <1>0, <2>4, CmsEpoch
    <3>2. hll'.epoch = NextTelEpoch(hll.epoch, tel.tick)
      BY <1>0, <2>4, HllEdge
    <3> QED
      BY <2>3, <3>1, <3>2
  <2>6. DrainedTyped' /\ (~InFlight' => drained' = Observed')
    <3>1. drained' = IF age' >= PipeLen THEN Observed' ELSE drained
      BY <2>2 DEF Frame
    <3>2. DrainedTyped'
      BY <1>0, <1>1, <2>3, <3>1, ObservedTyped
    <3>3. age' \in Nat
      BY <1>0 DEF SketchInv, StreamTypeOK
    <3> QED
      BY <3>1, <3>2, <3>3 DEF InFlight, PipeLen
  <2>7. synced' = (IF tel.tick THEN ~((upd \/ q) \/ InFlight) ELSE synced) /\ synced' \in BOOLEAN
    BY <2>2, <2>3 DEF Frame
  <2>8. CASE ~synced'
    <3>1. T!LosesTrack
      BY <2>8 DEF T!LosesTrack
    <3> QED
      BY <1>0, <2>5, <2>6, <2>7, <2>8, <3>1 DEF TwinInv, T!Next
  <2>9. CASE synced' /\ InFlight
    <3>1. ~tel.tick /\ synced = TRUE /\ synced' = synced /\ InPipeline /\ HllOK
      BY <2>3, <2>7, <2>9
    <3>2. /\ age \in 0 .. 4 /\ age' = age + 1 /\ tel.tick = FALSE
          /\ drained' = IF age <= 3 THEN drained ELSE Observed'
          /\ cms'.epoch = cms.epoch /\ snap' = snap
      BY <1>0, <2>2, <2>9, <3>1, FlightEdge
    <3>3. Frame(FALSE, FALSE, src)
      <4>1. age # TelGap
        BY <3>2, StreamAssumption DEF PipeLen
      <4>2. upd = FALSE /\ q = FALSE
        BY <2>2, <4>1 DEF Frame
      <4> QED
        BY <2>2, <4>2
    <3>4. PICK ip \in Ip : PacketFlight(ip) \/ QueryFlight(ip)
      BY <3>1 DEF InPipeline
    <3>5. HllOK'
      <4>1. HllClock(FALSE, upd, src, FALSE)
        BY <2>4, <3>2
      <4>2. CASE hll.phase = 4
        <5>1. PacketFlight(ip) /\ age = 3
          BY <3>2, <3>4, <4>2 DEF PacketFlight, QueryFlight
        <5>2. hll.rword = hll_mem[HllHash[hll.key]]
          BY <5>1 DEF PacketFlight
        <5> QED
          BY <1>0, <3>1, <4>1, <4>2, <5>2, HllUpdateOK
      <4>3. CASE hll.phase # 4
        <5>1. FALSE \in BOOLEAN
          OBVIOUS
        <5> QED
          BY <1>0, <3>1, <4>1, <4>3, <5>1, HllKeepOK
      <4> QED
        BY <4>2, <4>3
    <3>6. CASE age <= 3
      <4>1. drained' = drained
        BY <3>2, <3>6
      <4>2. PacketFlight(ip)' \/ QueryFlight(ip)'
        <5>1. CASE PacketFlight(ip)
          BY <1>0, <2>3, <2>9, <3>1, <3>3, <3>6, <5>1, PacketStep
        <5>2. CASE QueryFlight(ip)
          BY <1>0, <2>9, <3>1, <3>3, <3>6, <5>2, QueryStep
        <5> QED
          BY <3>4, <5>1, <5>2
      <4>3. InPipeline'
        <5>1. cms.epoch = drained.epoch /\ snap = drained.snapshot
          BY <3>1 DEF InPipeline
        <5>2. cms'.epoch = drained'.epoch /\ snap' = drained'.snapshot
          BY <3>2, <4>1, <5>1
        <5> QED
          BY <4>2, <5>2 DEF InPipeline
      <4> QED
        BY <1>0, <1>1, <2>5, <2>6, <2>7, <3>1, <3>5, <4>1, <4>3 DEF TwinInv
    <3>7. CASE age = 4
      <4>1. T!Update(ip) \/ T!Query(ip)
        BY <1>0, <2>3, <2>9, <3>1, <3>3, <3>4, <3>7, FlightDone
      <4>2. ~InFlight'
        BY <3>2, <3>7 DEF InFlight, PipeLen
      <4>3. T!Next
        BY <4>1 DEF T!Next
      <4> QED
        BY <1>0, <2>5, <2>6, <2>7, <3>5, <4>2, <4>3 DEF TwinInv
    <3> QED
      BY <3>2, <3>6, <3>7
  <2>10. CASE synced' /\ ~InFlight
    <3>1. drained = Observed /\ hll.phase # 4
      BY <1>0, <2>3, <2>10, IdleApart DEF Idle
    <3>2. HllOK'
      <4>1. tel.tick \/ HllOK
        BY <2>3, <2>7, <2>10
      <4> QED
        BY <1>0, <2>4, <3>1, <4>1, HllKeepOK
    <3>3. CASE upd \/ q
      <4>1. ~tel.tick /\ synced' = synced
        BY <2>7, <2>10, <3>3
      <4>2. drained' = drained /\ InFlight' /\ InPipeline'
        BY <1>0, <2>2, <2>10, <3>1, <3>3, <4>1, TakeOff
      <4> QED
        BY <1>0, <1>1, <2>5, <2>6, <2>7, <3>2, <4>1, <4>2 DEF TwinInv
    <3>4. CASE ~(upd \/ q)
      <4>1. Frame(FALSE, FALSE, src)
        <5>1. upd = FALSE /\ q = FALSE
          BY <3>4
        <5> QED
          BY <2>2, <5>1
      <4>2. T!Next \/ UNCHANGED T!twinVars
        <5>1. T!WindowTick \/ (drained' = drained /\ synced' = synced)
          BY <1>0, <2>3, <2>10, <3>1, <4>1, IdleEdge
        <5> QED
          BY <1>1, <5>1 DEF T!Next
      <4>3. ~InFlight'
        <5>1. age \in 0 .. TelGap /\ TelGap \in Nat /\ ~(age < 5)
          BY <1>0, <2>10, StreamAssumption DEF SketchInv, StreamTypeOK, InFlight, PipeLen
        <5>2. age' = IF age < TelGap THEN age + 1 ELSE age
          BY <4>1 DEF Frame
        <5> QED
          BY <5>1, <5>2 DEF InFlight, PipeLen
      <4> QED
        BY <1>0, <2>5, <2>6, <2>7, <3>2, <4>2, <4>3 DEF TwinInv
    <3> QED
      BY <3>3, <3>4
  <2> QED
    BY <2>8, <2>9, <2>10
<1>3. CASE UNCHANGED streamVars
  <2>1. /\ cms' = cms /\ cms_mem' = cms_mem /\ hll' = hll /\ hll_mem' = hll_mem
        /\ tel' = tel /\ snap' = snap /\ age' = age /\ drained' = drained
        /\ synced' = synced
    BY <1>3 DEF streamVars, telVars
  <2>2. /\ HllOK => HllOK'
        /\ InFlight' <=> InFlight
    <3>1. \A g : RankNow(g)' = RankNow(g)
      BY <2>1 DEF RankNow
    <3> QED
      BY <2>1, <3>1 DEF HllOK, Shares, EmptyOnes, InFlight
  <2>3. Observed' = Observed
    BY <2>1 DEF Observed
  <2>4. InPipeline => InPipeline'
    <3>1. ASSUME NEW ip \in Ip PROVE /\ PacketFlight(ip) => PacketFlight(ip)'
                                     /\ QueryFlight(ip) => QueryFlight(ip)'
      <4>1. /\ BanksAfter(ip)' = BanksAfter(ip) /\ EstimateAfter(ip)' = EstimateAfter(ip)
            /\ Promotes(ip)' <=> Promotes(ip)
            /\ \A b : T!Bumped(b, ip)' = T!Bumped(b, ip)
            /\ \A b : T!CountOf(T!CellOf(b, ip))' = T!CountOf(T!CellOf(b, ip))
            /\ T!PointQuery(ip)' = T!PointQuery(ip)
            /\ \A g : T!RankOf(g)' = T!RankOf(g)
        BY <2>1, TwinKept
      <4>2. HllKept => HllKept'
        BY <2>1 DEF HllKept, HllAs
      <4>3. OpenCounted => OpenCounted'
        BY <2>1 DEF OpenCounted, OpenAs
      <4>4. OpenKept => OpenKept'
        BY <2>1 DEF OpenKept, OpenAs
      <4>5. HllUpdatedTo(ip) => HllUpdatedTo(ip)'
        BY <2>1, <4>1 DEF HllUpdatedTo, HllKept, HllAs
      <4>6. OpenUpdatedTo(ip) => OpenUpdatedTo(ip)'
        BY <2>1, <4>1 DEF OpenUpdatedTo, OpenCounted, OpenAs
      <4>7. PacketFlight(ip) => PacketFlight(ip)'
        BY <2>1, <4>1, <4>2, <4>3, <4>5, <4>6 DEF PacketFlight
      <4>8. QueryFlight(ip) => QueryFlight(ip)'
        BY <2>1, <4>1, <4>2, <4>4 DEF QueryFlight
      <4> QED
        BY <4>7, <4>8
    <3> QED
      BY <2>1, <3>1 DEF InPipeline
  <2>5. cms'.epoch = cms.epoch /\ hll'.epoch = hll.epoch
    BY <2>1
  <2> QED
    BY <1>0, <1>1, <2>1, <2>2, <2>3, <2>4, <2>5 DEF TwinInv
<1> QED
  BY <1>2, <1>3

(***************************************************************************)
(* Theorems                                                                 *)
(***************************************************************************)

\* Every register of cms.v, hll.v and telemetry.v stays within its width,
\* whatever frames come and wherever the window ticks meet them.
THEOREM TelemetryTyped == Spec => []TelTypeOK
<1>1. SketchInv => TelTypeOK
  BY DEF SketchInv, StreamTypeOK
<1> QED
  BY <1>1, StreamInvariant, PTL

\* The estimate cms.v answers from is never below the exact count of the
\* open window, for any hashes, any counter width, any window length and any
\* number of epochs, with ticks in whatever phase of the walk.
THEOREM NothingUndercounted == Spec => []NeverUndercounts
<1>1. ASSUME SketchInv PROVE NeverUndercounts
  <2> SUFFICES ASSUME ~InFlight, NEW ip \in Ip
      PROVE  Least({Share(b, ip) : b \in Bank}) >= exact[ip]
    BY DEF NeverUndercounts, Share
  <2> DEFINE S == {Share(b, ip) : b \in Bank}
  <2>1. age \in 0 .. TelGap /\ ~(age < 5) /\ TelGap \in Nat
    BY <1>1, StreamAssumption DEF SketchInv, StreamTypeOK, InFlight, PipeLen
  <2>2. WalkAge /\ CellsCover /\ TelTypeOK
    BY <1>1, <2>1 DEF SketchInv, StreamTypeOK, PipeLen
  <2>3. cms.phase = 0
    BY <2>1, <2>2 DEF WalkAge, TelTypeOK, CmsState, CmsPhase
  <2>4. \A b \in Bank : Share(b, ip) >= exact[ip]
    <3>1. ASSUME NEW b \in Bank PROVE Share(b, ip) >= exact[ip]
      <4>1. Share(b, ip) \in Nat /\ exact[ip] \in Nat
        BY <1>1, <2>2, ShareType, TelAssumption DEF SketchInv, StreamTypeOK, Count
      <4>2. exact[ip] <= Share(b, ip)
        BY <2>2, <2>3 DEF CellsCover, Owing
      <4> QED
        BY <4>1, <4>2
    <3> QED
      BY <3>1
  <2>5. S \in SUBSET Nat /\ S # {}
    BY <2>2, ShareType, TelAssumption DEF Count
  <2>6. \E m \in S : \A n \in S : m <= n
    BY <2>5, LeastExists
  <2>7. \A m \in S : m >= exact[ip]
    BY <2>4
  <2> HIDE DEF S
  <2>8. Least(S) \in S
    BY <2>6 DEF Least
  <2> QED
    BY <2>7, <2>8 DEF S
<1> QED
  BY <1>1, StreamInvariant, PTL

\* telemetry.v implements telemetry_model.py: seen between frames, every step
\* of the three pipelines is one packet, one query or one window tick of the
\* twin, or nothing, for any hashes and ranks, any widths, any window length
\* and any arrivals at least PipeLen cycles apart.  A tick may meet a frame in
\* any phase: the twin is then silent on the window that opens, and the next
\* tick that meets none finds the pipelines where the twin's tick leaves it,
\* the harmonic sum and the epochs of both sketches included.
THEOREM TwinImplemented == Spec => ImplementsTwin
<1>1. Init => TwinInv /\ T!Init
  BY TwinInit
<1>2. TwinInv /\ [Next]_streamVars => TwinInv' /\ [T!Next]_(T!twinVars)
  BY TwinStep
<1> QED
  BY <1>1, <1>2, PTL DEF Spec, ImplementsTwin, T!Spec

=============================================================================
