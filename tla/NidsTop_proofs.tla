--------------------------- MODULE NidsTop_proofs ----------------------------
(***************************************************************************)
(* Theorems of NidsTop for every value of its constants.  First the parts:  *)
(* every clock edge keeps the registers of the bloom filter, the flow       *)
(* table, the rule path and the combiner within their types.  TypeOK and    *)
(* Schedule are then proved together: a write is of the right type because  *)
(* the opcode it is decoded with is that of the frame it is taken from,     *)
(* which is the schedule's doing; the schedule needs the phases' ranges.    *)
(* Then what flows through the pipelines is right: the verdict, the         *)
(* registered reads and the finished count.  Last, NidsTop implements       *)
(* Board.                                                                   *)
(***************************************************************************)
EXTENDS NidsTop, Telemetry_proofs

(***************************************************************************)
(* bloom_filter.v                                                           *)
(***************************************************************************)
\* A boot image and zeroed registers are of the right type.
LEMMA BloomInitType ==
    ASSUME NEW mem \in [Word -> SUBSET BitPos], BloomInit(mem)
    PROVE  BloomTypeOK
<1>1. Hash1[ZeroIp].word \in Word /\ 0 \in BloomPhase /\ ZeroIp \in Ip
  BY BloomAssumption, IpAssumption DEF BloomPhase
<1> QED
  BY <1>1 DEF BloomInit, BloomTypeOK, PortAState

\* Port A and port B, for any inputs of the right type.
LEMMA BloomStep ==
    ASSUME BloomTypeOK, NEW r \in BOOLEAN, NEW start \in BOOLEAN,
           NEW p \in Packet, NEW w_en \in BOOLEAN, NEW r_en \in BOOLEAN,
           NEW at \in Word, NEW word, w_en => word \in SUBSET BitPos,
           BloomClock(r, start, p, w_en, r_en, at, word)
    PROVE  BloomTypeOK'
<1>1. bf_mem' \in [Word -> SUBSET BitPos] /\ bf_r_data' \in SUBSET BitPos
  BY DEF BloomTypeOK, BloomClock, PortB
<1>2. /\ \A ip \in Ip : Hash1[ip].word \in Word /\ Hash2[ip].word \in Word
      /\ p.src \in Ip /\ p.dst \in Ip
      /\ {0, 1, 2, 3, 4, 5} \subseteq BloomPhase
  BY BloomAssumption DEF Packet, BloomPhase
<1>3. bf \in PortAState /\ PortADefault \in PortAState
  BY DEF BloomTypeOK, PortADefault, PortAState
<1>4. PortA(r, start, p)
  BY DEF BloomClock
<1>5. bf' \in PortAState
  <2>1. CASE r
    <3>1. bf' = [PortADefault EXCEPT !.phase = 0, !.hit = FALSE]
      BY <1>4, <2>1 DEF PortA
    <3> QED
      BY <1>2, <1>3, <3>1 DEF PortAState
  <2>2. CASE ~r /\ bf.phase = 0
    <3>1. CASE start
      <4>1. bf' = [PortADefault EXCEPT !.phase = 1, !.src = p.src,
                       !.dst = p.dst, !.addr = Hash1[p.src].word]
        BY <1>4, <2>2, <3>1 DEF PortA
      <4> QED
        BY <1>2, <1>3, <4>1 DEF PortAState
    <3>2. CASE ~start
      BY <1>3, <1>4, <2>2, <3>2 DEF PortA
    <3> QED
      BY <3>1, <3>2
  <2>3. CASE ~r /\ bf.phase = 1
    <3>1. bf' = [PortADefault EXCEPT !.phase = 2, !.addr = Hash2[bf.src].word]
      BY <1>4, <2>3 DEF PortA
    <3> QED
      BY <1>2, <1>3, <3>1 DEF PortAState
  <2>4. CASE ~r /\ bf.phase = 2
    <3>1. bf' = [PortADefault EXCEPT !.phase = 3, !.h1s = bf.rdata,
                                     !.addr = Hash1[bf.dst].word]
      BY <1>4, <2>4 DEF PortA
    <3> QED
      BY <1>2, <1>3, <3>1 DEF PortAState
  <2>5. CASE ~r /\ bf.phase = 3
    <3>1. bf' = [PortADefault EXCEPT !.phase = 4, !.h2s = bf.rdata,
                                     !.addr = Hash2[bf.dst].word]
      BY <1>4, <2>5 DEF PortA
    <3> QED
      BY <1>2, <1>3, <3>1 DEF PortAState
  <2>6. CASE ~r /\ bf.phase = 4
    <3>1. bf' = [PortADefault EXCEPT !.phase = 5, !.h1d = bf.rdata]
      BY <1>4, <2>6 DEF PortA
    <3> QED
      BY <1>2, <1>3, <3>1 DEF PortAState
  <2>7. CASE ~r /\ bf.phase = 5
    <3> DEFINE h == \/ BothBits(bf.h1s, bf.h2s, bf.src)
                    \/ BothBits(bf.h1d, bf.rdata, bf.dst)
    <3>1. bf' = [PortADefault EXCEPT !.phase = 0, !.valid = TRUE, !.hit = h]
      BY <1>4, <2>7 DEF PortA
    <3>2. h \in BOOLEAN
      BY DEF BothBits
    <3> HIDE DEF h
    <3> QED
      BY <1>2, <1>3, <3>1, <3>2 DEF PortAState
  <2> QED
    BY <1>4, <2>1, <2>2, <2>3, <2>4, <2>5, <2>6, <2>7 DEF PortA
<1> QED
  BY <1>1, <1>5 DEF BloomTypeOK

(***************************************************************************)
(* rule_store.v, thresholds.v and rule_lookup.v                             *)
(***************************************************************************)
LEMMA BlankRuleType == BlankRule \in Rule
  BY IpAssumption DEF BlankRule, Rule, Action, RuleSev

\* Blank rules, default thresholds.
LEMMA RuleInitType == ASSUME RuleInit PROVE RuleTypeOK
<1>1. rl \in LookupState
  <2>1. 0 \in LookupPhase /\ 0 \in RuleSev /\ {} \in Action /\ 0 \in Nat
    BY DEF LookupPhase, RuleSev, Action
  <2> QED
    BY <2>1, IpAssumption DEF RuleInit, LookupState
<1>2. thr \in [port : Nat, host : Nat, rate : Nat, epoch : Nat]
  BY RuleAssumption DEF RuleInit, ThrDefaults
<1> QED
  BY <1>1, <1>2, BlankRuleType DEF RuleInit, RuleTypeOK

\* The three clocks of the rule path, for any inputs of the right type.
LEMMA RuleStep ==
    ASSUME RuleTypeOK, NEW r \in BOOLEAN, NEW start \in BOOLEAN, NEW src \in Ip,
           NEW thr_en \in BOOLEAN, NEW id \in Nat, NEW val,
           thr_en => val \in Nat,
           NEW w_en \in BOOLEAN, NEW w_idx \in RuleIdx, NEW rule,
           w_en => rule \in Rule, NEW r_idx \in RuleIdx,
           ThrClock(r, thr_en, id, val), StoreClock(w_en, w_idx, rule, r_idx),
           LookupClock(r, start, src)
    PROVE  RuleTypeOK'
<1>1. rs_mem' \in [RuleIdx -> Rule] /\ rs_rule' \in Rule
  BY DEF RuleTypeOK, StoreClock
<1>2. thr_r_val' \in Nat
  BY DEF RuleTypeOK, ThrClock, ThrField
<1>3. thr' \in [port : Nat, host : Nat, rate : Nat, epoch : Nat]
  <2>1. ThrDefaults \in [port : Nat, host : Nat, rate : Nat, epoch : Nat]
    BY RuleAssumption DEF ThrDefaults
  <2>2. CASE thr_en /\ id \in 0 .. 3
    BY <2>1, <2>2 DEF RuleTypeOK, ThrClock, ThrField
  <2> QED
    BY <2>1, <2>2 DEF RuleTypeOK, ThrClock
<1>4. rl' \in LookupState
  <2>1. /\ 0 \in LookupPhase /\ 1 \in LookupPhase /\ 0 \in RuleSev
        /\ {} \in Action
    BY DEF LookupPhase, RuleSev, Action
  <2>2. rs_rule.action \in Action /\ rs_rule.sev \in RuleSev
    BY DEF RuleTypeOK, Rule
  <2>3. RuleEpoch \in Nat
    BY RuleAssumption DEF RuleTypeOK, RuleEpoch
  <2> QED
    BY <2>1, <2>2, <2>3 DEF RuleTypeOK, LookupClock, LookupState
<1> QED
  BY <1>1, <1>2, <1>3, <1>4 DEF RuleTypeOK

(***************************************************************************)
(* flow_table.v                                                             *)
(***************************************************************************)
LEMMA BlankCellType == BlankCell \in Cell
<1>1. 0 \in FlowEpochs /\ 0 \in PktCount /\ 0 \in ByteCount /\ 0 \in SynCount
  BY FlowAssumption DEF FlowEpochs, PktCount, ByteCount, SynCount
<1> QED
  BY <1>1, FlowAssumption DEF BlankCell, Cell

\* A read-modify-write of a cell is a cell: the two counters saturate, the
\* byte count wraps.
LEMMA UpdatedType ==
    ASSUME NEW c \in Cell, NEW p \in Packet, NEW e \in FlowEpochs
    PROVE  Updated(c, p, e) \in Cell
<1> DEFINE old == Effective(c, p.src, e)
<1>1. old \in Cell
  BY BlankCellType DEF Effective
<1>2. /\ p.src \in Ip /\ p.dst \in Ip /\ p.port \in Port /\ p.size \in Nat
      /\ p.flags \in SUBSET Flag
  BY DEF Packet
<1>3. (IF old.pkts = PktMax THEN PktMax ELSE old.pkts + 1) \in PktCount
  BY <1>1, FlowAssumption DEF Cell, PktCount
<1>4. (IF SynGate(p) /\ old.syns # SynMax THEN old.syns + 1 ELSE old.syns)
        \in SynCount
  BY <1>1, FlowAssumption DEF Cell, SynCount
<1>5. ByteSum(old.bytes, p.size) \in ByteCount
  <2>1. old.bytes + p.size \in Nat
    BY <1>1, <1>2, FlowAssumption DEF Cell, ByteCount
  <2>2. (old.bytes + p.size) % ByteMod \in ByteCount
    BY <2>1, FlowAssumption DEF ByteCount
  <2> QED
    BY <2>2, FlowAssumption DEF ByteSum, ByteCount
<1>6. /\ FlowFp[p.src] \in Fp /\ PortBit[p.port] \in FpBit
      /\ HostBit[p.dst] \in FpBit
  BY <1>2, FlowAssumption
<1>7. /\ old.ports \in SUBSET FpBit /\ old.hosts \in SUBSET FpBit
      /\ old.flags \in SUBSET Flag
  BY <1>1 DEF Cell
<1> HIDE DEF old
<1> QED
  BY <1>2, <1>3, <1>4, <1>5, <1>6, <1>7 DEF Updated, Cell, old

LEMMA FlowInitType ==
    ASSUME NEW p \in Packet, FlowInit(p) PROVE FlowTypeOK
<1>1. 0 \in FlowPhase /\ 0 \in FlowEpochs /\ 0 \in PktCount
  BY FlowAssumption DEF FlowPhase, FlowEpochs, PktCount
<1> QED
  BY <1>1, BlankCellType DEF FlowInit, FlowTypeOK, FlowState

\* One edge of the flow table.
LEMMA FlowStep ==
    ASSUME FlowTypeOK, NEW r \in BOOLEAN, NEW start \in BOOLEAN,
           NEW p \in Packet, NEW count \in Nat, NEW t,
           FlowClock(r, start, p, count, t)
    PROVE  FlowTypeOK'
<1>1. /\ {0, 1, 2, 3} \subseteq FlowPhase
      /\ FlowEpoch(count) \in FlowEpochs
  <2>1. count \div WindowLen \in Nat
    BY FlowAssumption
  <2> QED
    BY <2>1, FlowAssumption DEF FlowPhase, FlowEpoch, FlowEpochs
<1>2. FlowBucket[ft.pkt.src] \in Bucket
  BY FlowAssumption DEF FlowTypeOK, FlowState, Packet
<1>3. ft \in FlowState /\ FlowDefault \in FlowState
  BY <1>2 DEF FlowTypeOK, FlowDefault, FlowState
<1>4. CASE FlowReset
  <2>1. ft' = [FlowDefault EXCEPT !.phase = 0, !.scan = FALSE, !.rate = FALSE]
    BY <1>4 DEF FlowReset
  <2>2. ft' \in FlowState
    BY <1>1, <1>3, <2>1 DEF FlowState
  <2> QED
    BY <1>4, <2>2 DEF FlowReset, FlowTypeOK
<1>5. CASE FlowLatch(start, p, count)
  BY <1>1, <1>3, <1>5 DEF FlowLatch, FlowTypeOK, FlowState
<1>6. CASE FlowWait
  BY <1>1, <1>3, <1>6 DEF FlowWait, FlowTypeOK, FlowState
<1>7. CASE FlowUpdate
  <2> DEFINE cell == Updated(ft.rdata, ft.pkt, ft.epoch)
  <2>1. cell \in Cell
    BY <1>3, UpdatedType DEF FlowState
  <2>2. /\ ft_mem' = [ft_mem EXCEPT ![FlowBucket[ft.pkt.src]] = cell]
        /\ ft' = [FlowDefault EXCEPT !.phase = 3, !.ports = cell.ports,
                                     !.hosts = cell.hosts, !.pkts = cell.pkts]
    BY <1>7 DEF FlowUpdate
  <2>3. /\ cell.ports \in SUBSET FpBit /\ cell.hosts \in SUBSET FpBit
        /\ cell.pkts \in PktCount
    BY <2>1 DEF Cell
  <2> HIDE DEF cell
  <2> QED
    BY <1>1, <1>3, <2>1, <2>2, <2>3 DEF FlowTypeOK, FlowState
<1>8. CASE FlowCompare(t)
  <2> DEFINE scan == \/ Cardinality(ft.ports) >= t.port
                     \/ Cardinality(ft.hosts) >= t.host
             rate == ft.pkts >= t.rate
  <2>1. ft' = [FlowDefault EXCEPT !.phase = 0, !.valid = TRUE, !.scan = scan,
                                  !.rate = rate]
    BY <1>8 DEF FlowCompare
  <2>2. scan \in BOOLEAN /\ rate \in BOOLEAN
    OBVIOUS
  <2> HIDE DEF scan, rate
  <2>3. ft' \in FlowState
    BY <1>1, <1>3, <2>1, <2>2 DEF FlowState
  <2> QED
    BY <1>8, <2>3 DEF FlowCompare, FlowTypeOK
<1> QED
  BY <1>4, <1>5, <1>6, <1>7, <1>8 DEF FlowClock

(***************************************************************************)
(* classifiers.v                                                            *)
(***************************************************************************)
LEMMA CombineInitType == ASSUME CombineInit PROVE CombineTypeOK
<1>1. 0 \in Severity /\ 0 \in RuleSev /\ {} \in Action
  BY DEF Severity, RuleSev, Action
<1> QED
  BY <1>1 DEF CombineInit, CombineTypeOK, CleanVerdict, Verdict, Results

\* The combined severity fits its two bits.
LEMMA CombineType == ASSUME NEW l \in Results PROVE Combine(l) \in Verdict
<1>1. l.sev % 4 \in Severity
  BY DEF Results, RuleSev, Severity
<1>2. (IF l.bloom THEN 3 ELSE IF l.scan \/ l.rate THEN 2 ELSE 0) \in Severity
  BY DEF Severity
<1> QED
  BY <1>1, <1>2 DEF Combine, Verdict, Results

\* One edge of the combiner, whatever the stages deliver.
LEMMA CombineStep ==
    ASSUME CombineTypeOK, BloomTypeOK, FlowTypeOK, RuleTypeOK,
           NEW r \in BOOLEAN, NEW start \in BOOLEAN, CombineClock(r, start)
    PROVE  CombineTypeOK'
<1>1. /\ bf.hit \in BOOLEAN /\ ft.scan \in BOOLEAN /\ ft.rate \in BOOLEAN
      /\ rl.match \in BOOLEAN /\ rl.action \in Action /\ rl.sev \in RuleSev
  BY DEF BloomTypeOK, PortAState, FlowTypeOK, FlowState, RuleTypeOK, LookupState
<1>2. cl' \in Results
  BY <1>1 DEF CombineTypeOK, CombineClock, LatchResults, Results
<1>3. cl_done' \in SUBSET Stage
  BY DEF CombineTypeOK, CombineClock, Arriving
<1>4. Combine(cl) \in Verdict /\ CleanVerdict \in Verdict
  <2>1. 0 \in Severity
    BY DEF Severity
  <2> QED
    BY <2>1, CombineType DEF CombineTypeOK, CleanVerdict, Verdict
<1>5. cl_out' \in [verdict : Verdict, valid : BOOLEAN]
  <2>1. \/ cl_out' = [verdict |-> CleanVerdict, valid |-> FALSE]
        \/ cl_out' = [verdict |-> Combine(cl), valid |-> TRUE]
        \/ cl_out' = [cl_out EXCEPT !.valid = FALSE]
    BY DEF CombineClock
  <2>2. [verdict |-> CleanVerdict, valid |-> FALSE]
          \in [verdict : Verdict, valid : BOOLEAN]
    BY <1>4
  <2>3. [verdict |-> Combine(cl), valid |-> TRUE]
          \in [verdict : Verdict, valid : BOOLEAN]
    BY <1>4
  <2>4. [cl_out EXCEPT !.valid = FALSE] \in [verdict : Verdict, valid : BOOLEAN]
    BY DEF CombineTypeOK
  <2> QED
    BY <2>1, <2>2, <2>3, <2>4
<1> QED
  BY <1>2, <1>3, <1>5 DEF CombineTypeOK

(***************************************************************************)
(* How far one edge moves a stage                                           *)
(***************************************************************************)
LEMMA BloomMoves ==
    ASSUME BloomTypeOK, NEW r \in BOOLEAN, NEW start \in BOOLEAN, NEW p, PortA(r, start, p)
    PROVE  /\ bf'.phase = IF r \/ bf.phase = 5 \/ (bf.phase = 0 /\ ~start) THEN 0
                          ELSE bf.phase + 1
           /\ bf'.valid <=> ~r /\ bf.phase = 5
<1>1. PortADefault.phase = bf.phase /\ PortADefault.valid = FALSE
  BY DEF BloomTypeOK, PortAState, PortADefault
<1>2. bf.phase \in 0 .. 5
  BY DEF BloomTypeOK, PortAState, BloomPhase
<1>3. DOMAIN PortADefault = DOMAIN bf /\ "phase" \in DOMAIN bf /\ "valid" \in DOMAIN bf
  BY DEF BloomTypeOK, PortAState, PortADefault
<1> HIDE DEF PortADefault
<1>4. CASE r
  <2>1. bf' = [PortADefault EXCEPT !.phase = 0, !.hit = FALSE]
    BY <1>4 DEF PortA
  <2>2. bf'.phase = 0 /\ ~bf'.valid
    BY <1>1, <1>3, <2>1
  <2> QED
    BY <1>4, <2>2
<1>5. CASE ~r /\ bf.phase = 0
  <2>1. CASE ~start
    BY <1>1, <1>5, <2>1 DEF PortA
  <2>2. CASE start
    <3>1. bf' = [PortADefault EXCEPT !.phase = 1, !.src = p.src, !.dst = p.dst,
                                     !.addr = Hash1[p.src].word]
      BY <1>5, <2>2 DEF PortA
    <3> QED
      BY <1>1, <1>3, <1>5, <2>2, <3>1
  <2> QED
    BY <2>1, <2>2
<1>6. CASE ~r /\ bf.phase = 1
  <2>1. bf' = [PortADefault EXCEPT !.phase = 2, !.addr = Hash2[bf.src].word]
    BY <1>6 DEF PortA
  <2> QED
    BY <1>1, <1>3, <1>6, <2>1
<1>7. CASE ~r /\ bf.phase = 2
  <2>1. bf' = [PortADefault EXCEPT !.phase = 3, !.h1s = bf.rdata,
                                   !.addr = Hash1[bf.dst].word]
    BY <1>7 DEF PortA
  <2> QED
    BY <1>1, <1>3, <1>7, <2>1
<1>8. CASE ~r /\ bf.phase = 3
  <2>1. bf' = [PortADefault EXCEPT !.phase = 4, !.h2s = bf.rdata,
                                   !.addr = Hash2[bf.dst].word]
    BY <1>8 DEF PortA
  <2> QED
    BY <1>1, <1>3, <1>8, <2>1
<1>9. CASE ~r /\ bf.phase = 4
  <2>1. bf' = [PortADefault EXCEPT !.phase = 5, !.h1d = bf.rdata]
    BY <1>9 DEF PortA
  <2> QED
    BY <1>1, <1>3, <1>9, <2>1
<1>10. CASE ~r /\ bf.phase = 5
  <2> DEFINE hit == \/ BothBits(bf.h1s, bf.h2s, bf.src)
                    \/ BothBits(bf.h1d, bf.rdata, bf.dst)
  <2>1. bf' = [PortADefault EXCEPT !.phase = 0, !.valid = TRUE, !.hit = hit]
    BY <1>10 DEF PortA
  <2> HIDE DEF hit
  <2>2. bf'.phase = 0 /\ bf'.valid
    BY <1>1, <1>3, <2>1
  <2> QED
    BY <1>10, <2>2
<1> QED
  BY <1>2, <1>4, <1>5, <1>6, <1>7, <1>8, <1>9, <1>10

LEMMA FlowMoves ==
    ASSUME FlowTypeOK, NEW r \in BOOLEAN, NEW start \in BOOLEAN, NEW p,
           NEW count, NEW t, FlowClock(r, start, p, count, t)
    PROVE  /\ ft'.phase = IF r \/ ft.phase = 3 \/ (ft.phase = 0 /\ ~start) THEN 0
                          ELSE ft.phase + 1
           /\ ft'.valid <=> ~r /\ ft.phase = 3
           /\ ft_mem' # ft_mem => ft.phase = 2
<1>1. /\ DOMAIN FlowDefault = DOMAIN ft /\ "phase" \in DOMAIN ft
      /\ "valid" \in DOMAIN ft /\ FlowDefault.phase = ft.phase
      /\ FlowDefault.valid = FALSE
  BY DEF FlowTypeOK, FlowState, FlowDefault
<1>2. CASE r
  <2>1. /\ ft' = [FlowDefault EXCEPT !.phase = 0, !.scan = FALSE, !.rate = FALSE]
        /\ ft_mem' = ft_mem
    BY <1>2 DEF FlowClock, FlowReset
  <2>2. ft'.phase = 0 /\ ~ft'.valid
    BY <1>1, <2>1
  <2> QED
    BY <1>2, <2>1, <2>2
<1>3. CASE ~r /\ FlowLatch(start, p, count)
  <2>1. ft.phase = 0 /\ ft_mem' = ft_mem
    BY <1>3 DEF FlowLatch
  <2>2. CASE start
    <3>1. ft' = [FlowDefault EXCEPT !.phase = 1, !.pkt = p,
                                    !.epoch = FlowEpoch(count)]
      BY <1>3, <2>2 DEF FlowLatch
    <3> QED
      BY <1>1, <1>3, <2>1, <2>2, <3>1
  <2>3. CASE ~start
    BY <1>1, <1>3, <2>1, <2>3 DEF FlowLatch
  <2> QED
    BY <2>2, <2>3
<1>4. CASE ~r /\ FlowWait
  BY <1>1, <1>4 DEF FlowWait
<1>5. CASE ~r /\ FlowUpdate
  <2> DEFINE cell == Updated(ft.rdata, ft.pkt, ft.epoch)
  <2>1. /\ ft.phase = 2
        /\ ft' = [FlowDefault EXCEPT !.phase = 3, !.ports = cell.ports,
                                     !.hosts = cell.hosts, !.pkts = cell.pkts]
    BY <1>5 DEF FlowUpdate
  <2> HIDE DEF cell
  <2> QED
    BY <1>1, <1>5, <2>1
<1>6. CASE ~r /\ FlowCompare(t)
  <2> DEFINE scan == \/ Cardinality(ft.ports) >= t.port
                     \/ Cardinality(ft.hosts) >= t.host
             rate == ft.pkts >= t.rate
  <2>1. /\ ft.phase = 3 /\ ft_mem' = ft_mem
        /\ ft' = [FlowDefault EXCEPT !.phase = 0, !.valid = TRUE,
                                     !.scan = scan, !.rate = rate]
    BY <1>6 DEF FlowCompare
  <2> HIDE DEF scan, rate
  <2>2. ft'.phase = 0 /\ ft'.valid
    BY <1>1, <2>1
  <2> QED
    BY <1>6, <2>1, <2>2
<1> QED
  BY <1>2, <1>3, <1>4, <1>5, <1>6 DEF FlowClock

LEMMA LookupMoves ==
    ASSUME RuleTypeOK, NEW r \in BOOLEAN, NEW start \in BOOLEAN, NEW src, LookupClock(r, start, src)
    PROVE  /\ rl'.phase = IF ~r /\ rl.phase = 0 /\ start THEN 1 ELSE 0
           /\ rl'.valid <=> ~r /\ rl.phase = 1
<1>1. rl \in LookupState /\ rl.phase \in 0 .. 1
  BY DEF RuleTypeOK, LookupState, LookupPhase
<1>2. CASE r
  <2>1. rl'.phase = 0 /\ ~rl'.valid
    BY <1>1, <1>2 DEF LookupState, LookupClock
  <2> QED
    BY <1>2, <2>1
<1>3. CASE ~r /\ rl.phase = 0
  <2>1. CASE ~start
    <3>1. rl'.phase = 0 /\ ~rl'.valid
      BY <1>1, <1>3, <2>1 DEF LookupState, LookupClock
    <3> QED
      BY <1>3, <2>1, <3>1
  <2>2. CASE start
    <3>1. rl' = [rl EXCEPT !.valid = FALSE, !.phase = 1, !.src = src,
                           !.epoch = RuleEpoch]
      BY <1>3, <2>2 DEF LookupClock
    <3>2. rl'.phase = 1 /\ ~rl'.valid
      BY <1>1, <3>1 DEF LookupState
    <3> QED
      BY <1>3, <2>2, <3>2
  <2> QED
    BY <2>1, <2>2
<1>4. CASE ~r /\ rl.phase = 1
  <2>1. rl'.phase = 0 /\ rl'.valid
    <3>1. CASE LookupHits
      <4>1. rl' = [rl EXCEPT !.valid = TRUE, !.phase = 0, !.match = TRUE,
                             !.action = rs_rule.action, !.sev = rs_rule.sev]
        BY <1>4, <3>1 DEF LookupClock
      <4> QED
        BY <1>1, <4>1 DEF LookupState
    <3>2. CASE ~LookupHits
      <4>1. rl' = [rl EXCEPT !.valid = TRUE, !.phase = 0, !.match = FALSE,
                             !.action = {}, !.sev = 0]
        BY <1>4, <3>2 DEF LookupClock
      <4> QED
        BY <1>1, <4>1 DEF LookupState
    <3> QED
      BY <3>1, <3>2
  <2> QED
    BY <1>4, <2>1
<1> QED
  BY <1>1, <1>2, <1>3, <1>4

LEMMA CombineMoves ==
    ASSUME CombineTypeOK, NEW r \in BOOLEAN, NEW start \in BOOLEAN, CombineClock(r, start)
    PROVE  /\ cl_done' = IF r \/ cl_done = Stage THEN {}
                         ELSE (IF start THEN {} ELSE cl_done) \cup Arriving
           /\ cl_out'.valid <=> ~r /\ cl_done = Stage
  BY DEF CombineTypeOK, CombineClock

Inv == TypeOK /\ Schedule

(***************************************************************************)
(* The inputs of the components                                             *)
(***************************************************************************)
\* What the received frame and the parsed packet give to the components.
LEMMA InputTypes ==
    ASSUME Inv
    PROVE  /\ hp.pkt \in Packet /\ hp.pkt.src \in Ip /\ hp.valid \in BOOLEAN
           /\ rx.frame.at \in Nat /\ rx.frame.hdr \in Packet
           /\ rx.frame.op \in Opcode
           /\ rx.frame.at % Words \in Word
           /\ rx.frame.at % RuleDepth \in RuleIdx /\ RuleReadIdx \in RuleIdx
           /\ Doing(BloomWriteOp) => rx.frame.val.word \in SUBSET BitPos
           /\ Doing(RuleWriteOp) => rx.frame.val.rule \in Rule
           /\ Doing(ThreshWriteOp) => rx.frame.val.value \in Nat
<1>1. hp \in [pkt : Packet, valid : BOOLEAN]
  BY DEF Inv, TypeOK, TopTypeOK
<1>2. hp.pkt \in Packet /\ hp.pkt.src \in Ip /\ hp.valid \in BOOLEAN
  BY <1>1 DEF Packet
<1>3. rx.frame \in Frame \cup {BootFrame(ZeroPacket)}
  BY DEF Inv, TypeOK, TopTypeOK
<1>4. WellFormed(rx.frame)
  <2>1. CASE rx.frame \in Frame
    BY <2>1, TopAssumption
  <2>2. CASE rx.frame = BootFrame(ZeroPacket)
    BY <2>2, BootAssumption
       DEF BootFrame, WellFormed, Opcode, BloomWriteOp, RuleWriteOp, ThreshWriteOp
  <2> QED
    BY <1>3, <2>1, <2>2
<1>5. /\ rx.frame.at \in Nat /\ rx.frame.hdr \in Packet
      /\ rx.frame.op \in Opcode
  BY <1>4 DEF WellFormed
<1>6. rx.frame.at % Words \in Word /\ rx.frame.at % RuleDepth \in RuleIdx
  BY <1>5, BloomAssumption, RuleAssumption DEF Word, RuleIdx
<1>7. RuleReadIdx \in RuleIdx
  BY <1>2, <1>6, RuleAssumption DEF RuleReadIdx
<1>8. hp.valid => top.op = rx.frame.op
  BY DEF Inv, Schedule, FrontSchedule, At
<1>9. /\ Doing(BloomWriteOp) => rx.frame.val.word \in SUBSET BitPos
      /\ Doing(RuleWriteOp) => rx.frame.val.rule \in Rule
      /\ Doing(ThreshWriteOp) => rx.frame.val.value \in Nat
  BY <1>4, <1>8 DEF WellFormed, Doing
<1> QED
  BY <1>2, <1>5, <1>6, <1>7, <1>9

(***************************************************************************)
(* Type correctness                                                         *)
(***************************************************************************)
\* The bodies a response can have.
LEMMA BodyTypes ==
    /\ [none |-> 0] \in Body
    /\ Snapshot \subseteq Body
    /\ \A o \in Opcode : [acked |-> o] \in Body
    /\ \A v \in Verdict, n \in Seqs : [verdict |-> v, seq |-> n] \in Body
    /\ \A a \in Nat, w \in SUBSET BitPos : [addr |-> a, word |-> w] \in Body
    /\ \A a, v \in Nat : [id |-> a, value |-> v] \in Body
    /\ \A a \in Nat, x \in Rule : [idx |-> a, rule |-> x] \in Body
    /\ \A k \in Ip, n \in Count : [key |-> k, count |-> n] \in Body
    /\ \A x \in Sum, z \in Zeros, n \in Nat :
         [sum |-> x, zeros |-> z, m |-> n] \in Body
  BY DEF Body

LEMMA MagicTypes ==
    /\ NoResponse \in Response
    /\ \A b \in Body : Telemetered(b) \in Response
    /\ \A b \in Body : [magic |-> 165, body |-> b] \in Response
<1>1. 0 \in Magic /\ 90 \in Magic /\ 165 \in Magic
  BY DEF Magic
<1> QED
  BY <1>1, BodyTypes DEF NoResponse, Telemetered, Response

LEMMA InitType == Init => TypeOK
<1> SUFFICES ASSUME Init PROVE TypeOK
  OBVIOUS
<1> USE DEF Init, InitFrom
<1>1. BloomTypeOK
  BY BloomInitType, BootAssumption
<1>2. FlowTypeOK
  BY FlowInitType, BootAssumption
<1>3. RuleTypeOK /\ CombineTypeOK /\ TelTypeOK
  BY RuleInitType, CombineInitType, TelInitType
<1>4. TopTypeOK
  <2>1. 0 \in Opcode /\ 0 \in FrameIndex /\ 0 \in Seqs /\ 0 \in Nat
    BY TopAssumption DEF Opcode, FrameIndex, Seqs
  <2> QED
    BY <2>1, BootAssumption, IpAssumption, MagicTypes DEF TopTypeOK
<1>5. LinkTypeOK
  <2>1. /\ Gap \in LinkAge /\ 0 \in 0 .. ResetCycles
        /\ MaxFrames \in 0 .. MaxFrames /\ MaxResets \in 0 .. MaxResets
    BY TopAssumption DEF LinkAge
  <2> QED
    BY <2>1, MagicTypes DEF LinkTypeOK
<1> QED
  BY <1>1, <1>2, <1>3, <1>4, <1>5 DEF TypeOK

\* The registers of nids_top itself.
LEMMA TopStep == ASSUME Inv, BoardClock, Bus PROVE TopTypeOK'
<1>1. /\ TopTypeOK /\ LinkTypeOK /\ BloomTypeOK /\ RuleTypeOK /\ TelTypeOK
      /\ CombineTypeOK
  BY DEF Inv, TypeOK
<1>2. rx' \in [frame : Frame \cup {BootFrame(ZeroPacket)}, valid : BOOLEAN]
  <2> DEFINE RxType == [frame : Frame \cup {BootFrame(ZeroPacket)},
                        valid : BOOLEAN]
  <2>1. rx \in RxType /\ NoRx \in RxType
    BY <1>1 DEF TopTypeOK, NoRx
  <2>2. CASE LastBit
    <3>1. link.frame \in Frame /\ rx' = [frame |-> link.frame, valid |-> TRUE]
      BY <1>1, <2>2 DEF LastBit, LinkTypeOK
    <3> QED
      BY <3>1
  <2>3. CASE ~LastBit
    BY <2>1, <2>3 DEF Bus, CsFall, Quiet, Held
  <2> QED
    BY <2>2, <2>3
<1>3. hp' \in [pkt : Packet, valid : BOOLEAN]
  BY <1>1, InputTypes DEF BoardClock, ParserClock, TopTypeOK, rst
<1>4. top' \in [op : Opcode, count : FrameIndex, idx : FrameIndex, seq : Seqs]
  <2>1. /\ 0 \in FrameIndex /\ 0 \in Seqs
        /\ (top.count + 1) % CountMod \in FrameIndex
        /\ (top.count + 1) % SeqMod \in Seqs
    BY <1>1, TopAssumption DEF FrameIndex, Seqs, TopTypeOK
  <2> QED
    BY <1>1, <2>1, InputTypes DEF BoardClock, OpClock, TopTypeOK
<1>5. venc' \in [resp : Response, valid : BOOLEAN]
  <2>1. cl_out.verdict \in Verdict /\ cl_out.valid \in BOOLEAN /\ top.seq \in Seqs
    BY <1>1 DEF CombineTypeOK, TopTypeOK
  <2>2. [magic |-> 165, body |-> [verdict |-> cl_out.verdict, seq |-> top.seq]]
          \in Response
    BY <2>1, BodyTypes, MagicTypes
  <2> QED
    BY <1>1, <2>1, <2>2, MagicTypes DEF BoardClock, EncoderClock, TopTypeOK, rst
<1>6. ctrl' \in [p1 : BOOLEAN, p2 : BOOLEAN, op : Opcode, at : Nat] /\ q_key' \in Ip
  BY <1>1, InputTypes DEF BoardClock, CtrlClock, CtrlNow, CmsQueryNow, TopTypeOK
<1>7. tx' \in Response
  <2>1. ASSUME ControlLoads PROVE tx' \in Response
    <3>1. /\ ctrl.op \in Opcode /\ ctrl.at \in Nat
          /\ bf_r_data \in SUBSET BitPos /\ thr_r_val \in Nat /\ rs_rule \in Rule
      BY <1>1 DEF TopTypeOK, BloomTypeOK, RuleTypeOK
    <3> QED
      BY <2>1, <3>1, BodyTypes, MagicTypes DEF ControlLoads
  <2>2. ASSUME DataLoads PROVE tx' \in Response
    <3>1. /\ venc.resp \in Response /\ q_key \in Ip /\ cms.q_count \in Count
          /\ snap \in Body /\ hll.sum \in Sum /\ hll.zeros \in Zeros
          /\ Cardinality(Register) \in Nat
      BY <1>1, BodyTypes, TelAssumption, FS_CardinalityType
         DEF TopTypeOK, TelTypeOK, CmsState, HllState
    <3> QED
      BY <2>2, <3>1, BodyTypes, MagicTypes DEF DataLoads
  <2> QED
    BY <1>1, <2>1, <2>2, MagicTypes DEF BoardClock, TxClock, TopTypeOK
<1> QED
  BY <1>2, <1>3, <1>4, <1>5, <1>6, <1>7 DEF TopTypeOK

\* Link, button and the two budgets.
LEMMA LinkStep == ASSUME Inv, Bus, Button PROVE LinkTypeOK'
<1>1. TopTypeOK /\ LinkTypeOK
  BY DEF Inv, TypeOK
<1> DEFINE LinkType == [busy : BOOLEAN, age : LinkAge,
                        frame : Frame \cup {NoFrame}, got : Response]
<1>2. link' \in LinkType /\ (link'.busy => link'.frame \in Frame)
  <2>1. Older \in LinkAge /\ 0 \in LinkAge
    BY <1>1, TopAssumption DEF Older, LinkAge, LinkTypeOK
  <2>2. link \in LinkType /\ tx \in Response
    BY <1>1 DEF LinkTypeOK, TopTypeOK
  <2>3. ASSUME NEW f \in Frame, CsFall(f)
        PROVE  link' \in LinkType /\ link'.frame \in Frame
    <3>1. link' = [busy |-> TRUE, age |-> link.age, frame |-> f, got |-> tx]
      BY <2>3 DEF CsFall
    <3> QED
      BY <2>2, <3>1
  <2>4. CASE LastBit
    <3>1. link' = [link EXCEPT !.busy = FALSE, !.age = 0]
      BY <2>4 DEF LastBit
    <3> QED
      BY <2>1, <2>2, <3>1
  <2>5. CASE Quiet
    <3>1. link' = [link EXCEPT !.age = Older]
      BY <2>5 DEF Quiet
    <3> QED
      BY <1>1, <2>1, <2>2, <3>1 DEF LinkTypeOK
  <2>6. CASE Held
    <3>1. link' = [link EXCEPT !.busy = FALSE, !.age = Older]
      BY <2>6 DEF Held
    <3> QED
      BY <2>1, <2>2, <3>1
  <2> QED
    BY <2>3, <2>4, <2>5, <2>6 DEF Bus
<1>3. frames_left' \in 0 .. MaxFrames
  BY <1>1, TopAssumption DEF Bus, CsFall, LastBit, Quiet, Held, LinkTypeOK
<1>4. btn' \in 0 .. ResetCycles /\ resets_left' \in 0 .. MaxResets
  BY <1>1, TopAssumption DEF Button, NoPress, Press, Hold, rst, LinkTypeOK
<1> QED
  BY <1>2, <1>3, <1>4 DEF LinkTypeOK

\* Wires are Boolean.
LEMMA Wires ==
    ASSUME TypeOK
    PROVE  /\ rst \in BOOLEAN /\ ClassifyNow \in BOOLEAN
           /\ CmsQueryNow \in BOOLEAN /\ CtrlNow \in BOOLEAN
           /\ \A o : Doing(o) \in BOOLEAN
  BY DEF rst, ClassifyNow, CmsQueryNow, CtrlNow, Doing, TypeOK, TopTypeOK

LEMMA TypeStep == ASSUME Inv, Next PROVE TypeOK'
<1>1. BoardClock /\ Bus /\ Button
  BY DEF Next
<1>2. /\ BloomTypeOK /\ FlowTypeOK /\ RuleTypeOK /\ CombineTypeOK
      /\ TelTypeOK /\ TopTypeOK /\ LinkTypeOK
  BY DEF Inv, TypeOK
<1>3. /\ rst \in BOOLEAN /\ ClassifyNow \in BOOLEAN /\ CmsQueryNow \in BOOLEAN
      /\ \A o : Doing(o) \in BOOLEAN
  BY Wires DEF Inv
<1>4. BloomTypeOK'
  <2>1. BloomClock(rst, ClassifyNow, hp.pkt, Doing(BloomWriteOp),
                   Doing(BloomReadOp), rx.frame.at % Words, rx.frame.val.word)
    BY <1>1 DEF BoardClock
  <2> QED
    BY <1>2, <1>3, <2>1, InputTypes, BloomStep
<1>5. FlowTypeOK'
  <2>1. FlowClock(rst, ClassifyNow, hp.pkt, top.idx, thr) /\ top.idx \in Nat
    BY <1>1, <1>2 DEF BoardClock, TopTypeOK, FrameIndex
  <2> QED
    BY <1>2, <1>3, <2>1, InputTypes, FlowStep
<1>6. RuleTypeOK'
  <2>1. /\ ThrClock(rst, Doing(ThreshWriteOp), rx.frame.at, rx.frame.val.value)
        /\ StoreClock(Doing(RuleWriteOp), rx.frame.at % RuleDepth,
                      rx.frame.val.rule, RuleReadIdx)
        /\ LookupClock(rst, ClassifyNow, hp.pkt.src)
    BY <1>1 DEF BoardClock
  <2>2. /\ hp.pkt.src \in Ip /\ rx.frame.at \in Nat
        /\ rx.frame.at % RuleDepth \in RuleIdx /\ RuleReadIdx \in RuleIdx
        /\ Doing(RuleWriteOp) \in BOOLEAN /\ Doing(ThreshWriteOp) \in BOOLEAN
        /\ Doing(RuleWriteOp) => rx.frame.val.rule \in Rule
        /\ Doing(ThreshWriteOp) => rx.frame.val.value \in Nat
    BY <1>3, InputTypes
  <2> HIDE DEF Doing
  <2> QED
    BY <1>2, <1>3, <2>1, <2>2, RuleStep
<1>7. CombineTypeOK'
  <2>1. CombineClock(rst, ClassifyNow)
    BY <1>1 DEF BoardClock
  <2> QED
    BY <1>2, <1>3, <2>1, CombineStep
<1>8. TelTypeOK'
  <2>1. TelClock(rst, ClassifyNow, hp.pkt.src, CmsQueryNow, hp.pkt.src)
    BY <1>1 DEF BoardClock
  <2> QED
    BY <1>2, <1>3, <2>1, InputTypes, TelStep
<1> QED
  BY <1>1, <1>4, <1>5, <1>6, <1>7, <1>8, TopStep, LinkStep DEF TypeOK

(***************************************************************************)
(* The schedule                                                             *)
(***************************************************************************)
\* While a frame drains nothing can happen on the bus but time.
LEMMA TimePasses ==
    ASSUME Inv, Bus, NEW k \in 0 .. 10, At(k) PROVE At(k + 1)' /\ ~rx'.valid
<1>1. ~link.busy /\ link.age = k /\ k < Gap /\ k < Gap + Slack
  BY TopAssumption DEF At, Drained
<1>2. Older = k + 1
  BY <1>1 DEF Older
<1>3. ~rx'.valid /\ link'.busy = FALSE /\ link'.age = k + 1
  <2>1. link \in [busy : BOOLEAN, age : LinkAge, frame : Frame \cup {NoFrame},
                  got : Response]
    BY DEF Inv, TypeOK, LinkTypeOK
  <2>2. ~rx'.valid \/ LastBit
    BY DEF Bus, CsFall, Quiet, Held, NoRx, Inv, TypeOK, TopTypeOK
  <2>3. Quiet \/ Held
    BY <1>1, TopAssumption DEF Bus, CsFall, LastBit
  <2>4. link' = [link EXCEPT !.age = k + 1]
        \/ link' = [link EXCEPT !.busy = FALSE, !.age = k + 1]
    BY <1>2, <2>3 DEF Quiet, Held
  <2> QED
    BY <1>1, <2>1, <2>2, <2>4 DEF LastBit
<1> QED
  BY <1>3 DEF At

\* A stage that is active for frames of age k only, one edge later: k + 1.
LEMMA Ages ==
    ASSUME Inv, Bus, NEW k \in 0 .. 10
    PROVE  At(k) => ~link'.busy /\ link'.age = k + 1
  BY TimePasses DEF At

\* The front, the control pipeline and the encoder.
LEMMA FrontStep == ASSUME Inv, Next PROVE FrontSchedule'
<1>1. BoardClock /\ Bus
  BY DEF Next
<1>2. TopTypeOK /\ LinkTypeOK /\ CombineTypeOK /\ FrontSchedule /\ (Idle \/ InFlight)
  BY DEF Inv, TypeOK, Schedule
<1>3. rx'.valid => At(0)'
  <2>1. CASE LastBit
    <3>1. link' = [link EXCEPT !.busy = FALSE, !.age = 0]
      BY <2>1 DEF LastBit
    <3> QED
      BY <1>2, <3>1 DEF At, LinkTypeOK
  <2>2. CASE ~LastBit
    BY <1>1, <1>2, <2>2 DEF Bus, CsFall, Quiet, Held, NoRx, TopTypeOK
  <2> QED
    BY <2>1, <2>2
<1>4. hp'.valid => At(1)'
  <2>1. hp'.valid => rx.valid
    BY <1>1 DEF BoardClock, ParserClock
  <2> QED
    BY <1>1, <1>2, <2>1, Ages DEF FrontSchedule, At
<1>5. ~rx'.valid => top'.op = rx'.frame.op
  <2>1. top'.op = rx.frame.op
    BY <1>1, <1>2 DEF BoardClock, OpClock, FrontSchedule
  <2>2. ~LastBit => rx'.frame = rx.frame
    BY <1>1, <1>2 DEF Bus, CsFall, Quiet, Held, NoRx, TopTypeOK
  <2>3. LastBit => rx'.valid
    BY DEF LastBit
  <2> QED
    BY <2>1, <2>2, <2>3
<1>6. ctrl'.p1 => At(2)'
  <2>1. ctrl'.p1 => hp.valid
    BY <1>1 DEF BoardClock, CtrlClock, CtrlNow
  <2> QED
    BY <1>1, <1>2, <2>1, Ages DEF FrontSchedule, At
<1>7. ctrl'.p2 => At(3)'
  <2>1. ctrl'.p2 => ctrl.p1
    BY <1>1 DEF BoardClock, CtrlClock
  <2> QED
    BY <1>1, <1>2, <2>1, Ages DEF FrontSchedule, At
<1>8. cl_out'.valid => At(9)'
  <2>1. CombineClock(rst, ClassifyNow)
    BY <1>1 DEF BoardClock
  <2>2. cl_out'.valid => cl_done = Stage
    <3>1. rst \in BOOLEAN /\ ClassifyNow \in BOOLEAN
      BY Wires DEF Inv
    <3> HIDE DEF rst, ClassifyNow
    <3> QED
      BY <1>2, <2>1, <3>1, CombineMoves
  <2>3. cl_done = Stage => At(8)
    BY <1>2 DEF Stage, Idle, InFlight, At
  <2> QED
    BY <1>1, <2>2, <2>3, Ages DEF At
<1>9. venc'.valid => At(10)'
  <2>1. venc'.valid => cl_out.valid
    BY <1>1 DEF BoardClock, EncoderClock
  <2> QED
    BY <1>1, <1>2, <2>1, Ages DEF FrontSchedule, At
<1>10. link'.busy => link'.age >= Gap
  <2>1. link \in [busy : BOOLEAN, age : LinkAge, frame : Frame \cup {NoFrame},
                  got : Response]
    BY <1>2 DEF LinkTypeOK
  <2>2. link.age \in Nat /\ (link.age >= Gap => Older >= Gap)
    BY <2>1, TopAssumption DEF LinkAge, Older
  <2>3. ASSUME NEW f, CsFall(f) PROVE link'.age >= Gap
    BY <2>3 DEF CsFall
  <2>4. CASE LastBit \/ Held
    BY <2>1, <2>4 DEF LastBit, Held
  <2>5. CASE Quiet
    <3>1. link' = [link EXCEPT !.age = Older]
      BY <2>5 DEF Quiet
    <3> QED
      BY <1>2, <2>1, <2>2, <3>1 DEF FrontSchedule
  <2> QED
    BY <1>1, <2>3, <2>4, <2>5 DEF Bus
<1> QED
  BY <1>3, <1>4, <1>5, <1>6, <1>7, <1>8, <1>9, <1>10 DEF FrontSchedule

\* The sketches start on a decoded frame and walk their phases.
LEMMA TelemetryStep == ASSUME Inv, Next PROVE TelemetrySchedule'
<1>1. BoardClock /\ Bus
  BY DEF Next
<1>2. TelTypeOK /\ FrontSchedule /\ TelemetrySchedule
  BY DEF Inv, TypeOK, Schedule
<1>3. /\ CmsClock(rst, ClassifyNow, hp.pkt.src, CmsQueryNow, hp.pkt.src, tel.tick)
      /\ HllClock(rst, ClassifyNow, hp.pkt.src, tel.tick)
  BY <1>1 DEF BoardClock, TelClock
<1>4. ClassifyNow \/ CmsQueryNow => At(1)
  BY <1>2 DEF ClassifyNow, CmsQueryNow, FrontSchedule
<1>5. (cms.phase # 0 => At(cms.phase + 1))'
  <2>1. \/ cms'.phase = 0
        \/ cms'.phase = 1 /\ (ClassifyNow \/ CmsQueryNow)
        \/ cms'.phase = cms.phase + 1 /\ cms.phase \in 1 .. 2
    BY <1>2, <1>3, CmsMoves
  <2>2. CASE cms'.phase = 1 /\ (ClassifyNow \/ CmsQueryNow)
    <3>1. At(2)'
      BY <1>1, <1>4, <2>2, Ages DEF At
    <3> QED
      BY <2>2, <3>1 DEF At
  <2>3. CASE cms'.phase = cms.phase + 1 /\ cms.phase \in 1 .. 2
    <3>1. cms.phase + 1 \in 0 .. 10 /\ At(cms.phase + 1)
      BY <1>2, <2>3 DEF TelemetrySchedule
    <3>2. ~link'.busy /\ link'.age = cms.phase + 1 + 1
      BY <1>1, <3>1, Ages
    <3> QED
      BY <2>3, <3>2 DEF At
  <2> QED
    BY <2>1, <2>2, <2>3
<1>6. (cms.q_done \/ cms.upd_done => At(5))'
  <2>1. cms'.q_done \/ cms'.upd_done => At(4)
    BY <1>2, <1>3, CmsMoves DEF TelemetrySchedule
  <2> QED
    BY <1>1, <2>1, Ages DEF At
<1>7. (hll.phase # 0 => At(hll.phase + 1))'
  <2>1. \/ hll'.phase = 0
        \/ hll'.phase = 1 /\ ClassifyNow
        \/ hll'.phase = hll.phase + 1 /\ hll.phase \in 1 .. 3
    BY <1>2, <1>3, HllMoves
  <2>2. CASE hll'.phase = 1 /\ ClassifyNow
    <3>1. At(2)'
      BY <1>1, <1>4, <2>2, Ages DEF At
    <3> QED
      BY <2>2, <3>1 DEF At
  <2>3. CASE hll'.phase = hll.phase + 1 /\ hll.phase \in 1 .. 3
    <3>1. hll.phase + 1 \in 0 .. 10 /\ At(hll.phase + 1)
      BY <1>2, <2>3 DEF TelemetrySchedule
    <3>2. ~link'.busy /\ link'.age = hll.phase + 1 + 1
      BY <1>1, <3>1, Ages
    <3> QED
      BY <2>3, <3>2 DEF At
  <2> QED
    BY <2>1, <2>2, <2>3
<1> QED
  BY <1>5, <1>6, <1>7 DEF TelemetrySchedule

\* The three classifier stages move in step, and only a packet starts them.
LEMMA FlightStep ==
    ASSUME Inv, Next
    PROVE  \/ /\ Idle'
              /\ rst \/ (Idle /\ ~ClassifyNow) \/ (InFlight /\ link.age = 8)
           \/ ~rst /\ ClassifyNow /\ Idle /\ InFlight' /\ link'.age = 2
           \/ /\ ~rst /\ ~ClassifyNow /\ InFlight /\ InFlight'
              /\ link.age \in 2 .. 7 /\ link'.age = link.age + 1
<1>1. BoardClock /\ Bus
  BY DEF Next
<1>2. /\ BloomTypeOK /\ FlowTypeOK /\ RuleTypeOK /\ CombineTypeOK
      /\ FrontSchedule /\ (Idle \/ InFlight)
  BY DEF Inv, TypeOK, Schedule
<1>3. /\ PortA(rst, ClassifyNow, hp.pkt)
      /\ FlowClock(rst, ClassifyNow, hp.pkt, top.idx, thr)
      /\ LookupClock(rst, ClassifyNow, hp.pkt.src)
      /\ CombineClock(rst, ClassifyNow)
  BY <1>1 DEF BoardClock, BloomClock
<1>4. rst \in BOOLEAN /\ ClassifyNow \in BOOLEAN
  BY Wires DEF Inv
<1>5. ClassifyNow => At(1)
  BY <1>2 DEF ClassifyNow, FrontSchedule
<1> HIDE DEF rst, ClassifyNow
<1>6. /\ bf'.phase = IF rst \/ bf.phase = 5 \/ (bf.phase = 0 /\ ~ClassifyNow)
                     THEN 0 ELSE bf.phase + 1
      /\ bf'.valid <=> ~rst /\ bf.phase = 5
  BY <1>2, <1>3, <1>4, BloomMoves
<1>7. /\ ft'.phase = IF rst \/ ft.phase = 3 \/ (ft.phase = 0 /\ ~ClassifyNow)
                     THEN 0 ELSE ft.phase + 1
      /\ ft'.valid <=> ~rst /\ ft.phase = 3
  BY <1>2, <1>3, <1>4, FlowMoves
<1>8. /\ rl'.phase = IF ~rst /\ rl.phase = 0 /\ ClassifyNow THEN 1 ELSE 0
      /\ rl'.valid <=> ~rst /\ rl.phase = 1
  BY <1>2, <1>3, <1>4, LookupMoves
<1>9. cl_done' = IF rst \/ cl_done = Stage THEN {}
                 ELSE (IF ClassifyNow THEN {} ELSE cl_done) \cup Arriving
  BY <1>2, <1>3, <1>4, CombineMoves
<1>10. CASE rst
  BY <1>6, <1>7, <1>8, <1>9, <1>10 DEF Idle
<1>11. CASE ~rst /\ Idle
  <2>1. Arriving = {} /\ cl_done' = {}
    BY <1>9, <1>11 DEF Idle, Arriving, Stage
  <2>2. CASE ~ClassifyNow
    BY <1>6, <1>7, <1>8, <1>11, <2>1, <2>2 DEF Idle
  <2>3. CASE ClassifyNow
    <3>1. ~link'.busy /\ link'.age = 2
      BY <1>1, <1>5, <2>3, Ages
    <3> QED
      BY <1>6, <1>7, <1>8, <1>11, <2>1, <2>3, <3>1 DEF Idle, InFlight
  <2> QED
    BY <2>2, <2>3
<1>12. CASE ~rst /\ InFlight
  <2>1. ~ClassifyNow /\ link.age \in 2 .. 8 /\ ~link.busy
    BY <1>5, <1>12 DEF InFlight, At
  <2>2. ~link'.busy /\ link'.age = link.age + 1
    BY <1>1, <2>1, Ages DEF At
  <2>3. cl_done \subseteq Stage
    BY <1>2 DEF CombineTypeOK
  <2>4. CASE link.age = 8
    <3>1. cl_done = Stage
      <4>1. "rule" \in cl_done /\ "flow" \in cl_done /\ "bloom" \in cl_done
        BY <1>12, <2>4 DEF InFlight
      <4> QED
        BY <2>3, <4>1 DEF Stage
    <3>2. bf.phase = 0 /\ ft.phase = 0 /\ rl.phase = 0
      BY <1>12, <2>4 DEF InFlight
    <3>3. Idle'
      BY <1>6, <1>7, <1>8, <1>9, <1>12, <2>1, <3>1, <3>2 DEF Idle
    <3> QED
      BY <1>12, <2>4, <3>3
  <2>5. CASE link.age # 8
    <3>1. cl_done # Stage
      BY <1>12, <2>5 DEF InFlight, Stage
    <3>2. cl_done' = cl_done \cup Arriving
      BY <1>9, <1>12, <2>1, <3>1
    <3>3. /\ "rule" \in Arriving <=> link.age = 3
          /\ "flow" \in Arriving <=> link.age = 5
          /\ "bloom" \in Arriving <=> link.age = 7
      BY <1>12 DEF InFlight, Arriving, Stage
    <3>4. /\ "rule" \in cl_done' <=> link'.age >= 4
          /\ "flow" \in cl_done' <=> link'.age >= 6
          /\ "bloom" \in cl_done' <=> link'.age = 8
      BY <1>12, <2>1, <2>2, <2>5, <3>2, <3>3 DEF InFlight
    <3>5. /\ bf'.phase = IF link'.age <= 6 THEN link'.age - 1 ELSE 0
          /\ bf'.valid <=> link'.age = 7
      BY <1>6, <1>12, <2>1, <2>2, <2>5 DEF InFlight
    <3>6. /\ ft'.phase = IF link'.age <= 4 THEN link'.age - 1 ELSE 0
          /\ ft'.valid <=> link'.age = 5
      BY <1>7, <1>12, <2>1, <2>2, <2>5 DEF InFlight
    <3>7. /\ rl'.phase = IF link'.age = 2 THEN 1 ELSE 0
          /\ rl'.valid <=> link'.age = 3
      BY <1>8, <1>12, <2>1, <2>2, <2>5 DEF InFlight
    <3>8. InFlight'
      BY <2>1, <2>2, <2>5, <3>4, <3>5, <3>6, <3>7 DEF InFlight
    <3> QED
      BY <1>12, <2>1, <2>2, <2>5, <3>8
  <2> QED
    BY <2>4, <2>5
<1> QED
  BY <1>2, <1>10, <1>11, <1>12

\* At power-on nothing is under way.
LEMMA InitSchedule == Init => Schedule
<1> SUFFICES ASSUME Init PROVE Schedule
  OBVIOUS
<1>1. FrontSchedule /\ TelemetrySchedule
  BY DEF Init, InitFrom, FrontSchedule, TelemetrySchedule, TelInit, CombineInit,
         BootFrame
<1>2. Idle
  BY DEF Init, InitFrom, Idle, BloomInit, FlowInit, RuleInit, CombineInit
<1> QED
  BY <1>1, <1>2 DEF Schedule

\* A step that changes nothing.
LEMMA Stutter == ASSUME Inv, UNCHANGED vars PROVE Inv'
<1> USE DEF vars, classifierVars, bloomVars, flowVars, ruleVars, telVars, topVars
<1>1. TypeOK'
  <2>1. BloomTypeOK' /\ FlowTypeOK' /\ RuleTypeOK'
    BY DEF Inv, TypeOK, BloomTypeOK, FlowTypeOK, RuleTypeOK
  <2>2. CombineTypeOK' /\ TelTypeOK'
    BY DEF Inv, TypeOK, CombineTypeOK, TelTypeOK
  <2>3. TopTypeOK' /\ LinkTypeOK'
    BY DEF Inv, TypeOK, TopTypeOK, LinkTypeOK
  <2> QED
    BY <2>1, <2>2, <2>3 DEF TypeOK
<1>2. FrontSchedule' /\ TelemetrySchedule'
  BY DEF Inv, Schedule, FrontSchedule, TelemetrySchedule, At
<1>3. (Idle \/ InFlight)'
  BY DEF Inv, Schedule, Idle, InFlight
<1> QED
  BY <1>1, <1>2, <1>3 DEF Inv, Schedule

LEMMA InvStep == ASSUME Inv, Next PROVE Inv'
  BY TypeStep, FrontStep, TelemetryStep, FlightStep DEF Inv, Schedule

LEMMA InvInductive == Spec => []Inv
<1>1. Init => Inv
  BY InitType, InitSchedule DEF Inv
<1>2. ASSUME Inv, [Next]_vars PROVE Inv'
  <2>1. CASE Next
    BY <1>2, <2>1, InvStep
  <2>2. CASE UNCHANGED vars
    BY <1>2, <2>2, Stutter
  <2> QED
    BY <1>2, <2>1, <2>2
<1> QED
  BY <1>1, <1>2, PTL DEF Spec

\* Every register keeps to its width, whatever frames come and whenever the
\* button is pressed (TypeOK).
THEOREM Typing == Spec => []TypeOK
<1>1. Inv => TypeOK
  BY DEF Inv
<1> QED
  BY <1>1, InvInductive, PTL

\* At most one frame is in the board, and each active stage tells its age:
\* no stage of one frame overlaps with a stage of the next (Schedule).
THEOREM Scheduling == Spec => []Schedule
<1>1. Inv => Schedule
  BY DEF Inv
<1> QED
  BY <1>1, InvInductive, PTL

\* Once CS has fallen the response is final and the frame before has had all
\* its effects on the memories (SettledInTransfer).
THEOREM Settling == Spec => SettledInTransfer
<1> DEFINE Settled ==
      link.busy /\ ~rst
        => UNCHANGED <<tx, bf_mem, ft_mem, rs_mem, thr, cms_mem, hll_mem>>
<1>1. ASSUME Inv, [Next]_vars PROVE [Settled]_vars
  <2>1. SUFFICES ASSUME Next, link.busy, ~rst
                 PROVE  UNCHANGED <<tx, bf_mem, ft_mem, rs_mem, thr, cms_mem, hll_mem>>
    BY <1>1
  <2>2. BoardClock /\ FlowTypeOK /\ TelTypeOK
    BY <1>1, <2>1 DEF Next, Inv, TypeOK
  <2>3. /\ ~hp.valid /\ ~ctrl.p2 /\ ~venc.valid /\ ~cms.q_done
        /\ cms.phase = 0 /\ hll.phase = 0 /\ ft.phase = 0
    BY <1>1, <2>1 DEF Inv, Schedule, FrontSchedule, TelemetrySchedule, Idle,
       InFlight, At
  <2>4. ~(\E o : Doing(o)) /\ ~ClassifyNow /\ ~CmsQueryNow
    BY <2>3 DEF Doing, ClassifyNow, CmsQueryNow
  <2>5. tx' = tx
    BY <2>1, <2>2, <2>3, <2>4 DEF BoardClock, TxClock, ControlReady, DataReady
  <2>6. bf_mem' = bf_mem /\ rs_mem' = rs_mem /\ thr' = thr
    BY <2>1, <2>2, <2>4 DEF BoardClock, BloomClock, PortB, StoreClock, ThrClock
  <2>7. ft_mem' = ft_mem
    BY <2>2, <2>3 DEF BoardClock, FlowClock, FlowReset, FlowLatch, FlowWait,
       FlowUpdate, FlowCompare
  <2>8. cms_mem' = cms_mem /\ hll_mem' = hll_mem
    BY <2>2, <2>3, CmsMoves, HllMoves DEF BoardClock, TelClock
  <2> QED
    BY <2>5, <2>6, <2>7, <2>8
<1> QED
  BY <1>1, InvInductive, PTL DEF Spec, SettledInTransfer

(***************************************************************************)
(* The verdict: Progress is inductive given the schedule, since a stage     *)
(* reads a memory in the cycles its phase says, only a decoded frame writes *)
(* one, and no frame is decoded while a packet is in flight.  Then the      *)
(* registered reads, which are fresh when they are acted on, and the        *)
(* finished count, which is credited to its source.                         *)
(***************************************************************************)
\* A step that starts the stages on a packet, or moves the packet in them on.
Starts == ~rst /\ ClassifyNow /\ Idle /\ InFlight' /\ link'.age = 2
Advances == /\ ~rst /\ ~ClassifyNow /\ InFlight /\ InFlight'
            /\ link.age \in 2 .. 7 /\ link'.age = link.age + 1

\* What holds still from the decode of a packet to its verdict.
LEMMA Still ==
    ASSUME Inv, Next, ~rst, ClassifyNow \/ InFlight
    PROVE  /\ hp'.pkt = hp.pkt /\ UNCHANGED <<bf_mem, rs_mem, thr>>
           /\ ft.phase # 2 => ft_mem' = ft_mem
<1>1. BoardClock /\ FlowTypeOK
  BY DEF Next, Inv, TypeOK
<1>2. ~rx.valid
  BY DEF Inv, Schedule, FrontSchedule, At, InFlight, ClassifyNow
<1>3. ~Doing(BloomWriteOp) /\ ~Doing(ThreshWriteOp) /\ ~Doing(RuleWriteOp)
  BY DEF Inv, Schedule, FrontSchedule, At, InFlight, ClassifyNow,
     Doing, ClassifyOp, BloomWriteOp, ThreshWriteOp, RuleWriteOp
<1>4. hp'.pkt = hp.pkt
  BY <1>1, <1>2 DEF BoardClock, ParserClock
<1>5. bf_mem' = bf_mem /\ rs_mem' = rs_mem /\ thr' = thr
  BY <1>1, <1>3 DEF BoardClock, BloomClock, PortB, StoreClock, ThrClock
<1>6. ft.phase # 2 => ft_mem' = ft_mem
  BY <1>1 DEF BoardClock, FlowClock, FlowReset, FlowLatch, FlowWait, FlowUpdate,
     FlowCompare
<1> QED
  BY <1>4, <1>5, <1>6

(***************************************************************************)
(* The bloom filter: five reads in flight, one word per edge                *)
(***************************************************************************)
LEMMA BloomProgressStep ==
    ASSUME Inv, Next, Starts \/ Advances, NEW p, hp.pkt = p, BloomProgress(p)
    PROVE  BloomProgress(p)'
<1>1. BoardClock /\ BloomTypeOK /\ bf_mem' = bf_mem /\ ~rst
  BY Still DEF Next, Inv, TypeOK, Starts, Advances
<1>2. PortA(rst, ClassifyNow, p)
  BY <1>1 DEF BoardClock, BloomClock
<1>3. /\ DOMAIN bf = {"phase", "src", "dst", "addr", "rdata", "h1s", "h2s", "h1d",
                      "hit", "valid"}
      /\ DOMAIN PortADefault = DOMAIN bf
  BY <1>1 DEF BloomTypeOK, PortAState, PortADefault
<1>4. /\ PortADefault.src = bf.src /\ PortADefault.dst = bf.dst
      /\ PortADefault.rdata = bf_mem[bf.addr] /\ PortADefault.h1s = bf.h1s
      /\ PortADefault.h2s = bf.h2s /\ PortADefault.h1d = bf.h1d
      /\ PortADefault.addr = bf.addr /\ PortADefault.phase = bf.phase
      /\ PortADefault.hit = bf.hit /\ ~PortADefault.valid
  BY <1>1 DEF BloomTypeOK, PortAState, PortADefault
<1> HIDE DEF PortADefault
<1>5. CASE Starts
  <2>1. bf' = [PortADefault EXCEPT !.phase = 1, !.src = p.src, !.dst = p.dst,
                                   !.addr = Hash1[p.src].word]
    BY <1>1, <1>2, <1>5 DEF PortA, Starts, Idle
  <2>2. /\ bf'.phase = 1 /\ ~bf'.valid /\ bf'.src = p.src /\ bf'.dst = p.dst
        /\ bf'.addr = Hash1[p.src].word
    BY <1>3, <1>4, <2>1
  <2>3. "bloom" \notin cl_done'
    BY <1>5 DEF Starts, InFlight
  <2> QED
    BY <2>2, <2>3 DEF BloomProgress
<1>6. CASE Advances /\ bf.phase = 1
  <2>1. bf' = [PortADefault EXCEPT !.phase = 2, !.addr = Hash2[bf.src].word]
    BY <1>1, <1>2, <1>6 DEF PortA
  <2>2. /\ bf'.phase = 2 /\ ~bf'.valid /\ bf'.src = p.src /\ bf'.dst = p.dst
        /\ bf'.addr = Hash2[p.src].word /\ bf'.rdata = bf_mem[Hash1[p.src].word]
    BY <1>3, <1>4, <1>6, <2>1 DEF BloomProgress
  <2>3. "bloom" \notin cl_done'
    BY <1>6 DEF Advances, InFlight
  <2> QED
    BY <1>1, <2>2, <2>3 DEF BloomProgress
<1>7. CASE Advances /\ bf.phase = 2
  <2>1. bf' = [PortADefault EXCEPT !.phase = 3, !.h1s = bf.rdata,
                                   !.addr = Hash1[bf.dst].word]
    BY <1>1, <1>2, <1>7 DEF PortA
  <2>2. /\ bf'.phase = 3 /\ ~bf'.valid /\ bf'.src = p.src /\ bf'.dst = p.dst
        /\ bf'.addr = Hash1[p.dst].word /\ bf'.rdata = bf_mem[Hash2[p.src].word]
        /\ bf'.h1s = bf_mem[Hash1[p.src].word]
    BY <1>3, <1>4, <1>7, <2>1 DEF BloomProgress
  <2>3. "bloom" \notin cl_done'
    BY <1>7 DEF Advances, InFlight
  <2> QED
    BY <1>1, <2>2, <2>3 DEF BloomProgress
<1>8. CASE Advances /\ bf.phase = 3
  <2>1. bf' = [PortADefault EXCEPT !.phase = 4, !.h2s = bf.rdata,
                                   !.addr = Hash2[bf.dst].word]
    BY <1>1, <1>2, <1>8 DEF PortA
  <2>2. /\ bf'.phase = 4 /\ ~bf'.valid /\ bf'.src = p.src /\ bf'.dst = p.dst
        /\ bf'.addr = Hash2[p.dst].word /\ bf'.rdata = bf_mem[Hash1[p.dst].word]
        /\ bf'.h1s = bf_mem[Hash1[p.src].word]
        /\ bf'.h2s = bf_mem[Hash2[p.src].word]
    BY <1>3, <1>4, <1>8, <2>1 DEF BloomProgress
  <2>3. "bloom" \notin cl_done'
    BY <1>8 DEF Advances, InFlight
  <2> QED
    BY <1>1, <2>2, <2>3 DEF BloomProgress
<1>9. CASE Advances /\ bf.phase = 4
  <2>1. bf' = [PortADefault EXCEPT !.phase = 5, !.h1d = bf.rdata]
    BY <1>1, <1>2, <1>9 DEF PortA
  <2>2. /\ bf'.phase = 5 /\ ~bf'.valid /\ bf'.src = p.src /\ bf'.dst = p.dst
        /\ bf'.rdata = bf_mem[Hash2[p.dst].word] /\ bf'.h1d = bf_mem[Hash1[p.dst].word]
        /\ bf'.h1s = bf_mem[Hash1[p.src].word]
        /\ bf'.h2s = bf_mem[Hash2[p.src].word]
    BY <1>3, <1>4, <1>9, <2>1 DEF BloomProgress
  <2>3. "bloom" \notin cl_done'
    BY <1>9 DEF Advances, InFlight
  <2> QED
    BY <1>1, <2>2, <2>3 DEF BloomProgress
<1>10. CASE Advances /\ bf.phase = 5
  <2> DEFINE hit == \/ BothBits(bf.h1s, bf.h2s, bf.src)
                    \/ BothBits(bf.h1d, bf.rdata, bf.dst)
  <2>1. bf' = [PortADefault EXCEPT !.phase = 0, !.valid = TRUE, !.hit = hit]
    BY <1>1, <1>2, <1>10 DEF PortA
  <2>2. hit = Owed(p).bloom
    <3>1. /\ bf.src = p.src /\ bf.dst = p.dst
          /\ bf.h1s = bf_mem[Hash1[p.src].word] /\ bf.h2s = bf_mem[Hash2[p.src].word]
          /\ bf.h1d = bf_mem[Hash1[p.dst].word]
          /\ bf.rdata = bf_mem[Hash2[p.dst].word]
      BY <1>10 DEF BloomProgress
    <3>2. hit = (Member(p.src) \/ Member(p.dst))
      BY <3>1 DEF Member
    <3> QED
      BY <3>2 DEF Owed
  <2>3. "bloom" \notin cl_done'
    BY <1>10 DEF Advances, InFlight
  <2> HIDE DEF hit
  <2>4. bf'.phase = 0 /\ bf'.hit = hit
    BY <1>3, <1>4, <2>1
  <2>5. Owed(p).bloom' = Owed(p).bloom
    BY <1>1 DEF Owed, Member
  <2> QED
    BY <2>2, <2>3, <2>4, <2>5 DEF BloomProgress
<1>11. CASE Advances /\ bf.phase = 0
  <2>1. bf' = PortADefault
    BY <1>1, <1>2, <1>11 DEF PortA, Advances
  <2>2. /\ CombineTypeOK /\ CombineClock(rst, ClassifyNow)
        /\ link'.age = 8 /\ bf.valid /\ "bloom" \notin cl_done
    BY <1>1, <1>11 DEF Advances, InFlight, Inv, TypeOK, BoardClock
  <2>3. cl'.bloom = bf.hit
    BY <1>1, <2>2 DEF CombineClock, Stage, LatchResults
  <2>4. Owed(p).bloom' = Owed(p).bloom
    BY <1>1 DEF Owed, Member
  <2> QED
    BY <1>4, <1>11, <2>1, <2>2, <2>3, <2>4 DEF BloomProgress
<1>12. Starts \/ (Advances /\ bf.phase \in 0 .. 5)
  BY <1>1 DEF BloomTypeOK, PortAState, BloomPhase
<1> QED
  BY <1>5, <1>6, <1>7, <1>8, <1>9, <1>10, <1>11, <1>12

(***************************************************************************)
(* The flow table: the cell read is the cell in memory, and after the       *)
(* write the fields compared are those of the cell written                  *)
(***************************************************************************)
LEMMA FlowProgressStep ==
    ASSUME Inv, Next, Starts \/ Advances, NEW p, hp.pkt = p, FlowProgress(p)
    PROVE  FlowProgress(p)'
<1>1. BoardClock /\ FlowTypeOK /\ CombineTypeOK /\ ~rst /\ thr' = thr
  BY Still DEF Next, Inv, TypeOK, Starts, Advances
<1>2. /\ FlowClock(rst, ClassifyNow, p, top.idx, thr)
      /\ CombineClock(rst, ClassifyNow)
  BY <1>1 DEF BoardClock
<1>3. /\ DOMAIN ft = {"phase", "pkt", "epoch", "rdata", "ports", "hosts", "pkts",
                      "scan", "rate", "valid"}
      /\ DOMAIN FlowDefault = DOMAIN ft
  BY <1>1 DEF FlowTypeOK, FlowState, FlowDefault
<1>4. /\ FlowDefault.pkt = ft.pkt /\ FlowDefault.phase = ft.phase
      /\ FlowDefault.rdata = ft_mem[FlowBucket[ft.pkt.src]]
      /\ FlowDefault.ports = ft.ports /\ FlowDefault.hosts = ft.hosts
      /\ FlowDefault.pkts = ft.pkts /\ FlowDefault.scan = ft.scan
      /\ FlowDefault.rate = ft.rate /\ ~FlowDefault.valid
  BY <1>1 DEF FlowTypeOK, FlowState, FlowDefault
<1>5. /\ ft_mem \in [Bucket -> Cell] /\ FlowBucket[p.src] \in Bucket
      /\ ft.phase \in 0 .. 3
  BY <1>1, InputTypes, FlowAssumption DEF FlowTypeOK, FlowState, FlowPhase
<1> HIDE DEF FlowDefault
<1>6. CASE Starts
  <2>1. ft' = [FlowDefault EXCEPT !.phase = 1, !.pkt = p,
                                  !.epoch = FlowEpoch(top.idx)]
    BY <1>1, <1>2, <1>6 DEF FlowClock, FlowLatch, FlowWait, FlowUpdate,
       FlowCompare, Starts, Idle
  <2>2. ft'.phase = 1 /\ ~ft'.valid /\ ft'.pkt = p
    BY <1>3, <1>4, <2>1
  <2>3. "flow" \notin cl_done'
    BY <1>6 DEF Starts, InFlight
  <2> QED
    BY <2>2, <2>3 DEF FlowProgress
<1>7. CASE Advances /\ ft.phase = 1
  <2>1. ft' = [FlowDefault EXCEPT !.phase = 2] /\ ft_mem' = ft_mem
    BY <1>1, <1>2, <1>7 DEF FlowClock, FlowLatch, FlowWait, FlowUpdate, FlowCompare
  <2>2. /\ ft'.phase = 2 /\ ~ft'.valid /\ ft'.pkt = p
        /\ ft'.rdata = ft_mem[FlowBucket[p.src]]
    BY <1>3, <1>4, <1>7, <2>1 DEF FlowProgress
  <2>3. "flow" \notin cl_done'
    BY <1>7 DEF Advances, InFlight
  <2> QED
    BY <2>1, <2>2, <2>3 DEF FlowProgress, CellOf
<1>8. CASE Advances /\ ft.phase = 2
  <2> DEFINE cell == Updated(ft.rdata, ft.pkt, ft.epoch)
  <2>1. /\ ft_mem' = [ft_mem EXCEPT ![FlowBucket[ft.pkt.src]] = cell]
        /\ ft' = [FlowDefault EXCEPT !.phase = 3, !.ports = cell.ports,
                                     !.hosts = cell.hosts, !.pkts = cell.pkts]
    BY <1>1, <1>2, <1>8 DEF FlowClock, FlowLatch, FlowWait, FlowUpdate, FlowCompare
  <2> HIDE DEF cell
  <2>2. /\ ft'.phase = 3 /\ ~ft'.valid /\ ft'.pkt = p /\ ft'.ports = cell.ports
        /\ ft'.hosts = cell.hosts /\ ft'.pkts = cell.pkts
    BY <1>3, <1>4, <1>8, <2>1 DEF FlowProgress
  <2>3. ft_mem'[FlowBucket[p.src]] = cell
    BY <1>5, <1>8, <2>1 DEF FlowProgress
  <2>4. "flow" \notin cl_done'
    BY <1>8 DEF Advances, InFlight
  <2> QED
    BY <2>2, <2>3, <2>4 DEF FlowProgress, CellOf
<1>9. CASE Advances /\ ft.phase = 3
  <2> DEFINE scan == \/ Cardinality(ft.ports) >= thr.port
                     \/ Cardinality(ft.hosts) >= thr.host
             rate == ft.pkts >= thr.rate
  <2>1. /\ ft' = [FlowDefault EXCEPT !.phase = 0, !.valid = TRUE,
                                     !.scan = scan, !.rate = rate]
        /\ ft_mem' = ft_mem
    BY <1>1, <1>2, <1>9 DEF FlowClock, FlowLatch, FlowWait, FlowUpdate, FlowCompare
  <2>2. scan = Owed(p).scan /\ rate = Owed(p).rate
    BY <1>9 DEF FlowProgress, Owed
  <2>3. Owed(p).scan' = Owed(p).scan /\ Owed(p).rate' = Owed(p).rate
    BY <1>1, <2>1 DEF Owed, CellOf
  <2>4. "flow" \notin cl_done'
    BY <1>9 DEF Advances, InFlight
  <2> HIDE DEF scan, rate
  <2>5. ft'.phase = 0 /\ ft'.scan = scan /\ ft'.rate = rate
    BY <1>3, <1>4, <2>1
  <2> QED
    BY <2>2, <2>3, <2>4, <2>5 DEF FlowProgress
<1>10. CASE Advances /\ ft.phase = 0
  <2>1. ft' = FlowDefault /\ ft_mem' = ft_mem
    BY <1>1, <1>2, <1>10 DEF FlowClock, FlowLatch, FlowWait, FlowUpdate,
       FlowCompare, Advances
  <2>2. cl_done # Stage /\ ~(link.age = 8)
    BY <1>10 DEF Advances, InFlight, Stage
  <2>3. /\ cl'.scan = IF ft.valid THEN ft.scan ELSE cl.scan
        /\ cl'.rate = IF ft.valid THEN ft.rate ELSE cl.rate
    BY <1>1, <1>2, <2>2 DEF CombineClock, LatchResults
  <2>4. Owed(p).scan' = Owed(p).scan /\ Owed(p).rate' = Owed(p).rate
    BY <1>1, <2>1 DEF Owed, CellOf
  <2>5. ft'.phase = 0 /\ ~ft'.valid
    BY <1>4, <1>10, <2>1
  <2>6. "flow" \in cl_done' => ft.valid \/ "flow" \in cl_done
    BY <1>10 DEF Advances, InFlight
  <2> QED
    BY <2>3, <2>4, <2>5, <2>6 DEF FlowProgress
<1> QED
  BY <1>5, <1>6, <1>7, <1>8, <1>9, <1>10

(***************************************************************************)
(* The rule lookup: the read port was the lookup's in the cycle that counts *)
(***************************************************************************)
LEMMA RuleProgressStep ==
    ASSUME Inv, Next, Starts \/ Advances, NEW p, hp.pkt = p, RuleProgress(p)
    PROVE  RuleProgress(p)'
<1>1. /\ BoardClock /\ RuleTypeOK /\ CombineTypeOK /\ ~rst
      /\ thr' = thr /\ rs_mem' = rs_mem
  BY Still DEF Next, Inv, TypeOK, Starts, Advances
<1>2. /\ LookupClock(rst, ClassifyNow, p.src)
      /\ CombineClock(rst, ClassifyNow) /\ rs_rule' = rs_mem[RuleReadIdx]
  BY <1>1 DEF BoardClock, StoreClock
<1>3. DOMAIN rl = {"phase", "src", "epoch", "match", "action", "sev", "valid"}
      /\ rl.phase \in 0 .. 1
  BY <1>1 DEF RuleTypeOK, LookupState, LookupPhase
<1>4. /\ Owed(p).rule' = Owed(p).rule /\ Owed(p).action' = Owed(p).action
      /\ Owed(p).sev' = Owed(p).sev
  BY <1>1 DEF Owed, Matches, RuleEpoch
<1>5. CASE Starts
  <2>1. rl' = [rl EXCEPT !.valid = FALSE, !.phase = 1, !.src = p.src,
                         !.epoch = RuleEpoch]
    BY <1>1, <1>2, <1>5 DEF LookupClock, Starts, Idle
  <2>2. rl'.phase = 1 /\ ~rl'.valid /\ rl'.src = p.src /\ rl'.epoch = RuleEpoch
    BY <1>3, <2>1
  <2>3. RuleReadIdx = RuleHash[p.src]
    BY <1>5 DEF Starts, ClassifyNow, RuleReadIdx, ClassifyOp, RuleReadOp
  <2>4. "rule" \notin cl_done'
    BY <1>5 DEF Starts, InFlight
  <2> QED
    BY <1>1, <1>2, <2>2, <2>3, <2>4 DEF RuleProgress, RuleEpoch
<1>6. CASE Advances /\ rl.phase = 1
  <2>1. /\ rl.src = p.src /\ rl.epoch = RuleEpoch
        /\ rs_rule = rs_mem[RuleHash[p.src]]
    BY <1>6 DEF RuleProgress
  <2>2. LookupHits <=> Matches(p.src)
    BY <2>1 DEF LookupHits, Matches
  <2>3. /\ rl'.match = Owed(p).rule /\ rl'.action = Owed(p).action
        /\ rl'.sev = Owed(p).sev /\ rl'.phase = 0
    <3>1. CASE LookupHits
      <4>1. rl' = [rl EXCEPT !.valid = TRUE, !.phase = 0, !.match = TRUE,
                             !.action = rs_rule.action, !.sev = rs_rule.sev]
        BY <1>1, <1>2, <1>6, <3>1 DEF LookupClock
      <4>2. /\ Owed(p).rule = TRUE /\ Owed(p).action = rs_rule.action
            /\ Owed(p).sev = rs_rule.sev
        BY <2>1, <2>2, <3>1 DEF Owed
      <4> QED
        BY <1>3, <4>1, <4>2
    <3>2. CASE ~LookupHits
      <4>1. rl' = [rl EXCEPT !.valid = TRUE, !.phase = 0, !.match = FALSE,
                             !.action = {}, !.sev = 0]
        BY <1>1, <1>2, <1>6, <3>2 DEF LookupClock
      <4>2. Owed(p).rule = FALSE /\ Owed(p).action = {} /\ Owed(p).sev = 0
        BY <2>2, <3>2 DEF Owed
      <4> QED
        BY <1>3, <4>1, <4>2
    <3> QED
      BY <3>1, <3>2
  <2>4. "rule" \notin cl_done'
    BY <1>3, <1>6 DEF Advances, InFlight
  <2> QED
    BY <1>4, <2>3, <2>4 DEF RuleProgress
<1>7. CASE Advances /\ rl.phase = 0
  <2>1. rl' = [rl EXCEPT !.valid = FALSE]
    BY <1>1, <1>2, <1>7 DEF LookupClock, Advances
  <2>2. cl_done # Stage
    BY <1>7 DEF Advances, InFlight, Stage
  <2>3. /\ cl'.rule = IF rl.valid THEN rl.match ELSE cl.rule
        /\ cl'.action = IF rl.valid THEN rl.action ELSE cl.action
        /\ cl'.sev = IF rl.valid THEN rl.sev ELSE cl.sev
    BY <1>1, <1>2, <2>2 DEF CombineClock, LatchResults
  <2>4. rl'.phase = 0 /\ ~rl'.valid
    BY <1>3, <1>7, <2>1
  <2>5. "rule" \in cl_done' => rl.valid \/ "rule" \in cl_done
    BY <1>7 DEF Advances, InFlight
  <2> QED
    BY <1>4, <2>3, <2>4, <2>5 DEF RuleProgress
<1> QED
  BY <1>3, <1>5, <1>6, <1>7

(***************************************************************************)
(* The verdict                                                              *)
(***************************************************************************)
LEMMA ProgressStep == ASSUME Inv, Progress, Next PROVE Progress'
<1>1. CASE Idle'
  <2>1. (Idle => Progress)'
    BY DEF Idle, Progress, BloomProgress, FlowProgress, RuleProgress
  <2> QED
    BY <1>1, <2>1
<1>2. CASE ~Idle'
  <2>1. Starts \/ Advances
    BY <1>2, FlightStep DEF Starts, Advances
  <2>2. PICK p : hp.pkt = p
    OBVIOUS
  <2>3. hp'.pkt = p
    BY <2>1, <2>2, Still DEF Starts, Advances
  <2>4. BloomProgress(p) /\ FlowProgress(p) /\ RuleProgress(p)
    BY <2>2 DEF Progress
  <2>5. BloomProgress(p)' /\ FlowProgress(p)' /\ RuleProgress(p)'
    BY <2>1, <2>2, <2>4, BloomProgressStep, FlowProgressStep, RuleProgressStep
  <2> QED
    BY <2>3, <2>5 DEF Progress, BloomProgress, FlowProgress, RuleProgress
<1> QED
  BY <1>1, <1>2

LEMMA VerdictStep == ASSUME Inv, Progress, Next PROVE VerdictExact'
<1>1. SUFFICES ASSUME cl_out'.valid
               PROVE  cl_out'.verdict = Combine(Owed(hp.pkt))'
  BY DEF VerdictExact
<1>2. CombineClock(rst, ClassifyNow) /\ CombineTypeOK
  BY DEF Next, BoardClock, Inv, TypeOK
<1>3. ~rst /\ cl_done = Stage /\ cl_out'.verdict = Combine(cl)
  BY <1>1, <1>2 DEF CombineClock, CombineTypeOK
<1>4. InFlight /\ ft.phase = 0
  BY <1>3 DEF Inv, Schedule, Idle, InFlight, Stage
<1>5. PICK p : hp.pkt = p
  OBVIOUS
<1>6. /\ hp'.pkt = p /\ bf_mem' = bf_mem /\ rs_mem' = rs_mem /\ thr' = thr
      /\ ft_mem' = ft_mem
  BY <1>3, <1>4, <1>5, Still
<1>7. /\ cl.bloom = Owed(p).bloom /\ cl.scan = Owed(p).scan
      /\ cl.rate = Owed(p).rate /\ cl.rule = Owed(p).rule
      /\ cl.action = Owed(p).action /\ cl.sev = Owed(p).sev
  BY <1>3, <1>5 DEF Progress, BloomProgress, FlowProgress, RuleProgress, Stage
<1>8. Combine(cl) = Combine(Owed(p))
  BY <1>7 DEF Combine
<1>9. Combine(Owed(p))' = Combine(Owed(p))
  BY <1>6 DEF Owed, Member, Matches, CellOf, RuleEpoch
<1>10. Combine(Owed(hp.pkt))' = Combine(Owed(p))'
  BY <1>6 DEF Owed, Member, Matches, CellOf, RuleEpoch
<1> QED
  BY <1>3, <1>8, <1>9, <1>10

PInv == Inv /\ Progress /\ VerdictExact

LEMMA PInvInductive == Spec => []PInv
<1>1. Init => PInv
  <2> SUFFICES ASSUME Init PROVE PInv
    OBVIOUS
  <2>1. Inv /\ ~cl_out.valid
    BY InitType, InitSchedule DEF Inv, Init, InitFrom, CombineInit
  <2>2. Idle
    BY DEF Init, InitFrom, Idle, BloomInit, FlowInit, RuleInit, CombineInit
  <2>3. Progress
    BY <2>2 DEF Idle, Progress, BloomProgress, FlowProgress, RuleProgress
  <2> QED
    BY <2>1, <2>3 DEF PInv, VerdictExact
<1>2. ASSUME PInv, [Next]_vars PROVE PInv'
  <2>1. CASE Next
    BY <1>2, <2>1, InvStep, ProgressStep, VerdictStep DEF PInv
  <2>2. CASE UNCHANGED vars
    <3>1. Inv'
      BY <1>2, <2>2, Stutter DEF PInv
    <3>2. /\ hp' = hp /\ bf_mem' = bf_mem /\ bf' = bf /\ ft_mem' = ft_mem /\ ft' = ft
          /\ rs_mem' = rs_mem /\ rs_rule' = rs_rule /\ rl' = rl /\ thr' = thr
          /\ cl_done' = cl_done /\ cl' = cl /\ cl_out' = cl_out
      BY <2>2 DEF vars, classifierVars, bloomVars, flowVars, ruleVars, topVars
    <3>3. Owed(hp.pkt)' = Owed(hp.pkt)
      BY <3>2 DEF Owed, Member, CellOf, Matches, RuleEpoch
    <3>4. Progress'
      <4>1. BloomProgress(hp.pkt)'
        <5>1. BloomProgress(hp.pkt)
          BY <1>2 DEF PInv, Progress
        <5> QED
          BY <5>1, <3>2, <3>3 DEF BloomProgress
      <4>2. FlowProgress(hp.pkt)'
        <5>1. FlowProgress(hp.pkt)
          BY <1>2 DEF PInv, Progress
        <5> QED
          BY <5>1, <3>2, <3>3 DEF FlowProgress, CellOf
      <4>3. RuleProgress(hp.pkt)'
        <5>1. RuleProgress(hp.pkt)
          BY <1>2 DEF PInv, Progress
        <5> QED
          BY <5>1, <3>2, <3>3 DEF RuleProgress, RuleEpoch
      <4> QED
        BY <4>1, <4>2, <4>3 DEF Progress
    <3>5. VerdictExact'
      <4>1. VerdictExact
        BY <1>2 DEF PInv
      <4> QED
        BY <4>1, <3>2, <3>3 DEF VerdictExact, Combine
    <3> QED
      BY <3>1, <3>4, <3>5 DEF PInv
  <2> QED
    BY <1>2, <2>1, <2>2
<1> QED
  BY <1>1, <1>2, PTL DEF Spec

\* Each stage has read what the memories hold and answers what it owes to the
\* packet in flight, in every cycle (Progress).
THEOREM Progressing == Spec => []Progress
<1>1. PInv => Progress
  BY DEF PInv
<1> QED
  BY <1>1, PInvInductive, PTL

\* The verdict that comes out is that of the packet in the parser, from the
\* memories and thresholds as they are when it comes out (VerdictExact).
THEOREM ExactVerdict == Spec => []VerdictExact
<1>1. PInv => VerdictExact
  BY DEF PInv
<1> QED
  BY <1>1, PInvInductive, PTL


(***************************************************************************)
(* One edge of the sketches                                                 *)
(***************************************************************************)
\* Entering phase 4 of the HyperLogLog: the register was read on this edge,
\* at the key that stays, and nothing was written.
LEMMA HllReads ==
    ASSUME TelTypeOK, NEW r, NEW upd, NEW ip, NEW tick,
           HllClock(r, upd, ip, tick), hll'.phase = 4
    PROVE  /\ hll'.rword = hll_mem[HllHash[hll.key]]
           /\ hll'.key = hll.key /\ hll_mem' = hll_mem
<1>1. hll.phase = 3 /\ hll_mem' = hll_mem
  BY HllMoves DEF TelTypeOK, HllState, HllPhase
<1>2. DOMAIN hll = {"phase", "key", "epoch", "rword", "sum", "zeros"}
  BY DEF TelTypeOK, HllState
<1>3. hll' = [HllDefault(tick) EXCEPT !.phase = hll.phase + 1]
  <2>1. HllHashing(tick) \/ HllReset
    BY <1>1 DEF HllClock, HllStart, HllUpdate
  <2>2. ASSUME HllReset PROVE FALSE
    <3>1. \A x : "phase" \in DOMAIN HllDefault(x)
      BY <1>2 DEF HllDefault
    <3>2. hll'.phase = 0
      BY <2>2, <3>1 DEF HllReset
    <3> QED BY <3>2
  <2> QED BY <2>1, <2>2 DEF HllHashing
<1> QED BY <1>1, <1>2, <1>3 DEF HllDefault

\* An update keeps its key until its count is out.
LEMMA CmsKeeps ==
    ASSUME TelTypeOK, NEW r, NEW upd \in BOOLEAN, NEW ip, NEW q \in BOOLEAN,
           NEW q_ip, NEW tick, CmsClock(r, upd, ip, q, q_ip, tick)
    PROVE  /\ cms'.phase # 0 /\ cms'.upd
                => \/ cms.phase = 0 /\ upd /\ cms'.key = ip
                   \/ cms.phase # 0 /\ cms.upd /\ cms'.key = cms.key
           /\ cms'.upd_done => /\ cms.phase = 3 /\ cms.upd
                               /\ cms'.key = cms.key
<1>1. DOMAIN cms = {"phase", "upd", "key", "epoch", "r", "s", "q_count",
                    "q_done", "upd_count", "upd_done"}
  BY DEF TelTypeOK, CmsState
<1>2. CASE CmsReset
  BY <1>1, <1>2 DEF CmsReset, CmsDefault
<1>3. CASE CmsStart(upd, ip, q, q_ip, tick)
  <2>1. CASE upd
    BY <1>1, <1>3, <2>1 DEF CmsStart, CmsDefault
  <2>2. CASE ~upd /\ q
    BY <1>1, <1>3, <2>2 DEF CmsStart, CmsDefault
  <2>3. CASE ~upd /\ ~q
    BY <1>1, <1>3, <2>3 DEF CmsStart, CmsDefault
  <2> QED BY <2>1, <2>2, <2>3
<1>4. CASE CmsWait(tick)
  BY <1>1, <1>4 DEF CmsWait, CmsDefault
<1>5. CASE CmsReadModifyWrite(tick)
  <2> DEFINE s == [b \in Bank |-> IF cms.upd THEN Inc(Eff(cms.r[b]))
                                             ELSE Eff(cms.r[b])]
  <2>1. cms.phase = 2 /\ cms' = [CmsDefault(tick) EXCEPT !.phase = 3, !.s = s]
    BY <1>5 DEF CmsReadModifyWrite
  <2> HIDE DEF s
  <2> QED BY <1>1, <2>1 DEF CmsDefault
<1>6. CASE CmsFinish(tick)
  <2>1. cms.phase = 3 /\ cms'.phase = 0
    BY <1>1, <1>6 DEF CmsFinish, CmsDefault
  <2>2. cms'.key = cms.key /\ (cms'.upd_done => cms.upd)
    BY <1>1, <1>6 DEF CmsFinish, CmsDefault
  <2> QED BY <2>1, <2>2
<1> QED BY <1>2, <1>3, <1>4, <1>5, <1>6 DEF CmsClock

(***************************************************************************)
(* The invariants                                                           *)
(***************************************************************************)
\* One cycle before a readback is loaded into tx_reg.
ReadLatched ==
    /\ ctrl.p1 => ctrl.op = rx.frame.op /\ ctrl.at = rx.frame.at
    /\ ctrl.p1 /\ ctrl.op = BloomReadOp
         => bf_r_data = bf_mem[ctrl.at % Words]

\* While an update runs, telemetry.v holds the key that is counted.
KeyHeld == cms.phase # 0 /\ cms.upd => tel.key = cms.key

FreshInv == ReadLatched /\ KeyHeld /\ ReadsAreFresh /\ TopCreditsTheCounted

LEMMA FreshInit == Init => FreshInv
<1> SUFFICES ASSUME Init PROVE FreshInv
  OBVIOUS
<1>1. ~ctrl.p1 /\ ~ctrl.p2
  BY DEF Init, InitFrom
<1>2. cms.phase = 0 /\ ~cms.upd_done /\ hll.phase = 0
  BY DEF Init, InitFrom, TelInit
<1> QED BY <1>1, <1>2 DEF FreshInv, ReadLatched, KeyHeld, ReadsAreFresh,
                          TopCreditsTheCounted

\* The frame under way stays in rx while it drains.
LEMMA FrameStays ==
    ASSUME Inv, Bus, NEW k \in 0 .. 10, At(k)
    PROVE  rx'.frame = rx.frame
<1>1. ~rx'.valid
  BY TimePasses
<1>2. ~LastBit
  BY <1>1 DEF LastBit
<1> QED BY <1>2 DEF Bus, CsFall, Quiet, Held, NoRx, Inv, TypeOK, TopTypeOK

\* The readbacks: a decoded read is latched, and no write can follow it.
LEMMA ReadbackStep ==
    ASSUME Inv, FreshInv, Next
    PROVE  /\ ReadLatched'
           /\ (ctrl.p2 /\ ctrl.op = BloomReadOp
                 => bf_r_data = bf_mem[ctrl.at % Words])'
           /\ (ctrl.p2 /\ ctrl.op = RuleReadOp
                 => rs_rule = rs_mem[ctrl.at % RuleDepth])'
<1>1. BoardClock /\ Bus
  BY DEF Next
<1>2. FrontSchedule /\ TopTypeOK
  BY DEF Inv, Schedule, TypeOK
<1>3. /\ ctrl' = [p1 |-> CtrlNow, p2 |-> ctrl.p1,
                  op |-> IF CtrlNow THEN top.op ELSE ctrl.op,
                  at |-> IF CtrlNow THEN rx.frame.at ELSE ctrl.at]
      /\ PortB(Doing(BloomWriteOp), Doing(BloomReadOp), rx.frame.at % Words,
               rx.frame.val.word)
      /\ StoreClock(Doing(RuleWriteOp), rx.frame.at % RuleDepth,
                    rx.frame.val.rule, RuleReadIdx)
  BY <1>1 DEF BoardClock, CtrlClock, BloomClock
<1>4. hp.valid => At(1) /\ top.op = rx.frame.op
  BY <1>2 DEF FrontSchedule, At
<1>5. ctrl.p1 => At(2) /\ ~hp.valid /\ top.op = rx.frame.op
  BY <1>2 DEF FrontSchedule, At
<1>6. ReadLatched'
  <2> SUFFICES ASSUME ctrl'.p1
               PROVE  /\ ctrl'.op = rx'.frame.op /\ ctrl'.at = rx'.frame.at
                      /\ ctrl'.op = BloomReadOp
                           => bf_r_data' = bf_mem'[ctrl'.at % Words]
    BY DEF ReadLatched
  <2>1. hp.valid /\ CtrlNow /\ top.op = rx.frame.op
    BY <1>3, <1>4 DEF CtrlNow
  <2>2. rx'.frame = rx.frame
    BY <1>1, <1>4, <2>1, FrameStays
  <2>3. ctrl'.op = rx.frame.op /\ ctrl'.at = rx.frame.at
    BY <1>3, <2>1
  <2>4. top.op = BloomReadOp => Doing(BloomReadOp) /\ ~Doing(BloomWriteOp)
    BY <2>1 DEF Doing, BloomReadOp, BloomWriteOp
  <2> QED BY <1>3, <2>1, <2>2, <2>3, <2>4 DEF PortB
<1>7. ASSUME ctrl'.p2
      PROVE  /\ ctrl'.op = BloomReadOp
                  => bf_r_data' = bf_mem'[ctrl'.at % Words]
             /\ ctrl'.op = RuleReadOp
                  => rs_rule' = rs_mem'[ctrl'.at % RuleDepth]
  <2>1. ctrl.p1 /\ ~hp.valid /\ top.op = rx.frame.op
    BY <1>3, <1>5, <1>7
  <2>2. ctrl'.op = ctrl.op /\ ctrl'.at = ctrl.at
    BY <1>3, <2>1 DEF CtrlNow
  <2>3. /\ bf_mem' = bf_mem /\ bf_r_data' = bf_r_data
        /\ rs_mem' = rs_mem /\ rs_rule' = rs_mem[RuleReadIdx]
    BY <1>3, <2>1 DEF Doing, PortB, StoreClock
  <2>4. ctrl.op = rx.frame.op /\ ctrl.at = rx.frame.at
    BY <2>1 DEF FreshInv, ReadLatched
  <2>5. ctrl.op = RuleReadOp => RuleReadIdx = ctrl.at % RuleDepth
    BY <2>1, <2>4 DEF RuleReadIdx
  <2>6. ctrl.op = BloomReadOp => bf_r_data = bf_mem[ctrl.at % Words]
    BY <2>1 DEF FreshInv, ReadLatched
  <2> QED BY <2>2, <2>3, <2>5, <2>6
<1> QED BY <1>6, <1>7

\* The sketches: a packet starts only when they are idle, and what they read
\* is of this packet.
LEMMA SketchStep ==
    ASSUME Inv, FreshInv, Next
    PROVE  /\ KeyHeld' /\ TopCreditsTheCounted'
           /\ (cms.phase = 2
                 => cms.r = [b \in Bank |-> cms_mem[b][CmsHash[b][cms.key]]])'
           /\ (hll.phase = 4 => hll.rword = hll_mem[HllHash[hll.key]])'
<1>1. TelTypeOK /\ FrontSchedule /\ TelemetrySchedule /\ BoardClock
  BY DEF Inv, TypeOK, Schedule, Next
<1>2. TelClock(rst, ClassifyNow, hp.pkt.src, CmsQueryNow, hp.pkt.src)
  BY <1>1 DEF BoardClock
<1>3. /\ CmsClock(rst, ClassifyNow, hp.pkt.src, CmsQueryNow, hp.pkt.src, tel.tick)
      /\ HllClock(rst, ClassifyNow, hp.pkt.src, tel.tick)
  BY <1>2 DEF TelClock
<1>4. ClassifyNow \in BOOLEAN /\ CmsQueryNow \in BOOLEAN
  BY Wires DEF Inv
<1>5. tel'.key = IF ClassifyNow THEN hp.pkt.src ELSE tel.key
  <2>1. DOMAIN tel = {"wcnt", "tick", "key", "window", "total", "top_count",
                      "top_key"}
    BY <1>1 DEF TelTypeOK, WindowState
  <2> DEFINE k == IF ClassifyNow THEN hp.pkt.src ELSE tel.key
  <2>2. \A r : /\ TelDefault(r, ClassifyNow, hp.pkt.src).key = k
               /\ DOMAIN TelDefault(r, ClassifyNow, hp.pkt.src) = DOMAIN tel
    BY <2>1 DEF TelDefault
  <2> HIDE DEF k
  <2>3. ASSUME WindowReset(ClassifyNow, hp.pkt.src) PROVE tel'.key = k
    BY <2>1, <2>2, <2>3 DEF WindowReset
  <2>4. ASSUME WindowBoundary(ClassifyNow, hp.pkt.src) PROVE tel'.key = k
    BY <2>1, <2>2, <2>4 DEF WindowBoundary
  <2>5. ASSUME WindowOpen(ClassifyNow, hp.pkt.src) PROVE tel'.key = k
    BY <2>1, <2>2, <2>5 DEF WindowOpen
  <2>6. tel'.key = k
    BY <1>2, <2>3, <2>4, <2>5 DEF TelClock
  <2> QED BY <2>6 DEF k
<1>6. ClassifyNow => cms.phase = 0
  BY <1>1 DEF ClassifyNow, FrontSchedule, TelemetrySchedule, At, TelTypeOK,
              CmsState, CmsPhase
<1>7. /\ cms'.phase # 0 /\ cms'.upd
           => \/ cms.phase = 0 /\ ClassifyNow /\ cms'.key = hp.pkt.src
              \/ cms.phase # 0 /\ cms.upd /\ cms'.key = cms.key
      /\ cms'.upd_done => cms.phase = 3 /\ cms.upd /\ cms'.key = cms.key
  <2> HIDE DEF ClassifyNow, CmsQueryNow
  <2> QED BY <1>1, <1>3, <1>4, CmsKeeps
<1>8. KeyHeld' /\ TopCreditsTheCounted'
  BY <1>5, <1>6, <1>7 DEF FreshInv, KeyHeld, TopCreditsTheCounted
<1>9. cms'.phase = 2
        => cms'.r = [b \in Bank |-> cms_mem'[b][CmsHash[b][cms'.key]]]
  <2> SUFFICES ASSUME cms'.phase = 2
               PROVE  cms'.r = [b \in Bank |-> cms_mem'[b][CmsHash[b][cms'.key]]]
    OBVIOUS
  <2>1. /\ cms'.r = [b \in Bank |-> cms_mem[b][CmsHash[b][cms.key]]]
        /\ cms'.key = cms.key /\ cms_mem' = cms_mem
    BY <1>1, <1>3, CmsReads
  <2> QED BY <2>1
<1>10. hll'.phase = 4 => hll'.rword = hll_mem'[HllHash[hll'.key]]
  <2> SUFFICES ASSUME hll'.phase = 4
               PROVE  hll'.rword = hll_mem'[HllHash[hll'.key]]
    OBVIOUS
  <2>1. /\ hll'.rword = hll_mem[HllHash[hll.key]]
        /\ hll'.key = hll.key /\ hll_mem' = hll_mem
    BY <1>1, <1>3, HllReads
  <2> QED BY <2>1
<1> QED BY <1>8, <1>9, <1>10

LEMMA FreshStutter == ASSUME FreshInv, UNCHANGED vars PROVE FreshInv'
<1>1. UNCHANGED <<cms, cms_mem, hll, hll_mem, tel, ctrl, rx, bf_mem, bf_r_data,
                  rs_mem, rs_rule>>
  BY DEF vars, classifierVars, telVars, topVars, bloomVars, ruleVars
<1> QED BY <1>1 DEF FreshInv, ReadLatched, KeyHeld, ReadsAreFresh,
                    TopCreditsTheCounted

LEMMA FreshInductive == Spec => [](Inv /\ FreshInv)
<1>1. Init => FreshInv
  BY FreshInit
<1>2. Inv /\ FreshInv /\ [Next]_vars => FreshInv'
  BY ReadbackStep, SketchStep, FreshStutter DEF FreshInv, ReadsAreFresh
<1> QED BY <1>1, <1>2, InvInductive, PTL DEF Spec

\* Between the cycle a block RAM was read and the cycle the word is acted on
\* nobody writes that word, whatever frames, ticks and presses of btnC come:
\* neither a count nor a rank nor a readback is lost or torn.
THEOREM FreshReads == Spec => []ReadsAreFresh
<1>1. FreshInv => ReadsAreFresh
  BY DEF FreshInv
<1> QED BY <1>1, FreshInductive, PTL

\* The key telemetry.v holds for the top talker is that of the update whose
\* count arrives, four cycles later: the next packet cannot come between.
THEOREM CreditsTheCounted == Spec => []TopCreditsTheCounted
<1>1. FreshInv => TopCreditsTheCounted
  BY DEF FreshInv
<1> QED BY <1>1, FreshInductive, PTL

(***************************************************************************)
(* The refinement: what the Pi sees of the pipelined board at each CS fall  *)
(* is what the twins promise.  The invariant behind it follows the request  *)
(* of the last transfer from its last bit to the response register, one     *)
(* line per cycle that matters, and says what a press of btnC leaves of it. *)
(***************************************************************************)
\* No packet being counted takes the byte counter of its cell past its width.
NoByteWrap ==
    ft.phase = 2 => Effective(ft.rdata, ft.pkt.src, ft.epoch).bytes + ft.pkt.size
                      < ByteMod

Req == link.frame
Passed(k, op) == link.age >= k /\ Req.op = op

\* The memories once the request has landed, as the twins have them.
BloomAfter == [view.bloom EXCEPT ![Req.at % Words] = Req.val.word]
RulesAfter == [view.rules EXCEPT ![Req.at % RuleDepth] = Req.val.rule]
RegsAfter == IF Req.at \in 0 .. 3
             THEN [view.regs EXCEPT ![B!RegName(Req.at)] = Req.val.value]
             ELSE view.regs
CellAfter == B!FlowUpdated(view.flow[FlowBucket[Req.hdr.src]], Req.hdr,
                           (view.count \div WindowLen) % Epochs)
FlowAfter == [view.flow EXCEPT ![FlowBucket[Req.hdr.src]] = CellAfter]

\* The verdict the twins give.
VerdictAfter ==
    B!VerdictOf(B!Member(Req.hdr.src) \/ B!Member(Req.hdr.dst), CellAfter,
                B!Lookup(Req.hdr.src))
Verdicted == [magic |-> 165,
              body |-> [verdict |-> VerdictAfter, seq |-> (view.count + 1) % SeqMod]]

\* Nothing is on its way through the pipelines of the board.
Rest ==
    /\ ~rx.valid /\ ~hp.valid /\ ~venc.valid /\ ~cl_out.valid
    /\ cms.phase = 0 /\ ~cms.q_done /\ Idle

\* (1) The request of the last transfer is not in yet, or there was none.
Waiting ==
    /\ link.busy \/ Req = NoFrame
    /\ Rest /\ ~ctrl.p1 /\ ~ctrl.p2
    /\ (Req = NoFrame => link.age >= Gap)
    /\ Memories = view /\ tx = link.got

\* (2) The request is being handled; the age of the frame says how far it is.
Front ==
    /\ rx.frame = Req
    /\ rx.valid <=> link.age = 0
    /\ hp.valid <=> link.age = 1
    /\ link.age = 0 => top.count = view.count
    /\ link.age >= 1 => /\ hp.pkt = Req.hdr /\ top.op = Req.op
                        /\ top.count = (view.count + 1) % CountMod
                        /\ top.idx = view.count
                        /\ top.seq = (view.count + 1) % SeqMod

Stored ==
    /\ bf_mem = IF Passed(2, BloomWriteOp) THEN BloomAfter ELSE view.bloom
    /\ rs_mem = IF Passed(2, RuleWriteOp) THEN RulesAfter ELSE view.rules
    /\ thr = IF Passed(2, ThreshWriteOp) THEN RegsAfter ELSE view.regs
    /\ ft_mem = IF Passed(4, ClassifyOp) THEN FlowAfter ELSE view.flow

Judged ==
    /\ link.age \in 2 .. 8 => (InFlight <=> Req.op = ClassifyOp)
    /\ ft.phase # 0 => ft.epoch = FlowEpoch(view.count)
    /\ Req.op = ClassifyOp /\ link.age = 9 => cl_out.valid
    /\ Req.op = ClassifyOp /\ link.age = 10 => venc.valid /\ venc.resp = Verdicted
    /\ Passed(11, ClassifyOp) => tx = Verdicted

Controlled ==
    /\ ctrl.p1 <=> link.age = 2 /\ Req.op \in ControlOps
    /\ ctrl.p2 <=> link.age = 3 /\ Req.op \in ControlOps
    /\ ctrl.p1 \/ ctrl.p2 => ctrl.op = Req.op /\ ctrl.at = Req.at
    /\ link.age >= 2 /\ Req.op = ThreshReadOp => thr_r_val = B!RegRead(Req.at)
    /\ link.age >= 4 =>
         /\ Req.op \in {BloomWriteOp, RuleWriteOp, ThreshWriteOp}
              => tx = Telemetered([acked |-> Req.op])
         /\ Req.op = BloomReadOp
              => tx = Telemetered([addr |-> Req.at, word |-> view.bloom[Req.at % Words]])
         /\ Req.op = RuleReadOp
              => tx = Telemetered([idx |-> Req.at, rule |-> view.rules[Req.at % RuleDepth]])
         /\ Req.op = ThreshReadOp
              => tx = Telemetered([id |-> Req.at, value |-> B!RegRead(Req.at)])

Asked ==
    /\ Req.op = CmsQueryOp =>
         /\ link.age \in 2 .. 4 => cms.phase = link.age - 1 /\ ~cms.upd
         /\ link.age >= 2 => q_key = Req.hdr.src
         /\ link.age = 5 => cms.q_done
         /\ link.age >= 6 => \E n \in Count : tx = Telemetered([key |-> Req.hdr.src, count |-> n])
    /\ link.age >= 2 /\ Req.op \in {SnapshotOp, HarmonicOp} => tx.magic = 90
    /\ Req.op \notin (0 .. 3) \cup (BloomWriteOp .. RuleReadOp) => tx = link.got

Handling ==
    /\ ~link.busy /\ Req \in Frame
    /\ Front /\ Stored /\ Judged /\ Controlled /\ Asked

\* (3) btnC was pressed since: the response is gone and the registers have
\* their defaults, the memories are as before or as the request leaves them.
Landed ==
    \/ bf_mem = view.bloom /\ ft_mem = view.flow /\ rs_mem = view.rules
    \/ /\ Req # NoFrame
       /\ \/ /\ Req.op = ClassifyOp /\ ft_mem = FlowAfter
             /\ bf_mem = view.bloom /\ rs_mem = view.rules
          \/ /\ Req.op = BloomWriteOp /\ bf_mem = BloomAfter
             /\ ft_mem = view.flow /\ rs_mem = view.rules
          \/ /\ Req.op = RuleWriteOp /\ rs_mem = RulesAfter
             /\ ft_mem = view.flow /\ bf_mem = view.bloom
Forgotten ==
    /\ ~link.busy
    /\ Rest
    /\ ctrl.p1 => btn >= 2
    /\ ctrl.p2 => btn >= 1
    /\ tx = NoResponse /\ thr = ThrDefaults /\ top.count = 0
    /\ Landed

RefInv == \/ btn \in {0, ResetCycles} /\ (Waiting \/ Handling)
          \/ Forgotten

(***************************************************************************)
(* The RTL's packet arithmetic is the twins', where the byte sum fits       *)
(***************************************************************************)
LEMMA CellTwin ==
    ASSUME NEW c \in Cell, NEW p \in Packet, NEW e \in FlowEpochs,
           Effective(c, p.src, e).bytes + p.size < ByteMod
    PROVE  Updated(c, p, e) = B!FlowUpdated(c, p, e)
<1> DEFINE old == Effective(c, p.src, e)
<1>1. p.src \in Ip /\ p.size \in Nat /\ p.port \in Port /\ p.dst \in Ip
      /\ p.flags \in SUBSET Flag
  BY DEF Packet
<1>2. PktMax \in Nat /\ SynMax \in Nat /\ ByteMod \in Nat /\ ByteMod # 0
  BY FlowAssumption
<1> DEFINE cur == IF c.fp # FlowFp[p.src] \/ c.epoch # e
                  THEN B!FreshCell(p.src, e) ELSE c
           seen == [cur EXCEPT !.pkts = B!Saturate(@ + 1, PktMax),
                               !.bytes = B!Saturate(@ + p.size, ByteMod - 1),
                               !.flags = @ \cup p.flags]
<1>3. /\ cur = [fp |-> FlowFp[p.src], epoch |-> e, pkts |-> old.pkts,
                bytes |-> old.bytes, syns |-> old.syns, ports |-> old.ports,
                hosts |-> old.hosts, flags |-> old.flags]
      /\ old.pkts \in 0 .. PktMax /\ old.syns \in 0 .. SynMax
      /\ old.bytes \in 0 .. ByteMod - 1
  <2>1. CASE c.fp # FlowFp[p.src] \/ c.epoch # e
    <3>1. old = BlankCell /\ cur = B!FreshCell(p.src, e)
      BY <2>1 DEF Effective
    <3> HIDE DEF old, cur
    <3> QED
      BY <1>2, <3>1 DEF BlankCell, B!FreshCell
  <2>2. CASE ~(c.fp # FlowFp[p.src] \/ c.epoch # e)
    <3>1. old = c /\ cur = c /\ c.fp = FlowFp[p.src] /\ c.epoch = e
      BY <2>2 DEF Effective
    <3> HIDE DEF old, cur
    <3> QED
      BY <3>1 DEF Cell, PktCount, SynCount, ByteCount
  <2> QED
    BY <2>1, <2>2
<1>40. old.bytes + p.size < ByteMod
  OBVIOUS
<1> HIDE DEF cur, old
<1>4. /\ B!Saturate(old.pkts + 1, PktMax)
           = IF old.pkts = PktMax THEN PktMax ELSE old.pkts + 1
      /\ B!Saturate(old.syns + 1, SynMax)
           = IF old.syns = SynMax THEN SynMax ELSE old.syns + 1
      /\ B!Saturate(old.bytes + p.size, ByteMod - 1) = old.bytes + p.size
      /\ ByteSum(old.bytes, p.size) = old.bytes + p.size
  <2>1. \A n, m : B!Saturate(n, m) = IF n > m THEN m ELSE n
    BY DEF B!Saturate
  <2>2. ByteSum(old.bytes, p.size) = old.bytes + p.size
    BY <1>1, <1>2, <1>3, <1>40 DEF ByteSum
  <2> HIDE DEF old
  <2>3. /\ old.pkts \in Nat /\ old.pkts <= PktMax
        /\ old.syns \in Nat /\ old.syns <= SynMax /\ old.bytes \in Nat
    BY <1>2, <1>3
  <2>4. \A n, most \in Nat :
          n <= most => /\ n = most => n + 1 > most
                       /\ n # most => ~(n + 1 > most)
    OBVIOUS
  <2>5. /\ B!Saturate(old.pkts + 1, PktMax)
             = IF old.pkts = PktMax THEN PktMax ELSE old.pkts + 1
        /\ B!Saturate(old.syns + 1, SynMax)
             = IF old.syns = SynMax THEN SynMax ELSE old.syns + 1
    BY <1>2, <2>1, <2>3, <2>4
  <2>6. B!Saturate(old.bytes + p.size, ByteMod - 1) = old.bytes + p.size
    BY <1>1, <1>2, <1>40, <2>1, <2>3
  <2> QED
    BY <2>2, <2>5, <2>6
<1>5. seen = [fp |-> FlowFp[p.src], epoch |-> e,
              pkts |-> IF old.pkts = PktMax THEN PktMax ELSE old.pkts + 1,
              bytes |-> old.bytes + p.size, syns |-> old.syns,
              ports |-> old.ports, hosts |-> old.hosts,
              flags |-> old.flags \cup p.flags]
  <2>1. /\ cur.pkts = old.pkts /\ cur.bytes = old.bytes /\ cur.flags = old.flags
    BY <1>3
  <2>2. seen = [cur EXCEPT
                  !.pkts = IF old.pkts = PktMax THEN PktMax ELSE old.pkts + 1,
                  !.bytes = old.bytes + p.size, !.flags = old.flags \cup p.flags]
    BY <1>4, <2>1, Zenon
  <2> HIDE DEF seen
  <2> QED
    BY <1>3, <2>2
<1>6. B!FlowUpdated(c, p, e)
        = IF SynGate(p) THEN [seen EXCEPT !.syns = B!Saturate(@ + 1, SynMax),
                                          !.ports = @ \cup {PortBit[p.port]},
                                          !.hosts = @ \cup {HostBit[p.dst]}]
                        ELSE seen
  BY Zenon DEF B!FlowUpdated, seen, cur, B!SynGate, SynGate
<1> HIDE DEF seen
<1>7. Updated(c, p, e)
        = [fp |-> FlowFp[p.src], epoch |-> e,
           pkts |-> IF old.pkts = PktMax THEN PktMax ELSE old.pkts + 1,
           bytes |-> old.bytes + p.size,
           syns |-> IF SynGate(p) /\ old.syns # SynMax THEN old.syns + 1
                                                       ELSE old.syns,
           ports |-> IF SynGate(p) THEN old.ports \cup {PortBit[p.port]}
                                   ELSE old.ports,
           hosts |-> IF SynGate(p) THEN old.hosts \cup {HostBit[p.dst]}
                                   ELSE old.hosts,
           flags |-> old.flags \cup p.flags]
  BY <1>4 DEF Updated, old
<1>8. CASE SynGate(p)
  <2>1. /\ seen.syns = old.syns /\ seen.ports = old.ports
        /\ seen.hosts = old.hosts
    BY <1>5
  <2>2. B!FlowUpdated(c, p, e)
          = [seen EXCEPT
               !.syns = IF old.syns = SynMax THEN SynMax ELSE old.syns + 1,
               !.ports = old.ports \cup {PortBit[p.port]},
               !.hosts = old.hosts \cup {HostBit[p.dst]}]
    BY <1>4, <1>6, <1>8, <2>1, Zenon
  <2> QED
    BY <1>5, <1>7, <1>8, <2>2
<1>9. CASE ~SynGate(p)
  BY <1>5, <1>6, <1>7, <1>9
<1> QED
  BY <1>8, <1>9

(***************************************************************************)
(* The verdict owed from the memories is the verdict of the twins           *)
(***************************************************************************)
LEMMA LargestOf ==
    ASSUME NEW S \in SUBSET Nat, NEW m \in S, \A n \in S : n <= m
    PROVE  B!Largest(S) = m
<1>1. \E x : x \in S /\ \A n \in S : n <= x
  OBVIOUS
<1>2. B!Largest(S) \in S /\ \A n \in S : n <= B!Largest(S)
  BY <1>1, Zenon DEF B!Largest
<1>3. B!Largest(S) \in Nat /\ m \in Nat
  BY <1>2
<1> QED
  BY <1>2, <1>3

LEMMA SameCardinality == \A S : B!Cardinality(S) = Cardinality(S)
  BY DEF B!Cardinality, Cardinality

LEMMA VerdictTwin ==
    ASSUME Inv, Req \in Frame, bf_mem = view.bloom, rs_mem = view.rules,
           thr = view.regs, ft_mem = FlowAfter
    PROVE  Combine(Owed(Req.hdr)) = VerdictAfter
<1> DEFINE p == Req.hdr
           hit == B!Member(p.src) \/ B!Member(p.dst)
           rule == B!Lookup(p.src)
           scan == B!ScanHit(CellAfter)
           rate == B!RateHit(CellAfter)
           own == IF hit THEN 3 ELSE IF scan \/ rate THEN 2 ELSE 0
           sev == IF own > rule.sev % 4 THEN own ELSE rule.sev % 4
<1>1. p.src \in Ip /\ p.dst \in Ip
  BY TopAssumption DEF WellFormed, Packet
<1>2. CellOf(p.src) = CellAfter
  <2>1. ft_mem \in [Bucket -> Cell] /\ FlowBucket[p.src] \in Bucket
    BY <1>1, FlowAssumption DEF Inv, TypeOK, FlowTypeOK
  <2>2. FlowBucket[p.src] \in DOMAIN view.flow
    BY <2>1 DEF FlowAfter
  <2> HIDE DEF p
  <2> QED
    BY <2>2 DEF CellOf, FlowAfter, p
<1>3. Owed(p).bloom = hit
  BY DEF Owed, Member, BothBits, B!Member
<1>4. Owed(p).scan = scan /\ Owed(p).rate = rate
  <2>1. /\ Owed(p).scan = (\/ Cardinality(CellOf(p.src).ports) >= thr.port
                           \/ Cardinality(CellOf(p.src).hosts) >= thr.host)
        /\ Owed(p).rate = (CellOf(p.src).pkts >= thr.rate)
    BY DEF Owed
  <2>2. /\ scan = (\/ Cardinality(CellAfter.ports) >= view.regs.port
                   \/ Cardinality(CellAfter.hosts) >= view.regs.host)
        /\ rate = (CellAfter.pkts >= view.regs.rate)
    BY SameCardinality DEF B!ScanHit, B!RateHit
  <2> HIDE DEF scan, rate, p
  <2> QED
    BY <1>2, <2>1, <2>2
<1>5. /\ Owed(p).rule = rule.match /\ Owed(p).action = rule.action
      /\ Owed(p).sev = rule.sev
  BY DEF Owed, Matches, RuleEpoch, B!Lookup, B!NoMatch
<1>6. Owed(p).sev \in 0 .. 15
  <2>1. rs_mem \in [RuleIdx -> Rule] /\ RuleHash[p.src] \in RuleIdx
    BY <1>1, RuleAssumption DEF Inv, TypeOK, RuleTypeOK
  <2>2. rs_mem[RuleHash[p.src]].sev \in 0 .. 15
    BY <2>1 DEF Rule, RuleSev
  <2>3. Owed(p).sev = IF Matches(p.src) THEN rs_mem[RuleHash[p.src]].sev ELSE 0
    BY DEF Owed
  <2> HIDE DEF p
  <2>4. CASE Matches(p.src)
    BY <2>2, <2>3, <2>4, Zenon
  <2>5. CASE ~Matches(p.src)
    <3>1. Owed(p).sev = 0
      BY <2>3, <2>5, Zenon
    <3> QED BY <3>1
  <2> QED
    BY <2>4, <2>5
<1>7. hit \in BOOLEAN /\ scan \in BOOLEAN /\ rate \in BOOLEAN
  BY DEF B!Member, B!ScanHit, B!RateHit
<1>8. VerdictAfter =
        [bloom |-> hit, scan |-> scan, rate |-> rate, rule |-> rule.match,
         sev |-> B!Largest({IF hit THEN 3 ELSE 0, IF scan THEN 2 ELSE 0,
                            IF rate THEN 2 ELSE 0, rule.sev % 4}),
         escalate |-> \/ hit \/ scan \/ rate \/ rule.match
                      \/ 2 \in rule.action]
  BY DEF VerdictAfter, B!VerdictOf
<1>9. Combine(Owed(p)) =
        [bloom |-> hit, scan |-> scan, rate |-> rate, rule |-> rule.match,
         sev |-> sev,
         escalate |-> \/ hit \/ scan \/ rate \/ rule.match
                      \/ 2 \in rule.action]
  BY <1>3, <1>4, <1>5 DEF Combine
<1>10. rule.sev \in 0 .. 15
  BY <1>5, <1>6
<1> HIDE DEF hit, scan, rate, rule, p
<1>11. B!Largest({IF hit THEN 3 ELSE 0, IF scan THEN 2 ELSE 0,
                  IF rate THEN 2 ELSE 0, rule.sev % 4}) = sev
  <2> DEFINE S == {IF hit THEN 3 ELSE 0, IF scan THEN 2 ELSE 0,
                   IF rate THEN 2 ELSE 0, rule.sev % 4}
  <2>1. rule.sev % 4 \in 0 .. 3
    BY <1>10
  <2>2. S \in SUBSET Nat /\ sev \in S /\ \A n \in S : n <= sev
    BY <1>7, <2>1
  <2> HIDE DEF S, sev
  <2> QED
    BY <2>2, LargestOf DEF S
<1> QED
  BY <1>8, <1>9, <1>11 DEF p

\* What the twins make of a request depends on the request and the view only.
LEMMA SameAfter ==
    ASSUME Req' = Req, view' = view
    PROVE  /\ BloomAfter' = BloomAfter /\ RulesAfter' = RulesAfter
           /\ RegsAfter' = RegsAfter /\ FlowAfter' = FlowAfter
           /\ Verdicted' = Verdicted
           /\ B!RegRead(Req.at)' = B!RegRead(Req.at)
<1>1. BloomAfter' = BloomAfter /\ RulesAfter' = RulesAfter
  BY DEF BloomAfter, RulesAfter
<1>2. RegsAfter' = RegsAfter
  BY DEF RegsAfter, B!RegName
<1>3. CellAfter' = CellAfter
  BY DEF CellAfter, B!FlowUpdated, B!FreshCell, B!Saturate, B!SynGate
<1>4. FlowAfter' = FlowAfter
  BY <1>3 DEF FlowAfter
<1>5. /\ B!ScanHit(CellAfter)' = B!ScanHit(CellAfter)
      /\ B!RateHit(CellAfter)' = B!RateHit(CellAfter)
  BY <1>3, SameCardinality DEF B!ScanHit, B!RateHit
<1>6. /\ B!Member(Req.hdr.src)' = B!Member(Req.hdr.src)
      /\ B!Member(Req.hdr.dst)' = B!Member(Req.hdr.dst)
      /\ B!Lookup(Req.hdr.src)' = B!Lookup(Req.hdr.src)
  BY DEF B!Member, B!Lookup, B!NoMatch
<1>7. VerdictAfter' = VerdictAfter
  BY <1>5, <1>6 DEF VerdictAfter, B!VerdictOf, B!Largest
<1>8. Verdicted' = Verdicted
  BY <1>7 DEF Verdicted
<1>9. B!RegRead(Req.at)' = B!RegRead(Req.at)
  BY DEF B!RegRead, B!RegName
<1> QED
  BY <1>1, <1>2, <1>4, <1>8, <1>9

(***************************************************************************)
(* A board at rest, and the moment CS falls                                 *)
(***************************************************************************)
\* Eleven cycles after a frame nothing of it is under way.
LEMMA Quiesced ==
    ASSUME Inv, link.busy \/ link.age >= 11 PROVE Rest /\ ~ctrl.p1 /\ ~ctrl.p2
<1>1. link.age \in Nat /\ link.busy \in BOOLEAN
  BY TopAssumption DEF Inv, TypeOK, LinkTypeOK, LinkAge
<1>2. FrontSchedule /\ TelemetrySchedule /\ (Idle \/ InFlight)
  BY DEF Inv, Schedule
<1>3. ~rx.valid /\ ~hp.valid /\ ~ctrl.p1 /\ ~ctrl.p2 /\ ~cl_out.valid /\ ~venc.valid
  BY <1>1, <1>2 DEF FrontSchedule, At
<1>4. ~cms.q_done /\ cms.phase = 0
  <2>1. cms.phase \in 0 .. 3
    BY DEF Inv, TypeOK, TelTypeOK, CmsState, CmsPhase
  <2> QED
    BY <1>1, <1>2, <2>1 DEF TelemetrySchedule, At
<1>5. Idle
  BY <1>1, <1>2 DEF InFlight
<1> QED
  BY <1>3, <1>4, <1>5 DEF Rest

\* At rest an edge changes no memory, and nothing but a reset or a frame that
\* arrives wakes the board.
LEMMA RestStep ==
    ASSUME Inv, Next, Rest
    PROVE  /\ UNCHANGED <<bf_mem, ft_mem, rs_mem>>
           /\ ~rst => /\ thr' = thr /\ top'.count = top.count
                      /\ ~ctrl.p2 => tx' = tx
           /\ rst => thr' = ThrDefaults /\ top'.count = 0 /\ tx' = NoResponse
           /\ ~rx'.valid => Rest'
           /\ Idle' /\ ~hp'.valid
           /\ ~ctrl'.p1 /\ (ctrl'.p2 <=> ctrl.p1)
<1>1. BoardClock /\ FlowTypeOK /\ TelTypeOK /\ CombineTypeOK /\ TopTypeOK
  BY DEF Next, Inv, TypeOK
<1>2. /\ ~rx.valid /\ ~hp.valid /\ ~venc.valid /\ ~cl_out.valid
      /\ cms.phase = 0 /\ ~cms.q_done /\ Idle
  BY DEF Rest
<1>3. ~(\E o : Doing(o)) /\ ~ClassifyNow /\ ~CmsQueryNow /\ ~CtrlNow
  BY <1>2 DEF Doing, ClassifyNow, CmsQueryNow, CtrlNow
<1>4. bf_mem' = bf_mem /\ rs_mem' = rs_mem /\ (~rst => thr' = thr)
      /\ (rst => thr' = ThrDefaults)
  BY <1>1, <1>3 DEF BoardClock, BloomClock, PortB, StoreClock, ThrClock
<1>5. ft_mem' = ft_mem
  BY <1>1, <1>2 DEF BoardClock, FlowClock, FlowReset, FlowLatch, FlowWait,
     FlowUpdate, FlowCompare, Idle
<1>6. top'.count = IF rst THEN 0 ELSE top.count
  BY <1>1, <1>2 DEF BoardClock, OpClock
<1>7. (rst => tx' = NoResponse) /\ (~rst /\ ~ctrl.p2 => tx' = tx)
  BY <1>1, <1>2, <1>3 DEF BoardClock, TxClock, ControlReady, DataReady
<1>8. ~hp'.valid /\ ~venc'.valid /\ ~ctrl'.p1 /\ (ctrl'.p2 <=> ctrl.p1)
  BY <1>1, <1>2, <1>3 DEF BoardClock, ParserClock, EncoderClock, CtrlClock
<1>9. ~cl_out'.valid
  <2>1. CombineClock(rst, ClassifyNow) /\ rst \in BOOLEAN /\ ClassifyNow \in BOOLEAN
    BY <1>1, Wires DEF BoardClock, Inv
  <2>2. cl_done # Stage
    BY <1>2 DEF Idle, Stage
  <2> HIDE DEF rst, ClassifyNow
  <2> QED
    BY <1>1, <2>1, <2>2, CombineMoves
<1>10. cms'.phase = 0 /\ ~cms'.q_done
  <2>1. CmsClock(rst, ClassifyNow, hp.pkt.src, CmsQueryNow, hp.pkt.src, tel.tick)
    BY <1>1 DEF BoardClock, TelClock
  <2> QED
    BY <1>1, <1>2, <1>3, <2>1, CmsMoves
<1>11. Idle'
  <2>1. ~InFlight
    BY <1>2 DEF Idle, InFlight
  <2> QED
    BY <1>3, <2>1, FlightStep
<1> QED
  BY <1>4, <1>5, <1>6, <1>7, <1>8, <1>9, <1>10, <1>11 DEF Rest

\* The button: an edge that sees it up leaves it up or just pressed.
LEMMA ButtonStep ==
    ASSUME Inv, Next
    PROVE  /\ btn \in Nat /\ (rst <=> btn # 0)
           /\ ~rst => btn' \in {0, ResetCycles}
           /\ rst => btn' = btn - 1
  BY TopAssumption DEF Inv, TypeOK, LinkTypeOK, Next, Button, NoPress, Press, Hold, rst

\* When CS falls the response and the memories are final: the Pi sees what
\* the board holds, and the board waits for the new request.
LEMMA CsFallStep ==
    ASSUME Inv, Next, NEW f \in Frame, CsFall(f)
    PROVE  /\ Rest /\ ~rst /\ ~link.busy /\ link.age >= 11
           /\ view' = Memories /\ Req' = f /\ link'.got = tx
           /\ btn' \in {0, ResetCycles} /\ Waiting'
<1>1. /\ ~rst /\ ~link.busy /\ link.age >= Gap /\ view' = Memories /\ rx' = NoRx
      /\ link' = [busy |-> TRUE, age |-> link.age, frame |-> f, got |-> tx]
  BY DEF CsFall
<1>2. link.age >= 11
  BY <1>1, TopAssumption DEF Drained, Inv, TypeOK, LinkTypeOK, LinkAge
<1>3. Rest /\ ~ctrl.p1 /\ ~ctrl.p2
  BY <1>2, Quiesced
<1>4. ~rx'.valid
  BY <1>1 DEF NoRx, Inv, TypeOK, TopTypeOK
<1>5. Rest' /\ ~ctrl'.p1 /\ ~ctrl'.p2 /\ tx' = tx
      /\ bf_mem' = bf_mem /\ ft_mem' = ft_mem /\ rs_mem' = rs_mem
      /\ thr' = thr /\ top'.count = top.count
  BY <1>1, <1>3, <1>4, RestStep
<1>6. Memories' = Memories
  BY <1>5 DEF Memories
<1>7. Req' = f /\ link'.got = tx /\ link'.busy
  BY <1>1 DEF Req
<1>8. Waiting'
  BY <1>1, <1>5, <1>6, <1>7, TopAssumption DEF Waiting
<1> QED
  BY <1>1, <1>2, <1>3, <1>7, <1>8, ButtonStep

(***************************************************************************)
(* (1) Waiting for the request                                              *)
(***************************************************************************)
LEMMA WaitingFields ==
    ASSUME Memories = view
    PROVE  /\ view.bloom = bf_mem /\ view.flow = ft_mem /\ view.rules = rs_mem
           /\ view.regs = thr /\ view.count = top.count
<1>1. /\ Memories.bloom = bf_mem /\ Memories.flow = ft_mem /\ Memories.rules = rs_mem
      /\ Memories.regs = thr /\ Memories.count = top.count
  BY DEF Memories
<1> QED
  BY <1>1

\* Its last bit arrives: the handling starts at age 0.
LEMMA Arrives ==
    ASSUME Inv, Next, Waiting, LastBit PROVE Handling'
<1>1. /\ ~rst /\ link.busy /\ link' = [link EXCEPT !.busy = FALSE, !.age = 0]
      /\ rx' = [frame |-> link.frame, valid |-> TRUE] /\ view' = view
  BY DEF LastBit
<1>2. /\ ~link'.busy /\ link'.age = 0 /\ Req' = Req /\ link'.got = link.got
      /\ Req \in Frame
  BY <1>1 DEF Inv, TypeOK, LinkTypeOK, Req
<1>3. Rest /\ ~ctrl.p1 /\ ~ctrl.p2 /\ Memories = view /\ tx = link.got
  BY DEF Waiting
<1>4. /\ bf_mem' = bf_mem /\ ft_mem' = ft_mem /\ rs_mem' = rs_mem /\ thr' = thr
      /\ top'.count = top.count /\ tx' = tx /\ Idle' /\ ~hp'.valid
      /\ ~ctrl'.p1 /\ ~ctrl'.p2
  BY <1>1, <1>3, RestStep
<1>5. Front'
  BY <1>1, <1>2, <1>3, <1>4, WaitingFields DEF Front, Req
<1>6. Stored'
  <2>1. \A k \in {2, 4} : \A op : ~(link'.age >= k /\ (Req').op = op)
    BY <1>2
  <2> QED
    BY <1>1, <1>3, <1>4, <2>1, WaitingFields DEF Stored, Passed
<1>7. Judged'
  <2>1. ft'.phase = 0
    BY <1>4 DEF Idle
  <2> QED
    BY <1>2, <2>1 DEF Judged, Passed
<1>8. Controlled'
  BY <1>2, <1>4 DEF Controlled
<1>9. Asked'
  BY <1>2, <1>3, <1>4 DEF Asked
<1> QED
  BY <1>2, <1>5, <1>6, <1>7, <1>8, <1>9 DEF Handling

\* Nothing arrives: the board waits on, or btnC ends the transfer.
LEMMA WaitsOn ==
    ASSUME Inv, Next, Waiting, Quiet PROVE Waiting'
<1>1. /\ ~rst /\ link' = [link EXCEPT !.age = Older] /\ rx' = NoRx /\ view' = view
      /\ link.age < Gap + Slack
  BY DEF Quiet
<1>2. /\ link'.busy = link.busy /\ link'.age = link.age + 1 /\ Req' = Req
      /\ link'.got = link.got /\ link.age \in Nat
  BY <1>1, TopAssumption DEF Inv, TypeOK, LinkTypeOK, LinkAge, Older, Req
<1>3. Rest /\ ~ctrl.p1 /\ ~ctrl.p2 /\ Memories = view /\ tx = link.got
  BY DEF Waiting
<1>4. ~rx'.valid
  BY <1>1 DEF NoRx, Inv, TypeOK, TopTypeOK
<1>5. /\ bf_mem' = bf_mem /\ ft_mem' = ft_mem /\ rs_mem' = rs_mem /\ thr' = thr
      /\ top'.count = top.count /\ tx' = tx /\ Rest' /\ ~ctrl'.p1 /\ ~ctrl'.p2
  BY <1>1, <1>3, <1>4, RestStep
<1>6. Memories' = view'
  BY <1>1, <1>3, <1>5 DEF Memories
<1> QED
  BY <1>2, <1>3, <1>5, <1>6, TopAssumption DEF Waiting

LEMMA WaitingReset ==
    ASSUME Inv, Next, Waiting, Held PROVE Forgotten'
<1>1. /\ rst /\ link' = [link EXCEPT !.busy = FALSE, !.age = Older] /\ rx' = NoRx
      /\ view' = view
  BY DEF Held
<1>2. ~link'.busy /\ Req' = Req
  BY <1>1 DEF Inv, TypeOK, LinkTypeOK, Req
<1>3. Rest /\ ~ctrl.p1 /\ ~ctrl.p2 /\ Memories = view
  BY DEF Waiting
<1>4. ~rx'.valid
  BY <1>1 DEF NoRx, Inv, TypeOK, TopTypeOK
<1>5. /\ bf_mem' = bf_mem /\ ft_mem' = ft_mem /\ rs_mem' = rs_mem
      /\ thr' = ThrDefaults /\ top'.count = 0 /\ tx' = NoResponse
      /\ Rest' /\ ~ctrl'.p1 /\ ~ctrl'.p2
  BY <1>1, <1>3, <1>4, RestStep
<1>6. Landed'
  BY <1>1, <1>3, <1>5, WaitingFields DEF Landed
<1> QED
  BY <1>2, <1>5, <1>6 DEF Forgotten

(***************************************************************************)
(* (3) After a reset                                                        *)
(***************************************************************************)
LEMMA ForgottenStep ==
    ASSUME Inv, Next, Forgotten, Quiet \/ Held PROVE Forgotten'
<1>1. /\ \/ link' = [link EXCEPT !.age = Older] /\ ~rst
         \/ link' = [link EXCEPT !.busy = FALSE, !.age = Older] /\ rst
      /\ rx' = NoRx /\ view' = view
  BY DEF Quiet, Held
<1>2. ~link'.busy /\ Req' = Req
  BY <1>1 DEF Inv, TypeOK, LinkTypeOK, Req, Forgotten
<1>3. /\ Rest /\ (ctrl.p1 => btn >= 2) /\ (ctrl.p2 => btn >= 1)
      /\ tx = NoResponse /\ thr = ThrDefaults /\ top.count = 0 /\ Landed
  BY DEF Forgotten
<1>4. ~rx'.valid
  BY <1>1 DEF NoRx, Inv, TypeOK, TopTypeOK
<1>5. ~rst => ~ctrl.p2
  BY <1>3, ButtonStep
<1>6. /\ bf_mem' = bf_mem /\ ft_mem' = ft_mem /\ rs_mem' = rs_mem
      /\ thr' = ThrDefaults /\ top'.count = 0 /\ tx' = NoResponse
      /\ Rest' /\ ~ctrl'.p1 /\ (ctrl'.p2 <=> ctrl.p1)
  BY <1>3, <1>4, <1>5, RestStep
<1>7. ctrl'.p2 => btn' >= 1
  BY <1>3, <1>6, ButtonStep
<1>8. Landed'
  BY <1>1, <1>2, <1>3, <1>6, SameAfter DEF Landed
<1> QED
  BY <1>2, <1>6, <1>7, <1>8 DEF Forgotten

(***************************************************************************)
(* (2) Handling the request                                                 *)
(***************************************************************************)
LEMMA RequestTypes ==
    ASSUME Req \in Frame
    PROVE  /\ WellFormed(Req) /\ Req.op \in Nat /\ Req.at \in Nat
           /\ Req.hdr \in Packet /\ Req.hdr.src \in Ip
  BY TopAssumption DEF WellFormed, Opcode, Packet

\* What an edge on the idle bus leaves as it is.
LEMMA Grows ==
    ASSUME Inv, Next, Handling, Quiet \/ Held
    PROVE  /\ link.age \in Nat /\ ~link.busy /\ ~link'.busy /\ Req' = Req
           /\ view' = view /\ link'.got = link.got /\ ~rx'.valid
           /\ rx'.frame = Req
           /\ Quiet => ~rst /\ link'.age = link.age + 1
           /\ Held => rst
<1>1. /\ \/ link' = [link EXCEPT !.age = Older] /\ ~rst
         \/ link' = [link EXCEPT !.busy = FALSE, !.age = Older] /\ rst
      /\ rx' = NoRx /\ view' = view
  BY DEF Quiet, Held
<1>2. ~link'.busy /\ Req' = Req /\ link'.got = link.got
  BY <1>1 DEF Inv, TypeOK, LinkTypeOK, Req, Handling
<1>3. link.age \in Nat
  BY TopAssumption DEF Inv, TypeOK, LinkTypeOK, LinkAge
<1>4. ~rx'.valid /\ rx'.frame = rx.frame
  BY <1>1 DEF NoRx, Inv, TypeOK, TopTypeOK
<1>5. Quiet => ~rst /\ link'.age = link.age + 1
  BY <1>3 DEF Quiet, Older, Inv, TypeOK, LinkTypeOK
<1> QED
  BY <1>1, <1>2, <1>3, <1>4, <1>5 DEF Handling, Front, Held

\* What each opcode raises, and when.
LEMMA Decoded ==
    ASSUME Inv, Handling
    PROVE  /\ \A o : Doing(o) <=> link.age = 1 /\ Req.op = o
           /\ ClassifyNow <=> link.age = 1 /\ Req.op = ClassifyOp
           /\ CmsQueryNow <=> link.age = 1 /\ Req.op = CmsQueryOp
           /\ CtrlNow <=> link.age = 1 /\ Req.op \in ControlOps
           /\ link.age >= 1 => top.op = Req.op
           /\ link.age = 0 => ~ctrl.p2 /\ ~venc.valid /\ ~cms.q_done
           /\ rx.frame = Req
<1>1. link.age \in Nat
  BY TopAssumption DEF Inv, TypeOK, LinkTypeOK, LinkAge
<1>2. link.age = 0 => ~ctrl.p2 /\ ~venc.valid /\ ~cms.q_done
  BY DEF Inv, Schedule, FrontSchedule, TelemetrySchedule, At
<1> QED
  BY <1>1, <1>2 DEF Handling, Front, Doing, ClassifyNow, CmsQueryNow, CtrlNow

LEMMA FrontMoves == ASSUME Inv, Next, Handling, Quiet PROVE Front'
<1>1. /\ link.age \in Nat /\ Req' = Req /\ view' = view /\ ~rx'.valid
      /\ rx'.frame = Req /\ ~rst /\ link'.age = link.age + 1
  BY Grows
<1>2. Front /\ OpClock /\ ParserClock
  BY DEF Handling, Next, BoardClock
<1>3. hp'.valid <=> link.age = 0
  BY <1>1, <1>2 DEF ParserClock, Front
<1>4. CASE link.age = 0
  <2>1. hp'.pkt = Req.hdr
    BY <1>1, <1>2, <1>4 DEF ParserClock, Front
  <2>2. /\ top'.op = Req.op /\ top'.count = (view.count + 1) % CountMod
        /\ top'.idx = view.count /\ top'.seq = (view.count + 1) % SeqMod
    BY <1>1, <1>2, <1>4 DEF OpClock, Front
  <2> QED
    BY <1>1, <1>3, <1>4, <2>1, <2>2 DEF Front
<1>5. CASE link.age # 0
  <2>1. hp'.pkt = hp.pkt
    BY <1>1, <1>2, <1>5 DEF ParserClock, Front
  <2>2. /\ top'.op = top.op /\ top'.count = top.count
        /\ top'.idx = top.idx /\ top'.seq = top.seq
    BY <1>1, <1>2, <1>5 DEF OpClock, Front
  <2> QED
    BY <1>1, <1>2, <1>3, <1>5, <2>1, <2>2 DEF Front
<1> QED
  BY <1>4, <1>5

\* The writes of the Pi land on the edge after the decode, reset or not.
LEMMA WritesLand ==
    ASSUME Inv, Next, Handling, Quiet \/ Held
    PROVE  /\ bf_mem' = IF link.age >= 1 /\ Req.op = BloomWriteOp
                        THEN BloomAfter ELSE view.bloom
           /\ rs_mem' = IF link.age >= 1 /\ Req.op = RuleWriteOp
                        THEN RulesAfter ELSE view.rules
           /\ ~rst => thr' = IF link.age >= 1 /\ Req.op = ThreshWriteOp
                             THEN RegsAfter ELSE view.regs
<1>1. link.age \in Nat /\ Stored /\ BoardClock
  BY Grows DEF Handling, Next
<1>2. rx.frame = Req /\ \A o : Doing(o) <=> link.age = 1 /\ Req.op = o
  BY Decoded
<1>3. bf_mem' = IF Doing(BloomWriteOp)
                THEN [bf_mem EXCEPT ![Req.at % Words] = Req.val.word] ELSE bf_mem
  BY <1>1, <1>2 DEF BoardClock, BloomClock, PortB
<1>4. rs_mem' = IF Doing(RuleWriteOp)
                THEN [rs_mem EXCEPT ![Req.at % RuleDepth] = Req.val.rule] ELSE rs_mem
  BY <1>1, <1>2 DEF BoardClock, StoreClock
<1>5. ~rst => thr' = IF Doing(ThreshWriteOp) /\ Req.at \in 0 .. 3
                     THEN [thr EXCEPT ![ThrField(Req.at)] = Req.val.value] ELSE thr
  BY <1>1, <1>2 DEF BoardClock, ThrClock
<1>6. ThrField(Req.at) = B!RegName(Req.at)
  BY DEF ThrField, B!RegName
<1>7. link.age = 1 => bf_mem = view.bloom /\ rs_mem = view.rules /\ thr = view.regs
  BY <1>1 DEF Stored, Passed
<1>8. link.age # 1 => (link.age >= 1 <=> link.age >= 2)
  BY <1>1
<1> HIDE DEF Doing
<1>9. bf_mem' = IF link.age >= 1 /\ Req.op = BloomWriteOp
                THEN BloomAfter ELSE view.bloom
  BY <1>1, <1>2, <1>3, <1>7, <1>8 DEF Stored, Passed, BloomAfter
<1>10. rs_mem' = IF link.age >= 1 /\ Req.op = RuleWriteOp
                 THEN RulesAfter ELSE view.rules
  BY <1>1, <1>2, <1>4, <1>7, <1>8 DEF Stored, Passed, RulesAfter
<1>11. ~rst => thr' = IF link.age >= 1 /\ Req.op = ThreshWriteOp
                      THEN RegsAfter ELSE view.regs
  BY <1>1, <1>2, <1>5, <1>6, <1>7, <1>8 DEF Stored, Passed, RegsAfter
<1> QED
  BY <1>9, <1>10, <1>11

\* The cell of the packet is written in the third cycle after the decode, as
\* the twin updates it; a reset stops the table before it writes.
LEMMA CellLands ==
    ASSUME PInv, NoByteWrap, Next, Handling, Quiet \/ Held
    PROVE  /\ rst => ft_mem' = IF Passed(4, ClassifyOp) THEN FlowAfter ELSE view.flow
           /\ ~rst => ft_mem' = IF link.age >= 3 /\ Req.op = ClassifyOp
                                THEN FlowAfter ELSE view.flow
<1>1. /\ Inv /\ Stored /\ Judged /\ Front /\ BoardClock /\ FlowTypeOK
      /\ (Idle \/ InFlight) /\ link.age \in Nat /\ Req \in Frame
  BY Grows DEF PInv, Handling, Next, Inv, TypeOK, Schedule
<1>2. FlowClock(rst, ClassifyNow, hp.pkt, top.idx, thr)
  BY <1>1 DEF BoardClock
<1>3. rst => ft_mem' = ft_mem
  BY <1>2 DEF FlowClock, FlowReset
<1>4. ft.phase # 2 => ft_mem' = ft_mem
  BY <1>2 DEF FlowClock, FlowReset, FlowLatch, FlowWait, FlowUpdate, FlowCompare
<1>5. ft.phase = 2 <=> link.age = 3 /\ Req.op = ClassifyOp
  <2>1. ft.phase = 2 => InFlight /\ link.age = 3
    BY <1>1 DEF Idle, InFlight
  <2>2. link.age = 3 => (InFlight <=> Req.op = ClassifyOp)
    BY <1>1 DEF Judged
  <2>3. link.age = 3 /\ InFlight => ft.phase = 2
    BY DEF InFlight
  <2> QED
    BY <2>1, <2>2, <2>3
<1>6. ASSUME ft.phase = 2, ~rst PROVE ft_mem' = FlowAfter
  <2> DEFINE p == Req.hdr
             b == FlowBucket[p.src]
  <2>1. p \in Packet /\ b \in Bucket /\ hp.pkt = p
    BY <1>1, <1>5, <1>6, RequestTypes, FlowAssumption DEF Front
  <2>2. ft_mem = view.flow
    BY <1>1, <1>5, <1>6 DEF Stored, Passed
  <2>3. ft.pkt = p /\ ft.rdata = view.flow[b] /\ ft.epoch = FlowEpoch(view.count)
    BY <1>1, <1>6, <2>1, <2>2 DEF PInv, Progress, FlowProgress, CellOf, Judged
  <2>4. ft.rdata \in Cell /\ ft.epoch \in FlowEpochs
    BY <1>1 DEF FlowTypeOK, FlowState
  <2>5. Effective(ft.rdata, p.src, ft.epoch).bytes + p.size < ByteMod
    BY <1>6, <2>3 DEF NoByteWrap
  <2> HIDE DEF p
  <2>6. Updated(ft.rdata, p, ft.epoch) = B!FlowUpdated(ft.rdata, p, ft.epoch)
    BY <2>1, <2>4, <2>5, CellTwin
  <2>7. B!FlowUpdated(ft.rdata, p, ft.epoch) = CellAfter
    BY <2>3 DEF CellAfter, p, FlowEpoch
  <2>8. ft_mem' = [ft_mem EXCEPT ![FlowBucket[ft.pkt.src]] =
                     Updated(ft.rdata, ft.pkt, ft.epoch)]
    BY <1>2, <1>6 DEF FlowClock, FlowReset, FlowLatch, FlowWait, FlowUpdate,
       FlowCompare
  <2>9. ft_mem' = [view.flow EXCEPT ![b] = CellAfter]
    BY <2>2, <2>3, <2>6, <2>7, <2>8
  <2> QED
    BY <2>9 DEF FlowAfter, p
<1>7. rst => ft_mem' = IF Passed(4, ClassifyOp) THEN FlowAfter ELSE view.flow
  BY <1>1, <1>3 DEF Stored
<1>8. ASSUME ~rst
      PROVE  ft_mem' = IF link.age >= 3 /\ Req.op = ClassifyOp
                       THEN FlowAfter ELSE view.flow
  BY <1>1, <1>4, <1>5, <1>6, <1>8 DEF Stored, Passed
<1> QED
  BY <1>7, <1>8

LEMMA StoredMoves ==
    ASSUME PInv, NoByteWrap, Next, Handling, Quiet PROVE Stored'
<1>1. /\ link.age \in Nat /\ link'.age = link.age + 1 /\ Req' = Req /\ ~rst
      /\ view' = view
  BY Grows DEF PInv
<1>2. \A k, op : Passed(k, op)' <=> link'.age >= k /\ Req.op = op
  BY <1>1 DEF Passed
<1>3. /\ BloomAfter' = BloomAfter /\ RulesAfter' = RulesAfter
      /\ RegsAfter' = RegsAfter /\ FlowAfter' = FlowAfter
  BY <1>1, SameAfter
<1>4. /\ link'.age >= 2 <=> link.age >= 1
      /\ link'.age >= 4 <=> link.age >= 3
  BY <1>1
<1>5. /\ Passed(2, BloomWriteOp)' <=> link.age >= 1 /\ Req.op = BloomWriteOp
      /\ Passed(2, RuleWriteOp)' <=> link.age >= 1 /\ Req.op = RuleWriteOp
      /\ Passed(2, ThreshWriteOp)' <=> link.age >= 1 /\ Req.op = ThreshWriteOp
      /\ Passed(4, ClassifyOp)' <=> link.age >= 3 /\ Req.op = ClassifyOp
  BY <1>2, <1>4
<1> HIDE DEF Passed
<1>6. /\ bf_mem' = IF Passed(2, BloomWriteOp)' THEN BloomAfter ELSE view.bloom
      /\ rs_mem' = IF Passed(2, RuleWriteOp)' THEN RulesAfter ELSE view.rules
      /\ thr' = IF Passed(2, ThreshWriteOp)' THEN RegsAfter ELSE view.regs
  BY <1>1, <1>5, WritesLand DEF PInv
<1>7. ft_mem' = IF Passed(4, ClassifyOp)' THEN FlowAfter ELSE view.flow
  BY <1>1, <1>5, CellLands
<1> QED
  BY <1>1, <1>3, <1>6, <1>7 DEF Stored

LEMMA JudgedMoves ==
    ASSUME PInv, Next, Handling, Quiet PROVE Judged'
<1>1. /\ link.age \in Nat /\ link'.age = link.age + 1 /\ Req' = Req /\ ~rst
      /\ view' = view /\ ~link.busy /\ ~link'.busy
  BY Grows DEF PInv
<1>2. /\ Inv /\ Stored /\ Judged /\ Front /\ BoardClock /\ FlowTypeOK
      /\ CombineTypeOK /\ (Idle \/ InFlight) /\ Req \in Frame
      /\ (Idle' \/ InFlight')
  BY InvStep DEF PInv, Handling, Next, Inv, TypeOK, Schedule
<1>3. ClassifyNow <=> link.age = 1 /\ Req.op = ClassifyOp
  BY <1>2, Decoded
<1>4. ~(Idle /\ InFlight) /\ ~(Idle' /\ InFlight')
  BY DEF Idle, InFlight
<1>5. ASSUME link'.age \in 2 .. 8 PROVE InFlight' <=> Req.op = ClassifyOp
  <2>1. CASE link.age = 1
    <3>1. Idle
      BY <1>2, <2>1 DEF InFlight
    <3> QED
      BY <1>1, <1>2, <1>3, <1>4, <2>1, <3>1, FlightStep DEF InFlight
  <2>2. CASE link.age \in 2 .. 7
    <3>1. InFlight <=> Req.op = ClassifyOp
      BY <1>2, <2>2 DEF Judged
    <3>2. ~ClassifyNow /\ link.age # 8
      BY <1>3, <2>2
    <3> QED
      BY <1>1, <1>2, <1>4, <3>1, <3>2, FlightStep
  <2> QED
    BY <1>1, <1>5, <2>1, <2>2
<1>6. ASSUME ft'.phase # 0 PROVE ft'.epoch = FlowEpoch(view.count)
  <2>1. InFlight'
    BY <1>2, <1>6 DEF Idle
  <2>2. FlowClock(rst, ClassifyNow, hp.pkt, top.idx, thr)
    BY <1>2 DEF BoardClock
  <2>3. /\ DOMAIN FlowDefault = {"phase", "pkt", "epoch", "rdata", "ports", "hosts",
                                 "pkts", "scan", "rate", "valid"}
        /\ FlowDefault.epoch = ft.epoch /\ FlowDefault.phase = ft.phase
    BY <1>2 DEF FlowDefault, FlowTypeOK, FlowState
  <2> HIDE DEF FlowDefault
  <2>4. CASE ft.phase = 0
    <3>1. ClassifyNow
      BY <1>1, <1>6, <2>2, <2>3, <2>4 DEF FlowClock, FlowLatch, FlowWait,
         FlowUpdate, FlowCompare
    <3>2. ft' = [FlowDefault EXCEPT !.phase = 1, !.pkt = hp.pkt,
                                    !.epoch = FlowEpoch(top.idx)]
      BY <1>1, <2>2, <2>4, <3>1 DEF FlowClock, FlowLatch, FlowWait, FlowUpdate,
         FlowCompare
    <3>3. top.idx = view.count
      BY <1>2, <1>3, <3>1 DEF Front
    <3> QED
      BY <2>3, <3>2, <3>3
  <2>5. CASE ft.phase # 0
    <3>1. ft'.epoch = ft.epoch
      BY <1>1, <2>2, <2>3, <2>5 DEF FlowClock, FlowLatch, FlowWait, FlowUpdate,
         FlowCompare
    <3> QED
      BY <1>2, <2>5, <3>1 DEF Judged
  <2> QED
    BY <2>4, <2>5
<1>7. ASSUME Req.op = ClassifyOp, link'.age = 9 PROVE cl_out'.valid
  <2>1. link.age = 8 /\ InFlight
    BY <1>1, <1>2, <1>7 DEF Judged
  <2>2. cl_done = Stage
    <3>1. "rule" \in cl_done /\ "flow" \in cl_done /\ "bloom" \in cl_done
      BY <2>1 DEF InFlight
    <3>2. cl_done \subseteq Stage
      BY <1>2 DEF CombineTypeOK
    <3> QED
      BY <3>1, <3>2 DEF Stage
  <2> QED
    BY <1>1, <1>2, <2>2 DEF BoardClock, CombineClock
<1>8. ASSUME Req.op = ClassifyOp, link'.age = 10
      PROVE  venc'.valid /\ venc'.resp = Verdicted
  <2>1. link.age = 9 /\ cl_out.valid
    BY <1>1, <1>2, <1>8 DEF Judged
  <2>2. /\ venc'.valid
        /\ venc'.resp = [magic |-> 165, body |->
                           [verdict |-> cl_out.verdict, seq |-> top.seq]]
    BY <1>1, <1>2, <2>1 DEF BoardClock, EncoderClock
  <2>3. cl_out.verdict = Combine(Owed(Req.hdr))
    BY <1>2, <2>1 DEF PInv, VerdictExact, Front
  <2>4. /\ bf_mem = view.bloom /\ rs_mem = view.rules /\ thr = view.regs
        /\ ft_mem = FlowAfter
    BY <1>2, <1>8, <2>1
       DEF Stored, Passed, ClassifyOp, BloomWriteOp, RuleWriteOp, ThreshWriteOp
  <2>5. cl_out.verdict = VerdictAfter
    BY <1>2, <2>3, <2>4, VerdictTwin
  <2>6. top.seq = (view.count + 1) % SeqMod
    BY <1>2, <2>1 DEF Front
  <2> QED
    BY <2>2, <2>5, <2>6 DEF Verdicted
<1>9. ASSUME Req.op = ClassifyOp, link'.age >= 11 PROVE tx' = Verdicted
  <2>1. CASE link.age = 10
    <3>1. venc.valid /\ venc.resp = Verdicted /\ top.op = ClassifyOp /\ ~hp.valid
      BY <1>2, <1>9, <2>1 DEF Judged, Front
    <3>2. ~ctrl.p2
      BY <1>2, <2>1 DEF Inv, Schedule, FrontSchedule, At
    <3>3. tx' = venc.resp
      BY <1>1, <1>2, <3>1, <3>2 DEF BoardClock, TxClock, ControlReady, DataReady,
         DataLoads, Doing, ClassifyOp, CmsQueryOp, SnapshotOp, HarmonicOp
    <3> QED
      BY <3>1, <3>3
  <2>2. CASE link.age >= 11
    <3>1. Rest /\ ~ctrl.p2
      BY <1>2, <2>2, Quiesced
    <3>2. tx' = tx
      BY <1>1, <1>2, <3>1, RestStep
    <3> QED
      BY <1>2, <1>9, <2>2, <3>2 DEF Judged, Passed
  <2> QED
    BY <1>1, <1>9, <2>1, <2>2
<1>10. Verdicted' = Verdicted /\ (FlowEpoch(view.count))' = FlowEpoch(view.count)
  BY <1>1, SameAfter DEF FlowEpoch
<1> QED
  BY <1>1, <1>5, <1>6, <1>7, <1>8, <1>9, <1>10 DEF Judged, Passed


\* The answers of the control opcodes are loaded in the third cycle after the
\* decode, from a readback that is still what the memory holds.
LEMMA ControlledMoves ==
    ASSUME Inv, FreshInv, Next, Handling, Quiet PROVE Controlled'
<1>1. /\ link.age \in Nat /\ link'.age = link.age + 1 /\ Req' = Req /\ ~rst
      /\ view' = view
  BY Grows
<1>2. /\ Stored /\ Controlled /\ Front /\ BoardClock /\ WellFormed(Req)
      /\ Req.op \in Nat /\ Req.at \in Nat
  BY RequestTypes DEF Handling, Next
<1>3. /\ CtrlNow <=> link.age = 1 /\ Req.op \in ControlOps
      /\ rx.frame = Req /\ (link.age >= 1 => top.op = Req.op)
  BY Decoded
<1>4. /\ ctrl'.p1 <=> CtrlNow
      /\ ctrl'.p2 <=> ctrl.p1
      /\ ctrl'.op = IF CtrlNow THEN top.op ELSE ctrl.op
      /\ ctrl'.at = IF CtrlNow THEN Req.at ELSE ctrl.at
  BY <1>2, <1>3 DEF BoardClock, CtrlClock
<1>5. ctrl'.p1 <=> link'.age = 2 /\ Req.op \in ControlOps
  BY <1>1, <1>3, <1>4
<1>6. ctrl'.p2 <=> link'.age = 3 /\ Req.op \in ControlOps
  BY <1>1, <1>2, <1>4 DEF Controlled
<1>7. ctrl'.p1 \/ ctrl'.p2 => ctrl'.op = Req.op /\ ctrl'.at = Req.at
  BY <1>1, <1>2, <1>3, <1>4 DEF Controlled
<1>8. ASSUME Req.op = ThreshReadOp PROVE thr_r_val' = B!RegRead(Req.at)
  <2>1. thr = view.regs
    BY <1>2, <1>8 DEF Stored, Passed, ThreshReadOp, ThreshWriteOp
  <2>2. thr_r_val' = IF Req.at \in 0 .. 3 THEN thr[ThrField(Req.at)] ELSE 0
    BY <1>2, <1>3 DEF BoardClock, ThrClock
  <2> QED
    BY <2>1, <2>2 DEF B!RegRead, B!RegName, ThrField
<1> DEFINE Loaded(r) ==
      /\ Req.op \in {BloomWriteOp, RuleWriteOp, ThreshWriteOp}
           => r = Telemetered([acked |-> Req.op])
      /\ Req.op = BloomReadOp
           => r = Telemetered([addr |-> Req.at, word |-> view.bloom[Req.at % Words]])
      /\ Req.op = RuleReadOp
           => r = Telemetered([idx |-> Req.at, rule |-> view.rules[Req.at % RuleDepth]])
      /\ Req.op = ThreshReadOp
           => r = Telemetered([id |-> Req.at, value |-> B!RegRead(Req.at)])
<1>9. ASSUME link.age = 3 PROVE Loaded(tx')
  <2>1. ASSUME Req.op \in BloomWriteOp .. RuleReadOp PROVE Loaded(tx')
    <3>1. /\ ctrl.p2 /\ ctrl.op = Req.op /\ ctrl.at = Req.at
      BY <1>2, <1>9, <2>1 DEF Controlled, ControlOps, BloomWriteOp, RuleReadOp
    <3>2. ControlLoads
      BY <1>1, <1>2, <2>1, <3>1 DEF BoardClock, TxClock, ControlReady
    <3>3. CASE Req.op \in {BloomWriteOp, RuleWriteOp, ThreshWriteOp}
      BY <3>1, <3>2, <3>3 DEF ControlLoads, BloomWriteOp, RuleWriteOp,
         ThreshWriteOp, BloomReadOp, RuleReadOp, ThreshReadOp
    <3>4. CASE Req.op = BloomReadOp
      <4>1. bf_r_data = view.bloom[Req.at % Words]
        BY <1>2, <3>1, <3>4 DEF FreshInv, ReadsAreFresh, Stored, Passed,
           BloomReadOp, BloomWriteOp
      <4> QED
        BY <3>1, <3>2, <3>4, <4>1 DEF ControlLoads, BloomWriteOp, RuleWriteOp,
           ThreshWriteOp, BloomReadOp, RuleReadOp, ThreshReadOp
    <3>5. CASE Req.op = RuleReadOp
      <4>1. rs_rule = view.rules[Req.at % RuleDepth]
        BY <1>2, <3>1, <3>5 DEF FreshInv, ReadsAreFresh, Stored, Passed,
           RuleReadOp, RuleWriteOp
      <4> QED
        BY <3>1, <3>2, <3>5, <4>1 DEF ControlLoads, BloomWriteOp, RuleWriteOp,
           ThreshWriteOp, BloomReadOp, RuleReadOp, ThreshReadOp
    <3>6. CASE Req.op = ThreshReadOp
      <4>1. thr_r_val = B!RegRead(Req.at)
        BY <1>2, <1>9, <3>6 DEF Controlled
      <4> QED
        BY <3>1, <3>2, <3>6, <4>1 DEF ControlLoads, BloomWriteOp, RuleWriteOp,
           ThreshWriteOp, BloomReadOp, RuleReadOp, ThreshReadOp
    <3> QED
      BY <3>3, <3>4, <3>5, <3>6 DEF BloomWriteOp, RuleWriteOp,
         ThreshWriteOp, BloomReadOp, RuleReadOp, ThreshReadOp
  <2> QED
    BY <2>1 DEF BloomWriteOp, RuleWriteOp, ThreshWriteOp, BloomReadOp,
       RuleReadOp, ThreshReadOp
<1>10. ASSUME link.age >= 4 PROVE Loaded(tx')
  <2>1. Loaded(tx)
    BY <1>2, <1>10 DEF Controlled
  <2>2. ASSUME Req.op \in BloomWriteOp .. RuleReadOp PROVE tx' = tx
    <3>1. ~ctrl.p2 /\ ~hp.valid
      BY <1>2, <1>10 DEF Controlled, Front
    <3>2. top.op = Req.op
      BY <1>3, <1>10, <1>1
    <3> QED
      BY <1>1, <1>2, <2>2, <3>1, <3>2 DEF BoardClock, TxClock, ControlReady,
         DataReady, Doing, BloomWriteOp, RuleReadOp, ClassifyOp, CmsQueryOp
  <2> QED
    BY <2>1, <2>2 DEF BloomWriteOp, RuleWriteOp, ThreshWriteOp, BloomReadOp,
       RuleReadOp, ThreshReadOp
<1>11. link'.age >= 4 => Loaded(tx')
  BY <1>1, <1>9, <1>10
<1>12. B!RegRead(Req.at)' = B!RegRead(Req.at)
  BY <1>1, SameAfter
<1> QED
  BY <1>1, <1>5, <1>6, <1>7, <1>8, <1>11, <1>12 DEF Controlled

(***************************************************************************)
(* Answers of the telemetry                                                 *)
(***************************************************************************)
\* A query takes the sketch three cycles, and the answer one more.
LEMMA AskedMoves == ASSUME Inv, Next, Handling, Quiet PROVE Asked'
<1>1. /\ link.age \in Nat /\ link'.age = link.age + 1 /\ Req' = Req /\ ~rst
      /\ link'.got = link.got
  BY Grows
<1>2. /\ Asked /\ Controlled /\ Front /\ BoardClock /\ TelTypeOK
      /\ TelemetrySchedule /\ FrontSchedule /\ Req.op \in Nat
  BY RequestTypes DEF Handling, Next, Inv, TypeOK, Schedule
<1>3. /\ \A o : Doing(o) <=> link.age = 1 /\ Req.op = o
      /\ ClassifyNow <=> link.age = 1 /\ Req.op = ClassifyOp
      /\ CmsQueryNow <=> link.age = 1 /\ Req.op = CmsQueryOp
      /\ link.age >= 1 => top.op = Req.op
      /\ link.age = 0 => ~ctrl.p2 /\ ~venc.valid /\ ~cms.q_done
  BY Decoded
<1>4. CmsClock(FALSE, ClassifyNow, hp.pkt.src, CmsQueryNow, hp.pkt.src, tel.tick)
  BY <1>1, <1>2 DEF BoardClock, TelClock, CmsClock
<1>5. ~ControlReady \/ Req.op \in BloomWriteOp .. RuleReadOp
  BY <1>2 DEF ControlReady, Controlled
<1>6. /\ cms.phase \in 0 .. 3 /\ (cms.phase # 0 => link.age = cms.phase + 1)
      /\ cms.q_done => link.age = 5
  BY <1>2 DEF TelTypeOK, CmsState, CmsPhase, TelemetrySchedule, At
<1>7. ASSUME Req.op = CmsQueryOp, link'.age \in 2 .. 4
      PROVE  cms'.phase = link'.age - 1 /\ ~cms'.upd
  <2>1. CASE link.age = 1
    <3>1. cms.phase = 0 /\ CmsQueryNow /\ ~ClassifyNow
      BY <1>3, <1>6, <1>7, <2>1 DEF CmsQueryOp, ClassifyOp
    <3>2. cms'.phase = 1 /\ cms'.upd = ClassifyNow
      BY <1>2, <1>4, <3>1, CmsEdge
    <3> QED
      BY <1>1, <2>1, <3>1, <3>2
  <2>2. CASE link.age \in 2 .. 3
    <3>1. cms.phase = link.age - 1 /\ ~cms.upd
      BY <1>2, <1>7, <2>2 DEF Asked
    <3>2. cms.phase \in 1 .. 2
      BY <2>2, <3>1
    <3>3. cms'.phase = cms.phase + 1 /\ cms'.upd = cms.upd
      BY <1>2, <1>4, <3>2, CmsEdge
    <3> QED
      BY <1>1, <2>2, <3>1, <3>3
  <2> QED
    BY <1>1, <1>7, <2>1, <2>2
<1>8. ASSUME Req.op = CmsQueryOp, link'.age >= 2 PROVE q_key' = Req.hdr.src
  <2>1. q_key' = IF CmsQueryNow THEN hp.pkt.src ELSE q_key
    BY <1>2 DEF BoardClock, CtrlClock
  <2>2. CASE link.age = 1
    BY <1>2, <1>3, <1>8, <2>1, <2>2 DEF Front
  <2>3. CASE link.age >= 2
    BY <1>1, <1>2, <1>3, <1>8, <2>1, <2>3 DEF Asked
  <2> QED
    BY <1>1, <1>8, <2>2, <2>3
<1>9. ASSUME Req.op = CmsQueryOp, link'.age = 5 PROVE cms'.q_done
  <2>1. cms.phase = 3 /\ ~cms.upd
    BY <1>1, <1>2, <1>9 DEF Asked
  <2> QED
    BY <1>2, <1>4, <2>1, CmsEdge
<1>10. ASSUME Req.op = CmsQueryOp, link'.age >= 6
       PROVE  \E n \in Count : tx' = Telemetered([key |-> Req.hdr.src, count |-> n])
  <2>1. /\ ~ControlReady /\ ~Doing(SnapshotOp) /\ ~Doing(HarmonicOp)
        /\ top.op = CmsQueryOp
    BY <1>1, <1>3, <1>5, <1>10 DEF CmsQueryOp, BloomWriteOp, RuleReadOp
  <2>2. CASE link.age = 5
    <3>1. cms.q_done /\ q_key = Req.hdr.src /\ cms.q_count \in Count
      BY <1>2, <1>10, <2>2 DEF Asked, TelTypeOK, CmsState
    <3>2. tx' = Telemetered([key |-> q_key, count |-> cms.q_count])
      BY <1>1, <1>2, <2>1, <3>1
         DEF BoardClock, TxClock, DataReady, DataLoads, CmsQueryOp, ClassifyOp
    <3> QED
      BY <3>1, <3>2
  <2>3. CASE link.age >= 6
    <3>1. ~cms.q_done
      BY <1>6, <2>3
    <3>2. tx' = tx
      BY <1>1, <1>2, <2>1, <3>1 DEF BoardClock, TxClock, DataReady, CmsQueryOp, ClassifyOp
    <3> QED
      BY <1>2, <1>10, <2>3, <3>2 DEF Asked
  <2> QED
    BY <1>1, <1>10, <2>2, <2>3
<1>11. ASSUME Req.op \in {SnapshotOp, HarmonicOp}, link'.age >= 2
       PROVE  tx'.magic = 90
  <2>1. ~ControlReady /\ top.op = Req.op /\ top.op # ClassifyOp /\ top.op # CmsQueryOp
    BY <1>1, <1>3, <1>5, <1>11 DEF CmsQueryOp, BloomWriteOp, RuleReadOp,
       ClassifyOp, SnapshotOp, HarmonicOp
  <2>2. CASE link.age = 1
    <3>1. Doing(SnapshotOp) \/ Doing(HarmonicOp)
      BY <1>3, <1>11, <2>2
    <3>2. DataLoads
      BY <1>1, <1>2, <2>1, <3>1 DEF BoardClock, TxClock, DataReady
    <3> QED
      BY <2>1, <3>2 DEF DataLoads, Telemetered
  <2>3. CASE link.age >= 2
    <3>1. tx' = tx
      BY <1>1, <1>2, <1>3, <2>1, <2>3 DEF BoardClock, TxClock, DataReady
    <3> QED
      BY <1>2, <1>11, <2>3, <3>1 DEF Asked
  <2> QED
    BY <1>1, <1>11, <2>2, <2>3
<1>12. ASSUME Req.op \notin (0 .. 3) \cup (BloomWriteOp .. RuleReadOp)
       PROVE  tx' = link.got
  <2>1. ~ControlReady /\ ~Doing(SnapshotOp) /\ ~Doing(HarmonicOp)
    BY <1>3, <1>5, <1>12 DEF SnapshotOp, HarmonicOp
  <2>2. ~(top.op = ClassifyOp /\ venc.valid) /\ ~(top.op = CmsQueryOp /\ cms.q_done)
    BY <1>1, <1>3, <1>12 DEF ClassifyOp, CmsQueryOp
  <2>3. tx' = tx
    BY <1>1, <1>2, <2>1, <2>2 DEF BoardClock, TxClock, DataReady
  <2> QED
    BY <1>2, <1>12, <2>3 DEF Asked
<1> QED
  BY <1>1, <1>7, <1>8, <1>9, <1>10, <1>11, <1>12 DEF Asked

LEMMA HandlingStep ==
    ASSUME PInv, FreshInv, NoByteWrap, Next, Handling, Quiet PROVE Handling'
<1>1. Inv /\ Req' = Req /\ ~link'.busy /\ Req \in Frame
  BY Grows DEF PInv, Handling
<1> QED
  BY <1>1, FrontMoves, StoredMoves, JudgedMoves, ControlledMoves, AskedMoves
     DEF Handling

\* btnC goes down while the request is handled: whatever of it has landed in
\* a memory stays, whole; the rest is gone.
LEMMA HandlingReset ==
    ASSUME PInv, NoByteWrap, Next, Handling, Held, btn >= 3 PROVE Forgotten'
<1>1. /\ Inv /\ rst /\ ~rx'.valid /\ ~link'.busy /\ Req' = Req /\ view' = view
      /\ Req \in Frame /\ Req # NoFrame
  BY Grows, TopAssumption DEF PInv, Handling
<1>2. BoardClock /\ TelTypeOK
  BY <1>1 DEF Next, Inv, TypeOK
<1>3. ~hp'.valid /\ ~venc'.valid /\ ~cl_out'.valid
  <2>1. ~hp'.valid /\ ~venc'.valid
    BY <1>1, <1>2 DEF BoardClock, ParserClock, EncoderClock
  <2>2. cl_out' = [verdict |-> CleanVerdict, valid |-> FALSE]
    BY <1>1, <1>2 DEF BoardClock, CombineClock
  <2> QED
    BY <2>1, <2>2
<1>4. cms'.phase = 0 /\ ~cms'.q_done
  <2>1. CmsReset
    BY <1>1, <1>2 DEF BoardClock, TelClock, CmsClock
  <2>2. \A x : /\ {"phase", "q_done"} \subseteq DOMAIN CmsDefault(x)
               /\ ~CmsDefault(x).q_done
    BY <1>2 DEF TelTypeOK, CmsState, CmsDefault
  <2>3. ASSUME cms'.q_done PROVE FALSE
    BY <2>1, <2>2, <2>3 DEF CmsReset
  <2> QED
    BY <2>1, <2>2, <2>3 DEF CmsReset
<1>5. Idle'
  BY <1>1, FlightStep
<1>6. btn' >= 2 /\ btn' >= 1
  BY <1>1, ButtonStep
<1>7. tx' = NoResponse /\ thr' = ThrDefaults /\ top'.count = 0
  BY <1>1, <1>2 DEF BoardClock, TxClock, ThrClock, OpClock
<1>8. Landed'
  <2>1. bf_mem' = view.bloom \/ (Req.op = BloomWriteOp /\ bf_mem' = BloomAfter)
    BY <1>1, WritesLand
  <2>2. rs_mem' = view.rules \/ (Req.op = RuleWriteOp /\ rs_mem' = RulesAfter)
    BY <1>1, WritesLand
  <2>3. ft_mem' = view.flow \/ (Req.op = ClassifyOp /\ ft_mem' = FlowAfter)
    BY <1>1, CellLands DEF Passed
  <2>4. \/ bf_mem' = view.bloom /\ ft_mem' = view.flow /\ rs_mem' = view.rules
        \/ /\ Req.op = ClassifyOp /\ ft_mem' = FlowAfter
           /\ bf_mem' = view.bloom /\ rs_mem' = view.rules
        \/ /\ Req.op = BloomWriteOp /\ bf_mem' = BloomAfter
           /\ ft_mem' = view.flow /\ rs_mem' = view.rules
        \/ /\ Req.op = RuleWriteOp /\ rs_mem' = RulesAfter
           /\ ft_mem' = view.flow /\ bf_mem' = view.bloom
    BY <2>1, <2>2, <2>3 DEF ClassifyOp, BloomWriteOp, RuleWriteOp
  <2>5. /\ BloomAfter' = BloomAfter /\ RulesAfter' = RulesAfter
        /\ FlowAfter' = FlowAfter
    BY <1>1, SameAfter
  <2> HIDE DEF Req
  <2> QED
    BY <1>1, <2>4, <2>5 DEF Landed
<1>9. Rest'
  BY <1>1, <1>3, <1>4, <1>5 DEF Rest
<1> QED
  BY <1>1, <1>6, <1>7, <1>8, <1>9 DEF Forgotten

(***************************************************************************)
(* The invariant behind the refinement                                      *)
(***************************************************************************)
LEMMA RefInit == Init => RefInv
<1> SUFFICES ASSUME Init PROVE RefInv
  OBVIOUS
<1>1. /\ ~rx.valid /\ ~hp.valid /\ ~venc.valid /\ ~cl_out.valid
      /\ ~ctrl.p1 /\ ~ctrl.p2 /\ tx = link.got /\ view = Memories
      /\ Req = NoFrame /\ link.age = Gap /\ btn = 0
  BY DEF Init, InitFrom, CombineInit, Req
<1>2. cms.phase = 0 /\ ~cms.q_done
  BY DEF Init, InitFrom, TelInit
<1>3. Idle
  BY DEF Init, InitFrom, BloomInit, FlowInit, RuleInit, CombineInit, Idle
<1> QED
  BY <1>1, <1>2, <1>3, TopAssumption DEF RefInv, Waiting, Rest

LEMMA RefStep ==
    ASSUME PInv, FreshInv, NoByteWrap, RefInv, ResetCycles >= 3, [Next]_vars
    PROVE  RefInv'
<1>1. CASE UNCHANGED vars
  <2>1. /\ UNCHANGED <<link, view, btn, tx, thr, top, rx, hp, venc, ctrl, q_key>>
        /\ UNCHANGED <<bf_mem, bf, ft_mem, ft, rs_mem, rl, thr_r_val, cl_done, cl_out, cms>>
    BY <1>1 DEF vars, topVars, telVars, classifierVars, bloomVars, flowVars, ruleVars
  <2>2. /\ BloomAfter' = BloomAfter /\ RulesAfter' = RulesAfter
        /\ RegsAfter' = RegsAfter /\ FlowAfter' = FlowAfter
        /\ Verdicted' = Verdicted /\ B!RegRead(Req.at)' = B!RegRead(Req.at)
        /\ Req' = Req /\ \A k, op : Passed(k, op)' <=> Passed(k, op)
    BY <2>1, SameAfter DEF Req, Passed
  <2>3. Rest' <=> Rest
    BY <2>1 DEF Rest, Idle
  <2>4. Waiting' <=> Waiting
    BY <2>1, <2>2, <2>3 DEF Waiting, Memories
  <2>5. Landed' <=> Landed
    BY <2>1, <2>2 DEF Landed
  <2>6. Forgotten' <=> Forgotten
    BY <2>1, <2>3, <2>5 DEF Forgotten
  <2>7. (Front' <=> Front) /\ (Asked' <=> Asked)
    BY <2>1, <2>2 DEF Front, Asked
  <2>8. (Stored' <=> Stored) /\ (Controlled' <=> Controlled)
    BY <2>1, <2>2 DEF Stored, Controlled
  <2>9. Judged' <=> Judged
    BY <2>1, <2>2 DEF Judged, InFlight, FlowEpoch
  <2>10. Handling' <=> Handling
    BY <2>1, <2>2, <2>7, <2>8, <2>9 DEF Handling
  <2> QED
    BY <2>1, <2>4, <2>6, <2>10 DEF RefInv
<1>2. CASE Next
  <2>1. Inv /\ Bus /\ btn \in Nat /\ (rst <=> btn # 0)
    BY <1>2, ButtonStep DEF PInv, Next
  <2>2. ~rst => btn' \in {0, ResetCycles}
    BY <1>2, <2>1, ButtonStep
  <2>3. ASSUME NEW f \in Frame, CsFall(f) PROVE RefInv'
    BY <1>2, <2>1, <2>3, CsFallStep DEF RefInv
  <2>4. CASE LastBit
    <3>1. ~rst /\ link.busy
      BY <2>4 DEF LastBit
    <3>2. Waiting
      BY <3>1 DEF RefInv, Handling, Forgotten
    <3> QED
      BY <1>2, <2>1, <2>2, <2>4, <3>1, <3>2, Arrives DEF RefInv
  <2>5. CASE Quiet
    <3>1. ~rst
      BY <2>5 DEF Quiet
    <3>2. CASE Waiting
      BY <1>2, <2>1, <2>2, <2>5, <3>1, <3>2, WaitsOn DEF RefInv
    <3>3. CASE Handling
      BY <1>2, <2>1, <2>2, <2>5, <3>1, <3>3, HandlingStep DEF RefInv
    <3>4. CASE Forgotten
      BY <1>2, <2>1, <2>5, <3>4, ForgottenStep DEF RefInv
    <3> QED
      BY <3>2, <3>3, <3>4 DEF RefInv
  <2>6. CASE Held
    <3>1. rst
      BY <2>6 DEF Held
    <3>2. CASE Waiting
      BY <1>2, <2>1, <2>6, <3>2, WaitingReset DEF RefInv
    <3>3. CASE Handling /\ btn = ResetCycles
      BY <1>2, <2>1, <2>6, <3>3, HandlingReset DEF RefInv
    <3>4. CASE Forgotten
      BY <1>2, <2>1, <2>6, <3>4, ForgottenStep DEF RefInv
    <3> QED
      BY <2>1, <3>1, <3>2, <3>3, <3>4 DEF RefInv
  <2> QED
    BY <2>1, <2>3, <2>4, <2>5, <2>6 DEF Bus
<1> QED
  BY <1>1, <1>2

\* A request that is handled when CS falls had the effect the twins describe.
LEMMA Answered ==
    ASSUME Inv, Handling, link.age >= 11, view' = Memories, link'.got = tx
    PROVE  B!Effect(Req) /\ link.age \in Nat
<1>1. /\ Stored /\ Judged /\ Controlled /\ Asked /\ Req.op \in Nat
      /\ link.age \in Nat
  BY RequestTypes, TopAssumption DEF Handling, Inv, TypeOK, LinkTypeOK, LinkAge
<1>2. /\ view'.bloom = bf_mem /\ view'.flow = ft_mem /\ view'.rules = rs_mem
      /\ view'.regs = thr
  BY DEF Memories
<1>3. \A k \in 0 .. 11 : \A op : Passed(k, op) <=> Req.op = op
  BY <1>1 DEF Passed
<1>4. /\ view'.bloom = IF Req.op = BloomWriteOp THEN BloomAfter ELSE view.bloom
      /\ view'.rules = IF Req.op = RuleWriteOp THEN RulesAfter ELSE view.rules
      /\ view'.regs = IF Req.op = ThreshWriteOp THEN RegsAfter ELSE view.regs
      /\ view'.flow = IF Req.op = ClassifyOp THEN FlowAfter ELSE view.flow
  BY <1>1, <1>2, <1>3 DEF Stored
<1>5. CASE Req.op = ClassifyOp
  <2>1. tx = Verdicted
    BY <1>1, <1>3, <1>5 DEF Judged
  <2>2. B!Classify(Req)
    BY <1>4, <1>5, <2>1
       DEF B!Classify, B!ClassifyOp, FlowAfter, CellAfter, Verdicted, VerdictAfter,
           ClassifyOp, BloomWriteOp, RuleWriteOp, ThreshWriteOp
  <2> QED
    BY <1>1, <2>2 DEF B!Effect
<1>6. CASE Req.op \in {CmsQueryOp, SnapshotOp, HarmonicOp}
  <2>1. UNCHANGED <<view.bloom, view.flow, view.rules, view.regs>>
    BY <1>4, <1>6 DEF CmsQueryOp, SnapshotOp, HarmonicOp,
       ClassifyOp, BloomWriteOp, RuleWriteOp, ThreshWriteOp
  <2>2. CASE Req.op = CmsQueryOp
    <3>1. PICK c \in Count : tx = Telemetered([key |-> Req.hdr.src, count |-> c])
      BY <1>1, <2>2 DEF Asked
    <3>2. c \in Nat
      BY <3>1, TelAssumption DEF Count
    <3>3. tx.magic = 90 /\ tx.body \in [key : {Req.hdr.src}, count : Nat]
      BY <3>1, <3>2 DEF Telemetered
    <3>4. B!Telemeter(Req)
      BY <2>1, <2>2, <3>3 DEF B!Telemeter, B!CmsQueryOp, CmsQueryOp
    <3> QED
      BY <1>1, <3>4 DEF B!Effect
  <2>3. CASE Req.op # CmsQueryOp
    <3>1. tx.magic = 90
      BY <1>1, <1>6, <2>3 DEF Asked
    <3>2. B!Telemeter(Req)
      BY <1>6, <2>1, <2>3, <3>1
         DEF B!Telemeter, B!CmsQueryOp, CmsQueryOp, B!SnapshotOp, SnapshotOp,
             B!HarmonicOp, HarmonicOp
    <3> QED
      BY <1>1, <3>2 DEF B!Effect
  <2> QED
    BY <2>2, <2>3
<1>7. CASE Req.op \in {BloomWriteOp, RuleWriteOp, ThreshWriteOp}
  <2>1. tx = Telemetered([acked |-> Req.op])
    BY <1>1, <1>7 DEF Controlled
  <2>2. B!Write(Req)
    BY <1>4, <1>7, <2>1
       DEF B!Write, B!Ack, Telemetered, BloomAfter, RulesAfter, RegsAfter,
           B!BloomWriteOp, B!RuleWriteOp, B!ThreshWriteOp,
           ClassifyOp, BloomWriteOp, RuleWriteOp, ThreshWriteOp
  <2> QED
    BY <1>1, <2>2 DEF B!Effect
<1>8. CASE Req.op \in {BloomReadOp, RuleReadOp, ThreshReadOp}
  <2>1. UNCHANGED <<view.bloom, view.flow, view.rules, view.regs>>
    BY <1>4, <1>8 DEF BloomReadOp, RuleReadOp, ThreshReadOp,
       ClassifyOp, BloomWriteOp, RuleWriteOp, ThreshWriteOp
  <2>2. B!Read(Req)
    BY <1>1, <1>8, <2>1
       DEF Controlled, B!Read, B!Ack, Telemetered, B!BloomReadOp, B!RuleReadOp,
           B!ThreshReadOp, BloomReadOp, RuleReadOp, ThreshReadOp
  <2> QED
    BY <1>1, <2>2 DEF B!Effect
<1>9. CASE Req.op \notin (0 .. 3) \cup (BloomWriteOp .. RuleReadOp)
  <2>1. tx = link.got
    BY <1>1, <1>9 DEF Asked
  <2>2. UNCHANGED <<view.bloom, view.flow, view.rules, view.regs>>
    BY <1>4, <1>9 DEF BloomWriteOp, RuleReadOp, ClassifyOp, RuleWriteOp, ThreshWriteOp
  <2>3. B!Ignore(Req)
    BY <1>9, <2>1, <2>2
       DEF B!Ignore, B!BloomWriteOp, BloomWriteOp, B!RuleReadOp, RuleReadOp
  <2> QED
    BY <1>1, <2>3 DEF B!Effect
<1>10. \/ Req.op \in {ClassifyOp, CmsQueryOp, SnapshotOp, HarmonicOp}
       \/ Req.op \in {BloomWriteOp, RuleWriteOp, ThreshWriteOp,
                      BloomReadOp, RuleReadOp, ThreshReadOp}
       \/ Req.op \notin (0 .. 3) \cup (BloomWriteOp .. RuleReadOp)
  BY <1>1 DEF ClassifyOp, CmsQueryOp, SnapshotOp, HarmonicOp, BloomWriteOp,
     RuleWriteOp, ThreshWriteOp, BloomReadOp, RuleReadOp, ThreshReadOp
<1> QED
  BY <1>5, <1>6, <1>7, <1>8, <1>9, <1>10

\* The board implements the register file the twins describe: what the Pi
\* gets back at a CS fall answers the frame before, no write is lost or torn,
\* and a press of btnC forgets what Board says it may.  Two hypotheses: btnC
\* stays down for three cycles or more (at 12 MHz any press does; a shorter
\* one would let the unreset ctrl_pipe answer afterwards), and no packet
\* wraps the byte counter of its cell (the run byte_count_wraps has one that
\* does, and there the refinement fails).
THEOREM BoardImplemented ==
    ASSUME ResetCycles >= 3
    PROVE  Spec /\ []NoByteWrap => ImplementsBoard
<1>1. Init => B!Init
  <2> SUFFICES ASSUME Init PROVE B!Init
    OBVIOUS
  <2>1. /\ view = Memories /\ link.frame = NoFrame /\ link.got = NoResponse
        /\ thr = ThrDefaults /\ top.count = 0
        /\ rs_mem = [i \in RuleIdx |-> BlankRule]
        /\ ft_mem = [b \in Bucket |-> BlankCell]
    BY DEF Init, InitFrom, RuleInit, FlowInit
  <2>2. /\ view.flow = ft_mem /\ view.rules = rs_mem /\ view.regs = thr
        /\ view.count = top.count
    BY <2>1, WaitingFields
  <2>3. \A b \in DOMAIN view.flow : view.flow[b].pkts = 0 /\ view.flow[b].fp = 0
    BY <2>1, <2>2 DEF BlankCell
  <2>4. \A i \in DOMAIN view.rules : view.rules[i] = B!BlankRule
    BY <2>1, <2>2 DEF BlankRule, B!BlankRule
  <2> QED
    BY <2>1, <2>2, <2>3, <2>4
       DEF B!Init, B!RegDefaults, ThrDefaults, B!NoAnswer, NoResponse
<1>2. ASSUME PInv, RefInv, [Next]_vars PROVE [B!Next]_(B!boardVars)
  <2> SUFFICES B!Next \/ UNCHANGED B!boardVars
    OBVIOUS
  <2>1. CASE UNCHANGED vars
    BY <2>1 DEF vars, B!boardVars
  <2>2. CASE Next /\ ~\E f \in Frame : CsFall(f)
    <3>1. DOMAIN link = {"busy", "age", "frame", "got"}
      BY <1>2 DEF PInv, Inv, TypeOK, LinkTypeOK
    <3>2. view' = view /\ \/ link' = [link EXCEPT !.busy = FALSE, !.age = 0]
                          \/ link' = [link EXCEPT !.age = Older]
                          \/ link' = [link EXCEPT !.busy = FALSE, !.age = Older]
      BY <2>2 DEF Next, Bus, LastBit, Quiet, Held
    <3>3. link'.frame = link.frame /\ link'.got = link.got
      BY <3>1, <3>2
    <3> QED
      BY <3>2, <3>3 DEF B!boardVars
  <2>3. ASSUME Next, NEW f \in Frame, CsFall(f) PROVE B!Next
    <3>1. /\ Inv /\ ~rst /\ Rest /\ ~link.busy /\ link.age >= 11
          /\ view' = Memories /\ link'.frame = f /\ link'.got = tx
      BY <1>2, <2>3, CsFallStep DEF PInv, Req
    <3>2. /\ view'.bloom = bf_mem /\ view'.flow = ft_mem /\ view'.rules = rs_mem
          /\ view'.regs = thr /\ view'.count = top.count
      BY <3>1 DEF Memories
    <3>3. CASE Waiting
      <4>1. /\ Req = NoFrame /\ tx = link.got /\ Memories = view
        BY <3>1, <3>3 DEF Waiting
      <4>2. B!Transfer(f)
        BY <3>1, <3>2, <4>1, WaitingFields DEF B!Transfer, Req
      <4> QED
        BY <4>2 DEF B!Next
    <3>4. CASE Forgotten
      <4>1. /\ tx = NoResponse /\ thr = ThrDefaults /\ top.count = 0 /\ Landed
        BY <3>4 DEF Forgotten
      <4>2. B!AfterReset(f)
        BY <3>1, <3>2, <4>1
           DEF B!AfterReset, B!NoAnswer, NoResponse, B!RegDefaults, ThrDefaults,
               Landed, FlowAfter, BloomAfter, RulesAfter, CellAfter, Req,
               B!ClassifyOp, B!BloomWriteOp, B!RuleWriteOp,
               ClassifyOp, BloomWriteOp, RuleWriteOp
      <4> QED
        BY <4>2 DEF B!Next
    <3>5. CASE Handling
      <4>1. B!Effect(Req) /\ link.age \in Nat
        BY <3>1, <3>5, Answered
      <4>2. top.count = (view.count + 1) % CountMod /\ Req # NoFrame
        BY <3>1, <3>5, <4>1, TopAssumption DEF Handling, Front
      <4>3. B!Transfer(f)
        BY <3>1, <3>2, <4>1, <4>2 DEF B!Transfer, Req
      <4> QED
        BY <4>3 DEF B!Next
    <3> QED
      BY <1>2, <3>3, <3>4, <3>5 DEF RefInv
  <2> QED
    BY <1>2, <2>1, <2>2, <2>3
<1>3. Init /\ [][Next]_vars /\ [](PInv /\ FreshInv) /\ []NoByteWrap => []RefInv
  BY RefInit, RefStep, PTL
<1>4. Spec => [](PInv /\ FreshInv)
  BY PInvInductive, FreshInductive, PTL
<1> QED
  BY <1>1, <1>2, <1>3, <1>4, PTL DEF Spec, ImplementsBoard, B!Spec
=============================================================================
