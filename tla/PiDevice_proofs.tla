--------------------------- MODULE PiDevice_proofs ---------------------------
(***************************************************************************)
(* The board as the scripts see it, whichever of them holds the bus: what a *)
(* transfer, a window tick and a press of btnC keep of its types, of the    *)
(* answer on its way, and of what a count says about the source next to it. *)
(***************************************************************************)
EXTENDS PiDevice, FiniteSetTheorems, TLAPS

(***************************************************************************)
(* The sketch                                                               *)
(***************************************************************************)
\* A set of naturals that has an element has a least one.
LEMMA LeastOf ==
    ASSUME NEW S \in SUBSET Nat, S # {}
    PROVE  Min(S) \in S /\ \A y \in S : Min(S) <= y
<1> DEFINE Below == {m \in Nat : \A y \in S : m <= y}
<1>1. PICK n \in S : TRUE
  OBVIOUS
<1>2. Below \in SUBSET Nat /\ 0 \in Below /\ \A m \in Below : m <= n
  BY <1>1
<1>3. IsFiniteSet(Below) /\ Cardinality(Below) \in Nat
  BY <1>1, <1>2, FS_BoundedSetOfNaturals, FS_CardinalityType
<1> DEFINE k == Cardinality(Below)
<1>4. k # 0
  BY <1>2, <1>3, FS_EmptySet
<1>5. \A m \in Below : \A i \in 0 .. m : i \in Below
  OBVIOUS
<1>6. k \notin Below
  <2> SUFFICES ASSUME k \in Below PROVE FALSE
    OBVIOUS
  <2>1. 0 .. k \in SUBSET Below
    BY <1>5
  <2>2. Cardinality(0 .. k) = k + 1
    BY <1>3, FS_Interval
  <2>3. Cardinality(0 .. k) <= k
    BY <1>3, <2>1, FS_Subset
  <2> HIDE DEF Below
  <2> QED BY <1>3, <2>2, <2>3
<1>7. k - 1 \in Below
  <2> SUFFICES ASSUME k - 1 \notin Below PROVE FALSE
    OBVIOUS
  <2>1. k - 1 \in Nat
    BY <1>3, <1>4
  <2>2. \A m \in Below : m < k - 1
    BY <1>3, <1>5, <2>1
  <2>3. k - 1 # 0
    BY <1>2
  <2>4. k - 2 \in Nat
    BY <1>3, <2>1, <2>3
  <2>5. ASSUME NEW m \in Below
        PROVE  m <= k - 2
    <3>1. m < k - 1 /\ m \in Nat
      BY <2>2
    <3> HIDE DEF Below
    <3> QED BY <1>3, <3>1
  <2>6. k <= (k - 2) + 1
    BY <1>2, <2>4, <2>5, FS_BoundedSetOfNaturals
  <2> QED BY <1>3, <2>6
<1>8. PICK y \in S : ~(k <= y)
  BY <1>3, <1>6
<1>9. k - 1 <= y /\ \A x \in S : k - 1 <= x
  BY <1>7
<1>10. y = k - 1
  BY <1>3, <1>8, <1>9
<1> HIDE DEF k
<1> QED BY <1>9, <1>10 DEF Min

\* What can only grow while a window is open: the columns and their least.
Tally == [Ip -> 0 .. CountMax]
NoLess(tally, more) == \A ip \in Ip : tally[ip] <= more[ip]

LEMMA ColumnGrows ==
    ASSUME IsFiniteSet(Ip), NEW tally \in Tally, NEW more \in Tally,
           NoLess(tally, more), NEW b \in Bank, NEW ip \in Ip
    PROVE  /\ Column(tally, b, ip) \in 0 .. CountMax
           /\ Column(tally, b, ip) <= Column(more, b, ip)
<1> DEFINE Packets(t) == {c \in Ip \X (1 .. CountMax) :
                            /\ CmsHash[b][c[1]] = CmsHash[b][ip]
                            /\ c[2] <= t[c[1]]}
<1>1. IsFiniteSet(Ip \X (1 .. CountMax))
  <2>1. IsFiniteSet(1 .. CountMax)
    BY FS_Interval, DeviceAssumption
  <2> QED BY <2>1, FS_Product
<1>2. IsFiniteSet(Packets(more)) /\ IsFiniteSet(Packets(tally))
  BY <1>1, FS_Subset
<1>3. Packets(tally) \subseteq Packets(more)
  <2> SUFFICES ASSUME NEW c \in Ip \X (1 .. CountMax), c[2] <= tally[c[1]]
               PROVE  c[2] <= more[c[1]]
    OBVIOUS
  <2>1. c[1] \in Ip /\ c[2] \in Nat
    OBVIOUS
  <2>2. tally[c[1]] \in Nat /\ more[c[1]] \in Nat
    BY <2>1, DeviceAssumption DEF Tally
  <2>3. tally[c[1]] <= more[c[1]]
    BY <2>1 DEF NoLess
  <2> QED BY <2>1, <2>2, <2>3
<1>4. /\ Cardinality(Packets(tally)) \in Nat /\ Cardinality(Packets(more)) \in Nat
      /\ Cardinality(Packets(tally)) <= Cardinality(Packets(more))
  BY <1>2, <1>3, FS_CardinalityType, FS_Subset
<1>5. /\ Column(tally, b, ip) = AtMost(Cardinality(Packets(tally)), CountMax)
      /\ Column(more, b, ip) = AtMost(Cardinality(Packets(more)), CountMax)
  BY DEF Column
<1> HIDE DEF Packets
<1> QED BY <1>4, <1>5, DeviceAssumption DEF AtMost

LEMMA EstimateGrows ==
    ASSUME IsFiniteSet(Ip), Bank # {}, NEW tally \in Tally, NEW more \in Tally,
           NoLess(tally, more), NEW ip \in Ip
    PROVE  /\ Estimate(tally, ip) \in 0 .. CountMax
           /\ Estimate(tally, ip) <= Estimate(more, ip)
<1> DEFINE Columns(t) == {Column(t, b, ip) : b \in Bank}
<1>1. NoLess(more, more)
  BY DeviceAssumption DEF NoLess, Tally
<1>2. Columns(tally) \in SUBSET (0 .. CountMax) /\ Columns(tally) # {}
  BY ColumnGrows
<1>3. Columns(more) \in SUBSET (0 .. CountMax) /\ Columns(more) # {}
  BY <1>1, ColumnGrows
<1>4. /\ Min(Columns(tally)) \in Columns(tally)
      /\ \A y \in Columns(tally) : Min(Columns(tally)) <= y
  <2>1. Columns(tally) \in SUBSET Nat
    BY <1>2
  <2> HIDE DEF Columns
  <2> QED BY <1>2, <2>1, LeastOf
<1>5. Min(Columns(more)) \in Columns(more)
  <2>1. Columns(more) \in SUBSET Nat
    BY <1>3
  <2> HIDE DEF Columns
  <2> QED BY <1>3, <2>1, LeastOf
<1>6. PICK b \in Bank : Min(Columns(more)) = Column(more, b, ip)
  BY <1>5
<1>7. Column(tally, b, ip) <= Column(more, b, ip)
  BY ColumnGrows
<1>8. Min(Columns(tally)) <= Column(tally, b, ip)
  BY <1>4
<1>9. /\ Estimate(tally, ip) = Min(Columns(tally))
      /\ Estimate(more, ip) = Min(Columns(more))
  BY DEF Estimate
<1>10. Min(Columns(tally)) \in 0 .. CountMax /\ Min(Columns(more)) \in 0 .. CountMax
  BY <1>2, <1>3, <1>4, <1>5
<1>11. Column(tally, b, ip) \in 0 .. CountMax /\ Column(more, b, ip) \in 0 .. CountMax
  BY <1>2, <1>3
<1> HIDE DEF Columns
<1> QED BY <1>6, <1>7, <1>8, <1>9, <1>10, <1>11, DeviceAssumption

(***************************************************************************)
(* Types                                                                    *)
(***************************************************************************)
EpochAnswers == {NoAnswer} \cup {EpochIs(n) : n \in Nat}

\* What tx_reg can hold: only a classify frame makes a verdict, and only the
\* snapshot opcode an answer that decodes to a top talker.
WellFormed(rx) ==
    /\ rx.magic \in {0, 90, 165}
    /\ IsVerdict(rx) => \E ip \in Ip, m \in BOOLEAN : rx = Verdict(ip, m)
    /\ IsResponse(rx) /\ rx.op = SnapshotOp
         => \E t \in TopTalker : rx = Telemetry(t)

\* The frames the scripts send.
Frames == {SnapFrame, EpochFrame} \cup {PacketFrame(ip) : ip \in Ip}
          \cup {RuleFrame(ip, n) : ip \in Ip, n \in Nat}

BoardTyped == DeviceTypeOK /\ WellFormed(answer)

\* A packet more in the tally of the open window.
LEMMA Counted ==
    ASSUME sent \in Tally, NEW ip \in Ip, Classified(ip)
    PROVE  sent' \in Tally /\ NoLess(sent, sent')
<1>1. sent' = [sent EXCEPT ![ip] = AtMost(@ + 1, CountMax)]
  BY DEF Classified
<1>2. \A i \in Ip : sent[i] \in Nat /\ sent[i] <= CountMax
  BY DeviceAssumption DEF Tally
<1>3. /\ AtMost(sent[ip] + 1, CountMax) \in 0 .. CountMax
      /\ sent[ip] <= AtMost(sent[ip] + 1, CountMax)
  BY <1>2, DeviceAssumption DEF AtMost
<1>4. sent' \in Tally
  BY <1>1, <1>3 DEF Tally
<1>5. \A i \in Ip : sent'[i] = IF i = ip THEN AtMost(sent[ip] + 1, CountMax)
                                         ELSE sent[i]
  BY <1>1 DEF Tally
<1> QED BY <1>2, <1>3, <1>4, <1>5 DEF NoLess

\* What a handled frame leaves alone, by its opcode, and what it answers.
LEMMA HandleTyped ==
    ASSUME IsFiniteSet(Ip), Bank # {}, BoardTyped, NEW f \in Frames, Handle(f)
    PROVE  BoardTyped' /\ (f = EpochFrame => answer' \in EpochAnswers)
<1> USE DEF BoardTyped, ClassifyOp, SnapshotOp, ThreshReadOp, RuleWriteOp
<1>1. ASSUME NEW ip \in Ip, f = PacketFrame(ip)
      PROVE  BoardTyped' /\ f # EpochFrame
  <2>1. Classified(ip) /\ UNCHANGED <<last, resets, everHot>>
    BY <1>1 DEF Handle, PacketFrame
  <2>2. sent \in Tally
    BY DEF DeviceTypeOK, Tally
  <2>3. sent' \in Tally /\ NoLess(sent, sent')
    BY <2>1, <2>2, Counted
  <2>4. Estimate(sent', ip) \in 0 .. CountMax
    <3>1. NoLess(sent', sent')
      BY <2>3, DeviceAssumption DEF NoLess, Tally
    <3> QED BY <2>3, <3>1, EstimateGrows
  <2>5. top' \in TopTalker
    BY <2>1, <2>4 DEF Classified, TopTalker, DeviceTypeOK
  <2>6. answer' = Verdict(ip, Blocked(ip)) /\ Blocked(ip) \in BOOLEAN
    BY <2>1 DEF Classified, Blocked
  <2>7. WellFormed(answer') /\ answer'.magic = 165
    BY <2>6 DEF WellFormed, Verdict, IsVerdict, IsResponse
  <2>8. f # EpochFrame
    BY <1>1 DEF PacketFrame, EpochFrame
  <2> QED BY <2>1, <2>3, <2>5, <2>7, <2>8
          DEF DeviceTypeOK, Tally, Classified
<1>2. CASE f = SnapFrame
  <2>1. answer' = Telemetry(last) /\ UNCHANGED <<rules, epoch, sent, top, last,
                                                 resets, everHot>>
    BY <1>2 DEF Handle, SnapFrame
  <2>2. WellFormed(answer') /\ answer'.magic = 90
    BY <2>1 DEF WellFormed, Telemetry, DeviceTypeOK, IsVerdict, IsResponse
  <2>3. f # EpochFrame
    BY <1>2 DEF SnapFrame, EpochFrame
  <2> QED BY <2>1, <2>2, <2>3 DEF DeviceTypeOK
<1>3. CASE f = EpochFrame
  <2>1. answer' = EpochIs(epoch) /\ UNCHANGED <<rules, epoch, sent, top, last,
                                                resets, everHot>>
    BY <1>3 DEF Handle, EpochFrame
  <2>2. answer' \in EpochAnswers /\ answer'.magic = 90 /\ WellFormed(answer')
    BY <2>1 DEF EpochAnswers, EpochIs, DeviceTypeOK, WellFormed, IsVerdict,
                IsResponse
  <2> QED BY <2>1, <2>2 DEF DeviceTypeOK
<1>4. ASSUME NEW ip \in Ip, NEW n \in Nat, f = RuleFrame(ip, n)
      PROVE  BoardTyped' /\ f # EpochFrame
  <2>1. /\ rules' = [rules EXCEPT ![RuleHash[ip]] = [src |-> ip, epoch |-> n]]
        /\ answer' = Acked
        /\ UNCHANGED <<epoch, sent, top, last, resets, everHot>>
    BY <1>4 DEF Handle, RuleFrame, lookup_idx
  <2>2. rules' \in [RuleIdx -> StoredRule]
    <3>1. [src |-> ip, epoch |-> n] \in StoredRule
      BY DEF StoredRule
    <3>2. rules \in [RuleIdx -> StoredRule]
      BY DEF DeviceTypeOK
    <3> QED BY <2>1, <3>1, <3>2, Zenon
  <2>3. WellFormed(answer') /\ answer'.magic = 90
    BY <2>1 DEF WellFormed, Acked, IsVerdict, IsResponse
  <2>4. f # EpochFrame
    BY <1>4 DEF RuleFrame, EpochFrame
  <2> QED BY <2>1, <2>2, <2>3, <2>4 DEF DeviceTypeOK
<1> QED BY <1>1, <1>2, <1>3, <1>4 DEF Frames

LEMMA ResetTyped ==
    ASSUME BoardTyped, Reset
    PROVE  BoardTyped' /\ answer' = NoAnswer
<1>1. sent' \in [Ip -> 0 .. CountMax]
  BY DeviceAssumption DEF Reset, Silence
<1>2. top' \in TopTalker /\ last' \in TopTalker
  BY IpAssumption, DeviceAssumption DEF Reset, NoTop, TopTalker
<1>3. resets' \in 0 .. MaxResets
  BY DeviceAssumption DEF Reset, BoardTyped, DeviceTypeOK
<1>4. answer' = NoAnswer /\ WellFormed(answer') /\ answer'.magic = 0
  BY DEF Reset, NoAnswer, WellFormed, IsVerdict, IsResponse
<1> QED BY <1>1, <1>2, <1>3, <1>4 DEF Reset, BoardTyped, DeviceTypeOK

LEMMA TransferTyped ==
    ASSUME IsFiniteSet(Ip), Bank # {}, BoardTyped, NEW f \in Frames, Transfer(f)
    PROVE  BoardTyped' /\ (f = EpochFrame => answer' \in EpochAnswers)
BY HandleTyped, ResetTyped DEF Transfer, EpochAnswers

\* A transfer that looks at its answer is a transfer.
LEMMA ReceiveTransfers ==
    ASSUME NEW f, NEW rx, Receive(f, rx)
    PROVE  Transfer(f)
BY DEF Receive, Transfer

\* An answer cut short is an answer of the same kind or none, and a snapshot
\* keeps its key as far as it arrived, or its count has arrived in part only.
LEMMA TornTyped ==
    ASSUME WellFormed(answer), NEW rx \in Torn(answer)
    PROVE  /\ WellFormed(rx)
           /\ IsResponse(rx) /\ rx.op = SnapshotOp =>
                /\ IsResponse(answer) /\ answer.op = SnapshotOp
                /\ answer.key \in Ip /\ rx.key \in CutIp[answer.key]
                /\ rx.count \in Nat /\ answer.count \in Nat
                /\ rx.count <= answer.count
<1> USE DEF SnapshotOp, ThreshReadOp, CmsQueryOp, RuleWriteOp, BloomWriteOp,
            ClassifyOp, HarmonicOp
<1>1. CASE rx = answer
  <2>1. IsResponse(answer) /\ answer.op = SnapshotOp =>
           answer.key \in Ip /\ answer.count \in 0 .. CountMax
    BY DEF WellFormed, Telemetry, TopTalker
  <2>2. IsResponse(answer) /\ answer.op = SnapshotOp =>
           answer.key \in CutIp[answer.key] /\ answer.count \in Nat
    BY <2>1, DeviceAssumption
  <2>3. WellFormed(rx)
    BY <1>1
  <2>4. ASSUME IsResponse(answer), answer.op = SnapshotOp
        PROVE  /\ answer.key \in Ip /\ rx.key \in CutIp[answer.key]
               /\ rx.count \in Nat /\ answer.count \in Nat
               /\ rx.count <= answer.count
    BY <1>1, <2>1, <2>2, <2>4
  <2> QED BY <1>1, <2>3, <2>4
<1>2. CASE rx = NoAnswer
  BY <1>2 DEF NoAnswer, WellFormed, IsVerdict, IsResponse
<1>3. CASE IsVerdict(answer) /\ rx = Verdict(answer.src, FALSE)
  <2>1. answer.src \in Ip
    BY <1>3 DEF WellFormed, Verdict
  <2>2. rx.magic = 165
    BY <1>3 DEF Verdict
  <2>3. \E ip \in Ip, m \in BOOLEAN : rx = Verdict(ip, m)
    BY <1>3, <2>1, Zenon
  <2> QED BY <2>2, <2>3 DEF WellFormed, IsVerdict, IsResponse
<1>4. CASE IsResponse(answer) /\ answer.op = SnapshotOp /\ rx \in CutResponse(answer)
  <2>1. PICK t \in TopTalker : answer = Telemetry(t)
    BY <1>4 DEF WellFormed
  <2>2. t.key \in Ip /\ t.count \in 0 .. CountMax /\ answer.key = t.key
        /\ answer.count = t.count
    BY <2>1 DEF TopTalker, Telemetry
  <2>3. rx \in {Telemetry([key |-> ZeroIp, count |-> c]) : c \in CutNumber(answer.count)}
               \cup {Telemetry([key |-> k, count |-> answer.count]) : k \in CutIp[answer.key]}
    BY <1>4 DEF CutResponse
  <2>4. \E k \in CutIp[answer.key], c \in 0 .. answer.count :
           rx = Telemetry([key |-> k, count |-> c])
    <3>1. CutNumber(answer.count) \subseteq 0 .. answer.count
      BY DEF CutNumber
    <3>2. ZeroIp \in CutIp[answer.key] /\ answer.count \in 0 .. answer.count
      BY <2>2, DeviceAssumption
    <3> QED BY <2>3, <3>1, <3>2
  <2>5. PICK k \in CutIp[answer.key], c \in 0 .. answer.count :
           rx = Telemetry([key |-> k, count |-> c])
    BY <2>4
  <2>6. [key |-> k, count |-> c] \in TopTalker
    BY <2>2, <2>5, DeviceAssumption DEF TopTalker
  <2> QED BY <1>4, <2>2, <2>5, <2>6, DeviceAssumption
          DEF WellFormed, Telemetry, IsVerdict, IsResponse
<1>5. CASE IsResponse(answer) /\ answer.op # SnapshotOp /\ rx \in CutResponse(answer)
  <2>1. rx.magic = 90 /\ rx.op # SnapshotOp
    BY <1>5 DEF CutResponse, EpochIs, CmsAnswer, Acked
  <2> QED BY <2>1 DEF WellFormed, IsVerdict, IsResponse
<1> QED BY <1>1, <1>2, <1>3, <1>4, <1>5 DEF Torn

\* Cut or not, the answer to the question for the epoch is no other response.
LEMMA TornEpoch ==
    ASSUME answer \in EpochAnswers, NEW rx \in Torn(answer)
    PROVE  rx \in EpochAnswers
<1>1. CASE answer = NoAnswer
  BY <1>1 DEF NoAnswer, Torn, IsVerdict, IsResponse, EpochAnswers
<1>2. ASSUME NEW v \in Nat, answer = EpochIs(v)
      PROVE  rx \in EpochAnswers
  <2>1. answer.op = ThreshReadOp /\ answer.value = v /\ ~IsVerdict(answer)
    BY <1>2 DEF EpochIs, IsVerdict
  <2>2. rx \in CutResponse(answer) => \E w \in CutNumber(v) : rx = EpochIs(w)
    BY <2>1 DEF CutResponse, EpochIs, CmsAnswer, Acked, SnapshotOp, ThreshReadOp,
                CmsQueryOp, RuleWriteOp, BloomWriteOp, ClassifyOp
  <2>3. CutNumber(v) \subseteq Nat
    BY DEF CutNumber
  <2>4. rx = answer \/ rx = NoAnswer \/ rx \in CutResponse(answer)
    BY <2>1 DEF Torn
  <2> QED BY <1>2, <2>2, <2>3, <2>4 DEF EpochAnswers
<1> QED BY <1>1, <1>2 DEF EpochAnswers

LEMMA TickTyped ==
    ASSUME BoardTyped, WindowTick
    PROVE  BoardTyped'
<1>1. sent' \in [Ip -> 0 .. CountMax]
  BY DeviceAssumption DEF WindowTick, Silence
<1>2. top' \in TopTalker /\ last' \in TopTalker
  BY IpAssumption, DeviceAssumption
     DEF WindowTick, NoTop, TopTalker, BoardTyped, DeviceTypeOK
<1>3. everHot' \subseteq Ip
  BY DEF WindowTick, BoardTyped, DeviceTypeOK
<1> QED BY <1>1, <1>2, <1>3 DEF WindowTick, BoardTyped, DeviceTypeOK

\* A frame without an action of its own in PiDevice, such as a point query,
\* changes nothing but the answer.
LEMMA ResponseTyped ==
    ASSUME BoardTyped, UNCHANGED <<rules, epoch, sent, top, last, resets, everHot>>,
           answer'.magic = 90, answer'.op # SnapshotOp
    PROVE  BoardTyped'
BY DEF BoardTyped, DeviceTypeOK, WellFormed, IsVerdict, IsResponse

LEMMA DeviceInitTyped == ASSUME DeviceInit PROVE BoardTyped /\ answer = NoAnswer
<1>1. NoTop \in TopTalker /\ sent \in [Ip -> 0 .. CountMax]
  BY IpAssumption, DeviceAssumption DEF NoTop, TopTalker, DeviceInit, Silence
<1>2. rules \in [RuleIdx -> StoredRule]
  BY IpAssumption DEF DeviceInit, StoredRule
<1>3. answer = NoAnswer /\ WellFormed(answer) /\ answer.magic = 0
  BY DEF DeviceInit, NoAnswer, WellFormed, IsVerdict, IsResponse
<1>4. DeviceTypeOK
  BY <1>1, <1>2, <1>3, DeviceAssumption DEF DeviceInit, DeviceTypeOK
<1> QED BY <1>3, <1>4 DEF BoardTyped

\* What decode_snapshot makes of any answer is a top talker.
LEMMA DecodedTyped ==
    ASSUME NEW rx, WellFormed(rx)
    PROVE  DecodedSnapshot(rx) \in TopTalker
<1>1. NoTop \in TopTalker
  BY IpAssumption, DeviceAssumption DEF NoTop, TopTalker
<1> QED BY <1>1 DEF WellFormed, DecodedSnapshot, Telemetry, TopTalker

LEMMA FramesKnown ==
    /\ SnapFrame \in Frames /\ EpochFrame \in Frames /\ FlushFrame \in Frames
    /\ \A ip \in Ip : PacketFrame(ip) \in Frames
    /\ \A ip \in Ip, n \in Nat : RuleFrame(ip, n) \in Frames
BY IpAssumption DEF Frames, FlushFrame

(***************************************************************************)
(* Hot sources                                                              *)
(***************************************************************************)
\* The source next to a count at the trigger was hot in a completed window.
WasHot(s) == s.count >= Trigger => s.key \in everHot

\* The board's part of it.
BoardHot ==
    /\ top.count >= Trigger => Estimate(sent, top.key) >= Trigger
    /\ WasHot(last)
    /\ IsResponse(answer) /\ answer.op = SnapshotOp => WasHot(answer)

LEMMA HandleHot ==
    ASSUME IsFiniteSet(Ip), Bank # {}, BoardTyped, BoardHot,
           NEW f \in Frames, Handle(f)
    PROVE  BoardHot' /\ everHot' = everHot
<1> USE DEF ClassifyOp, SnapshotOp, ThreshReadOp, RuleWriteOp
<1>1. UNCHANGED <<last, everHot>>
  BY DEF Handle
<1>2. ASSUME NEW ip \in Ip, f = PacketFrame(ip)
      PROVE  BoardHot'
  <2>1. Classified(ip)
    BY <1>2 DEF Handle, PacketFrame
  <2>2. sent \in Tally /\ top.key \in Ip
    BY DEF BoardTyped, DeviceTypeOK, Tally, TopTalker
  <2>3. sent' \in Tally /\ NoLess(sent, sent')
    BY <2>1, <2>2, Counted
  <2>4. /\ Estimate(sent, top.key) \in 0 .. CountMax
        /\ Estimate(sent, top.key) <= Estimate(sent', top.key)
    BY <2>2, <2>3, EstimateGrows
  <2>5. Estimate(sent', top.key) \in 0 .. CountMax
    <3>1. NoLess(sent', sent')
      BY <2>3, DeviceAssumption DEF NoLess, Tally
    <3> QED BY <2>2, <2>3, <3>1, EstimateGrows
  <2>6. top'.count >= Trigger => Estimate(sent', top'.key) >= Trigger
    <3>1. CASE Estimate(sent', ip) > top.count
      <4>1. top' = [key |-> ip, count |-> Estimate(sent', ip)]
        BY <2>1, <3>1 DEF Classified
      <4> QED BY <4>1
    <3>2. CASE ~(Estimate(sent', ip) > top.count)
      <4>1. top' = top
        BY <2>1, <3>2 DEF Classified
      <4>2. top.count >= Trigger => Estimate(sent, top.key) >= Trigger
        BY DEF BoardHot
      <4>3. top.count >= Trigger => Estimate(sent', top.key) >= Trigger
        BY <2>4, <2>5, <4>2, DeviceAssumption
      <4> QED BY <4>1, <4>3
    <3> QED BY <3>1, <3>2
  <2>7. answer'.magic = 165
    BY <2>1 DEF Classified, Verdict
  <2> QED BY <1>1, <2>6, <2>7 DEF BoardHot, WasHot, IsResponse
<1>3. CASE f = SnapFrame
  <2>1. answer' = Telemetry(last) /\ UNCHANGED <<sent, top>>
    BY <1>3 DEF Handle, SnapFrame
  <2> QED BY <1>1, <2>1 DEF BoardHot, WasHot, Telemetry
<1>4. CASE f = EpochFrame
  <2>1. answer' = EpochIs(epoch) /\ UNCHANGED <<sent, top>>
    BY <1>4 DEF Handle, EpochFrame
  <2> QED BY <1>1, <2>1 DEF BoardHot, WasHot, EpochIs
<1>5. ASSUME NEW ip \in Ip, NEW n \in Nat, f = RuleFrame(ip, n)
      PROVE  BoardHot'
  <2>1. answer' = Acked /\ UNCHANGED <<sent, top>>
    BY <1>5 DEF Handle, RuleFrame
  <2> QED BY <1>1, <2>1 DEF BoardHot, WasHot, Acked
<1> QED BY <1>1, <1>2, <1>3, <1>4, <1>5 DEF Frames

\* btnC leaves nothing on the board that names a source.
LEMMA ResetHot ==
    ASSUME Reset
    PROVE  BoardHot' /\ everHot' = everHot
BY DeviceAssumption DEF Reset, BoardHot, WasHot, NoTop, NoAnswer, IsResponse

LEMMA TransferHot ==
    ASSUME IsFiniteSet(Ip), Bank # {}, BoardTyped, BoardHot,
           NEW f \in Frames, Transfer(f)
    PROVE  BoardHot' /\ everHot' = everHot
BY HandleHot, ResetHot DEF Transfer

\* The end of a window makes its top talker hot, and takes nobody back.
LEMMA TickHot ==
    ASSUME BoardTyped, BoardHot, WindowTick
    PROVE  BoardHot' /\ everHot \subseteq everHot'
<1>1. top.key \in Ip
  BY DEF BoardTyped, DeviceTypeOK, TopTalker
<1>2. everHot \subseteq everHot'
  BY DEF WindowTick
<1>3. last' = top /\ top' = NoTop /\ answer' = answer
  BY DEF WindowTick
<1>4. WasHot(last)'
  BY <1>1, <1>3 DEF WindowTick, BoardHot, WasHot
<1>5. ~(top'.count >= Trigger)
  BY <1>3, DeviceAssumption DEF NoTop
<1> QED BY <1>2, <1>3, <1>4, <1>5 DEF BoardHot, WasHot

LEMMA ResponseHot ==
    ASSUME BoardHot, UNCHANGED <<sent, top, last, everHot>>,
           answer'.op # SnapshotOp
    PROVE  BoardHot'
BY DEF BoardHot, WasHot

\* A count at the trigger arrived whole enough for its key to be that of a hot
\* source, or the beginning of it.
LEMMA ReceiveHot ==
    ASSUME BoardTyped, BoardHot, NEW f, NEW rx, Receive(f, rx),
           DecodedSnapshot(rx).count >= Trigger
    PROVE  HotOrCut(DecodedSnapshot(rx).key)'
<1>1. IsResponse(rx) /\ rx.op = SnapshotOp
  BY DeviceAssumption DEF DecodedSnapshot, NoTop
<1>2. DecodedSnapshot(rx).key = rx.key /\ DecodedSnapshot(rx).count = rx.count
  BY <1>1 DEF DecodedSnapshot
<1>3. CASE Handle(f) /\ rx = answer
  <2>1. everHot' = everHot
    BY <1>3 DEF Handle
  <2>2. rx.key \in everHot
    BY <1>1, <1>2, <1>3 DEF BoardHot, WasHot
  <2> QED BY <1>2, <2>1, <2>2 DEF HotOrCut
<1>4. CASE Reset /\ rx \in Torn(answer)
  <2>1. /\ IsResponse(answer) /\ answer.op = SnapshotOp
        /\ rx.key \in CutIp[answer.key]
        /\ rx.count \in Nat /\ answer.count \in Nat /\ rx.count <= answer.count
    BY <1>1, <1>4, TornTyped DEF BoardTyped
  <2>2. answer.count >= Trigger
    BY <1>2, <2>1, DeviceAssumption
  <2>3. answer.key \in everHot
    BY <2>1, <2>2 DEF BoardHot, WasHot
  <2>4. everHot' = everHot /\ resets' > 0
    BY <1>4 DEF Reset, BoardTyped, DeviceTypeOK
  <2>5. HotOrCut(rx.key)'
    BY <2>1, <2>3, <2>4 DEF HotOrCut
  <2> QED BY <1>2, <2>5 DEF HotOrCut
<1> QED BY <1>3, <1>4 DEF Receive

LEMMA DeviceInitHot == ASSUME DeviceInit PROVE BoardHot
BY DeviceAssumption DEF DeviceInit, BoardHot, WasHot, NoTop, NoAnswer, IsResponse

(***************************************************************************)
(* The rules                                                                *)
(***************************************************************************)
\* What a frame other than a rule leaves alone, and what it answers.
LEMMA HandleReads ==
    ASSUME NEW f, Handle(f), f.op # RuleWriteOp
    PROVE  /\ UNCHANGED <<rules, epoch, last, resets, everHot>>
           /\ f.op = ClassifyOp => /\ top' = top \/ top'.key = f.src
                                   /\ answer' = Verdict(f.src, Blocked(f.src))
           /\ f.op = SnapshotOp => top' = top /\ answer' = Telemetry(last)
           /\ f.op = ThreshReadOp => top' = top /\ answer' = EpochIs(epoch)
<1> USE DEF ClassifyOp, SnapshotOp, ThreshReadOp, RuleWriteOp
<1>1. CASE f.op = ClassifyOp
  BY <1>1 DEF Handle, Classified
<1>2. CASE f.op = SnapshotOp
  BY <1>2 DEF Handle
<1>3. CASE f.op = ThreshReadOp
  BY <1>3 DEF Handle
<1> QED BY <1>1, <1>2, <1>3 DEF Handle

\* The keys the board can give away are those of packets: T holds the
\* sources of all of them.
NamesIn(T) ==
    /\ top.key \in T /\ last.key \in T
    /\ IsResponse(answer) /\ answer.op = SnapshotOp => answer.key \in T

LEMMA HandleNames ==
    ASSUME NEW T, NamesIn(T), NEW f, Handle(f),
           f.op = ClassifyOp => f.src \in T
    PROVE  NamesIn(T)'
<1> USE DEF ClassifyOp, SnapshotOp, ThreshReadOp, RuleWriteOp
<1>1. CASE f.op = RuleWriteOp
  <2>1. answer' = Acked /\ top' = top /\ last' = last
    BY <1>1 DEF Handle
  <2> QED BY <2>1 DEF NamesIn, Acked
<1>2. CASE f.op # RuleWriteOp
  <2>1. last' = last /\ (top' = top \/ top'.key \in T)
    BY <1>2, HandleReads DEF Handle
  <2>2. IsResponse(answer') /\ answer'.op = SnapshotOp => answer'.key = last.key
    BY <1>2, HandleReads DEF Handle, Verdict, Telemetry, EpochIs, IsResponse
  <2> QED BY <2>1, <2>2 DEF NamesIn
<1> QED BY <1>1, <1>2

\* A rule lands in its own place and in no other.
LEMMA HandleRule ==
    ASSUME DOMAIN rules = RuleIdx, NEW k \in Ip, NEW e, Handle(RuleFrame(k, e))
    PROVE  /\ answer' = Acked /\ UNCHANGED <<epoch, top, last, resets, everHot>>
           /\ DOMAIN rules' = RuleIdx
           /\ rules'[RuleHash[k]] = [src |-> k, epoch |-> e]
           /\ \A i \in RuleIdx \ {RuleHash[k]} : rules'[i] = rules[i]
<1>1. /\ rules' = [rules EXCEPT ![RuleHash[k]] = [src |-> k, epoch |-> e]]
      /\ answer' = Acked /\ UNCHANGED <<epoch, top, last, resets, everHot>>
  BY DEF Handle, RuleFrame, lookup_idx, ClassifyOp, SnapshotOp, ThreshReadOp,
         RuleWriteOp
<1>2. RuleHash[k] \in RuleIdx
  BY DEF RuleIdx
<1> QED BY <1>1, <1>2

\* A step that leaves rules and registers alone blocks whom it blocked.
LEMMA StillBlocked ==
    ASSUME UNCHANGED <<rules, epoch>>
    PROVE  \A ip : Blocked(ip)' = Blocked(ip)
BY DEF Blocked

\* Without btnC every transfer is handled, and presses are never taken back.
LEMMA TransferHandled ==
    ASSUME resets \in Nat, NEW f, Transfer(f)
    PROVE  /\ resets' \in Nat /\ (resets' = 0 => resets = 0)
           /\ resets' = 0 => Handle(f)
BY DEF Transfer, Handle, Reset

=============================================================================
