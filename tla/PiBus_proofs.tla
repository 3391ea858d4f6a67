----------------------------- MODULE PiBus_proofs -----------------------------
(***************************************************************************)
(* Two processes on one bus, for every hash, stream, trigger and way their  *)
(* frames interleave: what closed_loop.py may conclude from answers that    *)
(* are not all its own, and what the scripts that judge the board may       *)
(* conclude from the answer to the frame before.                            *)
(***************************************************************************)
EXTENDS PiBus, PiDevice_proofs

(***************************************************************************)
(* What a step does to the board                                            *)
(***************************************************************************)
\* The sources of the packets anybody sends.
Traffic == {ZeroIp, FLOOD_SRC} \cup Others \cup {STREAM[i] : i \in DOMAIN STREAM}

\* A frame that writes nothing.
Reads ==
    \/ \E f \in {SnapFrame, EpochFrame} \cup {PacketFrame(ip) : ip \in Traffic} :
          Handle(f)
    \/ \E body : /\ Answered(body)
                 /\ body.magic = 90 /\ body.op \in {CmsQueryOp, HarmonicOp}

PacketSent == \E ip \in Traffic : Handle(PacketFrame(ip))

BoardAlone == Reset \/ WindowTick \/ UNCHANGED deviceVars

\* A step of anybody but closed_loop.py.  While that one reads the epoch,
\* only a sender of packets is on the bus with it.
OthersStep ==
    /\ UNCHANGED <<loopVars, tool>>
    /\ \/ Reads
       \/ BoardAlone
       \/ tool = "loop_demo" /\ Handle(RuleFrame(FLOOD_SRC, 0))
    /\ pc \in {"epoch", "epoch_rx"} => PacketSent \/ BoardAlone

LEMMA TrafficIsIp == Traffic \subseteq Ip /\ ZeroIp \in Traffic
<1>1. \A i \in DOMAIN STREAM : STREAM[i] \in Ip
  BY ToolAssumption
<1> QED
  BY <1>1, IpAssumption, OthersAssumption, ToolAssumption DEF Traffic

LEMMA PacketsRead ==
    ASSUME NEW ip \in Traffic, Transfer(PacketFrame(ip))
    PROVE  (PacketSent \/ Reset) /\ (Reads \/ Reset)
BY DEF Transfer, PacketSent, Reads

LEMMA FlushReads ==
    ASSUME Transfer(FlushFrame)
    PROVE  (PacketSent \/ Reset) /\ (Reads \/ Reset)
BY PacketsRead, TrafficIsIp DEF FlushFrame

LEMMA QueryReads ==
    ASSUME NEW key, NEW rx, Query(key, rx) \/ Harmonic PROVE Reads \/ Reset
<1>1. CASE Answered(CmsAnswer(key, Estimate(sent, key)))
  BY <1>1 DEF Reads, CmsAnswer, CmsQueryOp
<1>2. CASE Answered(HllAnswer)
  BY <1>2 DEF Reads, HllAnswer, HarmonicOp
<1> QED BY <1>1, <1>2 DEF Query, Harmonic

LEMMA NotTheLoop ==
    ASSUME n \in Nat, [BusNext]_busVars
    PROVE  LoopStep \/ OthersStep
<1> SUFFICES ASSUME ~LoopStep PROVE OthersStep
  OBVIOUS
<1>1. CASE ToolStep
  <2>0. UNCHANGED loopVars /\ pc \notin {"epoch", "epoch_rx"}
    BY <1>1 DEF ToolStep, LoopRuns
  <2>1. CASE TelemetryCheck
    <3> PICK rx \in Torn(answer) : PlanTransfer(n + 1, rx)
      BY <2>1 DEF TelemetryCheck
    <3>1. tool' = tool
      BY <2>1 DEF TelemetryCheck
    <3>2. CASE n + 1 <= Len(STREAM)
      <4>1. Len(STREAM) \in Nat /\ DOMAIN STREAM = 1 .. Len(STREAM)
        BY ToolAssumption
      <4>2. STREAM[n + 1] \in Traffic
        BY <3>2, <4>1 DEF Traffic
      <4> QED BY <2>0, <3>1, <3>2, <4>2, PacketsRead, ReceiveTransfers
              DEF PlanTransfer, OthersStep, BoardAlone
    <3>3. CASE ~(n + 1 <= Len(STREAM))
      <4>1. Query(AskedKey(n + 1), rx) \/ Transfer(FlushFrame)
        BY <3>3, ReceiveTransfers DEF PlanTransfer
      <4> QED BY <2>0, <3>1, <4>1, QueryReads, FlushReads
              DEF OthersStep, BoardAlone
    <3> QED BY <3>2, <3>3
  <2>2. CASE Issue
    <3>1. tool' = tool /\ (Transfer(SnapFrame) \/ Harmonic \/ Transfer(FlushFrame))
      BY <2>2 DEF Issue
    <3>2. Reads \/ Reset
      BY <3>1, QueryReads, FlushReads DEF Transfer, Reads
    <3> QED BY <2>0, <3>1, <3>2 DEF OthersStep, BoardAlone
  <2>3. CASE tool = "loop_demo" /\ LoopDemo
    <3>1. FLOOD_SRC \in Traffic
      BY DEF Traffic
    <3>2. CASE DemoPushes
      BY <2>0, <2>3, <3>2 DEF DemoPushes, DemoGoes, Transfer, OthersStep, BoardAlone
    <3>3. CASE DemoAsks
      <4>1. Reads \/ Reset
        BY <3>3 DEF DemoAsks, Transfer, Reads
      <4> QED BY <2>0, <3>3, <4>1 DEF DemoAsks, DemoGoes, OthersStep, BoardAlone
    <3>4. CASE Flood \/ DemoReads \/ DemoChecksAck \/ DemoSends \/ DemoJudges
      <4>1. Transfer(PacketFrame(FLOOD_SRC)) \/ Transfer(FlushFrame)
        BY <3>4, ReceiveTransfers
           DEF Flood, DemoReads, DemoChecksAck, DemoSends, DemoJudges
      <4>2. tool' = tool
        BY <3>4 DEF Flood, DemoReads, DemoChecksAck, DemoSends, DemoJudges, DemoGoes
      <4> QED BY <2>0, <3>1, <4>1, <4>2, PacketsRead, FlushReads
              DEF OthersStep, BoardAlone
    <3> QED BY <2>3, <3>2, <3>3, <3>4 DEF LoopDemo
  <2>4. ASSUME NEW ip \in Others, Show(ip) PROVE OthersStep
    <3>1. tool' = tool /\ Transfer(PacketFrame(ip)) /\ ip \in Traffic
      BY <2>4, ReceiveTransfers DEF Show, Traffic
    <3> QED BY <2>0, <3>1, PacketsRead DEF OthersStep, BoardAlone
  <2> QED BY <1>1, <2>1, <2>2, <2>3, <2>4 DEF ToolStep
<1>2. CASE Sender
  <2>1. PICK ip \in Others : OtherSends(ip)
    BY <1>2 DEF Sender
  <2>2. Transfer(PacketFrame(ip)) /\ ip \in Traffic /\ UNCHANGED <<loopVars, tool>>
    BY <1>2, <2>1 DEF OtherSends, Sender, toolVars, Traffic
  <2> QED BY <2>2, PacketsRead DEF OthersStep, BoardAlone
<1>3. CASE BusTick
  BY <1>3 DEF BusTick, OthersStep, BoardAlone
<1>4. CASE BusReset
  BY <1>4 DEF BusReset, toolVars, OthersStep, BoardAlone
<1>5. CASE UNCHANGED busVars
  BY <1>5 DEF busVars, vars, toolVars, OthersStep, BoardAlone
<1> QED BY <1>1, <1>2, <1>3, <1>4, <1>5 DEF BusNext

(***************************************************************************)
(* The board between any two steps                                          *)
(***************************************************************************)
BoardInv == BoardTyped /\ BoardHot /\ NamesIn(Traffic)

LEMMA FrameKeepsBoard ==
    ASSUME IsFiniteSet(Ip), Bank # {}, BoardInv, NEW f \in Frames,
           f.op = ClassifyOp => f.src \in Traffic, Transfer(f)
    PROVE  BoardInv' /\ everHot' = everHot
<1>1. BoardTyped' /\ BoardHot' /\ everHot' = everHot
  BY TransferTyped, TransferHot DEF BoardInv
<1>2. CASE Handle(f)
  BY <1>1, <1>2, HandleNames DEF BoardInv
<1>3. CASE Reset
  BY <1>1, <1>3, TrafficIsIp DEF BoardInv, Reset, NamesIn, NoTop, NoAnswer, IsResponse
<1> QED BY <1>2, <1>3 DEF Transfer

LEMMA BusFrames ==
    /\ \A ip \in Traffic : PacketFrame(ip) \in Frames /\ PacketFrame(ip).src \in Traffic
    /\ FlushFrame \in Frames /\ FlushFrame.src \in Traffic
    /\ SnapFrame \in Frames /\ SnapFrame.op # ClassifyOp
    /\ EpochFrame \in Frames /\ EpochFrame.op # ClassifyOp
    /\ \A ip \in Ip, m \in Nat :
          RuleFrame(ip, m) \in Frames /\ RuleFrame(ip, m).op # ClassifyOp
<1>1. \A ip : PacketFrame(ip).src = ip
  BY DEF PacketFrame
<1>2. /\ SnapFrame.op # ClassifyOp /\ EpochFrame.op # ClassifyOp
      /\ \A ip, m : RuleFrame(ip, m).op # ClassifyOp
  BY DEF SnapFrame, EpochFrame, RuleFrame, SnapshotOp, ThreshReadOp, RuleWriteOp,
         ClassifyOp
<1> QED BY <1>1, <1>2, FramesKnown, TrafficIsIp DEF FlushFrame

LEMMA OthersKeepBoard ==
    ASSUME IsFiniteSet(Ip), Bank # {}, BoardInv, OthersStep
    PROVE  BoardInv' /\ everHot \subseteq everHot'
<1>1. ASSUME NEW f \in Frames, f.op = ClassifyOp => f.src \in Traffic, Handle(f)
      PROVE  BoardInv' /\ everHot \subseteq everHot'
  BY <1>1, FrameKeepsBoard DEF Transfer
<1>2. CASE Reads
  <2>1. ASSUME NEW body, Answered(body), body.magic = 90,
               body.op \in {CmsQueryOp, HarmonicOp}
        PROVE  BoardInv' /\ everHot \subseteq everHot'
    <3>1. /\ UNCHANGED <<rules, epoch, sent, top, last, resets, everHot>>
          /\ answer'.magic = 90 /\ answer'.op # SnapshotOp
      BY <2>1 DEF Answered, CmsQueryOp, HarmonicOp, SnapshotOp
    <3>2. BoardTyped' /\ BoardHot'
      BY <3>1, ResponseTyped, ResponseHot DEF BoardInv
    <3>3. NamesIn(Traffic)'
      BY <3>1 DEF BoardInv, NamesIn
    <3> QED BY <3>1, <3>2, <3>3 DEF BoardInv
  <2> QED BY <1>1, <1>2, <2>1, BusFrames DEF Reads
<1>3. CASE Reset
  <2>1. FlushFrame \in Frames /\ FlushFrame.src \in Traffic /\ Transfer(FlushFrame)
    BY <1>3, BusFrames DEF Transfer
  <2> QED BY <2>1, FrameKeepsBoard
<1>4. CASE WindowTick
  <2>1. BoardTyped' /\ BoardHot' /\ everHot \subseteq everHot'
    BY <1>4, TickTyped, TickHot DEF BoardInv
  <2>2. NamesIn(Traffic)'
    BY <1>4, TrafficIsIp DEF WindowTick, NamesIn, BoardInv, NoTop, IsResponse
  <2> QED BY <2>1, <2>2 DEF BoardInv
<1>5. CASE UNCHANGED deviceVars
  BY <1>5 DEF deviceVars, BoardInv, BoardTyped, BoardHot, NamesIn, DeviceTypeOK,
              WasHot
<1>6. CASE Handle(RuleFrame(FLOOD_SRC, 0))
  BY <1>1, <1>6, BusFrames, ToolAssumption
<1> QED BY <1>2, <1>3, <1>4, <1>5, <1>6 DEF OthersStep, BoardAlone

LEMMA BoardInit == ASSUME DeviceInit PROVE BoardInv
<1>1. NamesIn(Traffic)
  BY TrafficIsIp DEF DeviceInit, NamesIn, NoTop, NoAnswer, IsResponse
<1> QED BY <1>1, DeviceInitTyped, DeviceInitHot DEF BoardInv

(***************************************************************************)
(* closed_loop.py                                                           *)
(***************************************************************************)
\* What a torn poll cannot do: the epoch that is read is a register value or
\* a part of one, and whoever is pushed or about to be was hot, in this
\* board's own words, or the beginning of a hot source.
LoopInv ==
    /\ BoardInv
    /\ n \in Nat /\ rule_epoch \in Nat
    /\ pc = "epoch_rx" /\ IsResponse(answer) => \E m \in Nat : answer = EpochIs(m)
    /\ target \in Ip /\ seen \subseteq Ip
    /\ OnlyHotSourcesPushed

LEMMA FramesCounted ==
    ASSUME n \in Nat, [BusNext]_busVars PROVE n' \in Nat
<1>1. CASE ToolStep
  <2>1. CASE LoopDemo
    BY <2>1 DEF LoopDemo, Flood, DemoAsks, DemoReads, DemoPushes, DemoChecksAck,
                DemoSends, DemoJudges
  <2>2. CASE TelemetryCheck
    BY <2>2 DEF TelemetryCheck
  <2>3. CASE Issue
    BY <2>3 DEF Issue
  <2>4. CASE \E ip \in Others : Show(ip)
    BY <2>4 DEF Show
  <2> QED BY <1>1, <2>1, <2>2, <2>3, <2>4 DEF ToolStep
<1>2. CASE Sender \/ LoopStep \/ BusTick \/ BusReset \/ UNCHANGED busVars
  BY <1>2 DEF Sender, LoopStep, BusTick, BusReset, busVars, toolVars
<1> QED BY <1>1, <1>2 DEF BusNext

\* While the epoch is on its way, nobody puts another response in its place.
LEMMA EpochOnItsWay ==
    ASSUME OthersStep, pc = "epoch_rx", IsResponse(answer')
    PROVE  answer' = answer
<1>1. ~PacketSent
  <2> SUFFICES ASSUME NEW ip \in Traffic, Handle(PacketFrame(ip)) PROVE FALSE
    BY DEF PacketSent
  <2>1. PacketFrame(ip).op = ClassifyOp /\ ClassifyOp # RuleWriteOp
    BY DEF PacketFrame, ClassifyOp, RuleWriteOp
  <2>2. answer'.magic = 165
    BY <2>1, HandleReads DEF Verdict
  <2> QED BY <2>2 DEF IsResponse
<1>2. ~Reset
  BY DEF Reset, NoAnswer, IsResponse
<1> QED BY <1>1, <1>2 DEF OthersStep, BoardAlone, WindowTick, deviceVars

\* Presses are never taken back.
LEMMA PressesStay ==
    ASSUME BoardInv, OthersStep
    PROVE  resets > 0 => resets' > 0
<1>1. resets \in Nat
  BY DEF BoardInv, BoardTyped, DeviceTypeOK
<1>2. ASSUME NEW f, Handle(f) PROVE resets' = resets
  BY <1>2 DEF Handle
<1> QED BY <1>1, <1>2
        DEF OthersStep, Reads, Answered, BoardAlone, Reset, WindowTick, deviceVars

LEMMA OthersKeepLoop ==
    ASSUME IsFiniteSet(Ip), Bank # {}, LoopInv, OthersStep, n' \in Nat
    PROVE  LoopInv'
<1>1. BoardInv' /\ everHot \subseteq everHot' /\ (resets > 0 => resets' > 0)
  BY OthersKeepBoard, PressesStay DEF LoopInv
<1>2. UNCHANGED loopVars
  BY DEF OthersStep
<1>3. ASSUME pc = "epoch_rx", IsResponse(answer')
      PROVE  \E m \in Nat : answer' = EpochIs(m)
  BY <1>3, EpochOnItsWay DEF LoopInv
<1> QED BY <1>1, <1>2, <1>3 DEF LoopInv, loopVars, OnlyHotSourcesPushed, HotOrCut

LEMMA LoopKeepsLoop ==
    ASSUME IsFiniteSet(Ip), Bank # {}, LoopInv, LoopStep
    PROVE  LoopInv'
<1>0. BoardInv /\ n' \in Nat /\ target \in Ip
  BY DEF LoopInv, LoopStep
<1> DEFINE Keeps == everHot' = everHot /\ (resets > 0 => resets' > 0)
<1>1. \A f \in Frames : (f.op = ClassifyOp => f.src \in Traffic) /\ Transfer(f)
          => BoardInv' /\ Keeps
  BY <1>0, FrameKeepsBoard, TransferHandled DEF BoardInv, BoardTyped, DeviceTypeOK
<1> USE DEF LoopInv, OnlyHotSourcesPushed, HotOrCut
<1>2. CASE AskEpoch
  <2>1. BoardInv' /\ Keeps
    BY <1>1, <1>2, BusFrames DEF AskEpoch
  <2>2. answer' \in EpochAnswers
    BY <1>0, <1>2, TransferTyped, BusFrames DEF AskEpoch, BoardInv
  <2>3. IsResponse(answer') => \E m \in Nat : answer' = EpochIs(m)
    BY <2>2 DEF EpochAnswers, NoAnswer, IsResponse
  <2> QED BY <1>0, <1>2, <2>1, <2>3 DEF AskEpoch
<1>3. CASE ReadEpoch
  <2>1. BoardInv' /\ Keeps
    BY <1>1, <1>3, BusFrames, ReceiveTransfers DEF ReadEpoch
  <2>2. ASSUME NEW rx \in Torn(answer), IsResponse(rx)
        PROVE  DecodedEpoch(rx) \in Nat
    <3>1. IsResponse(answer)
      BY <2>2 DEF Torn, NoAnswer, Verdict, IsResponse
    <3>2. answer \in EpochAnswers
      BY <1>3, <3>1 DEF ReadEpoch, EpochAnswers
    <3>3. rx \in EpochAnswers
      BY <3>2, TornEpoch
    <3> QED BY <2>2, <3>3 DEF EpochAnswers, NoAnswer, EpochIs, IsResponse,
                              DecodedEpoch
  <2> QED BY <1>0, <1>3, <2>1, <2>2 DEF ReadEpoch
<1>4. CASE AskSnapshot
  <2>1. BoardInv' /\ Keeps
    BY <1>1, <1>4, BusFrames DEF AskSnapshot
  <2> QED BY <1>0, <1>4, <2>1 DEF AskSnapshot
<1>5. CASE ReadSnapshot
  <2> PICK rx \in Torn(answer) :
         /\ Receive(FlushFrame, rx)
         /\ \/ /\ WantsPush(DecodedSnapshot(rx)) /\ pc' = "push"
               /\ target' = DecodedSnapshot(rx).key
            \/ pc' = "sleep" /\ target' = target
    BY <1>5 DEF ReadSnapshot
  <2>1. BoardInv' /\ Keeps
    BY <1>1, BusFrames, ReceiveTransfers
  <2> DEFINE s == DecodedSnapshot(rx)
  <2>2. pc' \in {"push", "sleep"} /\ UNCHANGED <<rule_epoch, seen>>
    BY <1>5 DEF ReadSnapshot
  <2>3. CASE WantsPush(s) /\ target' = s.key
    <3>1. s.count >= Trigger
      BY <2>3 DEF WantsPush
    <3>2. HotOrCut(s.key)'
      BY <1>0, <3>1, ReceiveHot DEF BoardInv
    <3>3. s.key \in Ip
      BY <1>0, TornTyped, DecodedTyped DEF BoardInv, BoardTyped, TopTalker
    <3> HIDE DEF s
    <3> QED BY <1>0, <2>1, <2>2, <2>3, <3>2, <3>3
  <2>4. CASE pc' = "sleep" /\ target' = target
    BY <1>0, <2>1, <2>2, <2>4
  <2> QED BY <2>3, <2>4
<1>6. CASE PushRule
  <2>1. BoardInv' /\ Keeps
    BY <1>0, <1>1, <1>6, BusFrames DEF PushRule
  <2> QED BY <1>0, <1>6, <2>1 DEF PushRule
<1>7. CASE ConsumeAck
  <2>1. BoardInv' /\ Keeps
    BY <1>1, <1>7, BusFrames DEF ConsumeAck
  <2> QED BY <1>0, <1>7, <2>1 DEF ConsumeAck
<1>8. CASE WakeUp
  <2>1. BoardInv'
    BY <1>0, <1>8 DEF WakeUp, deviceVars, BoardInv, BoardTyped, BoardHot,
                      NamesIn, DeviceTypeOK, WasHot
  <2> QED BY <1>0, <1>8, <2>1 DEF WakeUp, deviceVars
<1> QED BY <1>2, <1>3, <1>4, <1>5, <1>6, <1>7, <1>8 DEF LoopStep, Step

LEMMA LoopInit == ASSUME BusInit PROVE LoopInv
<1>1. BoardInv /\ answer = NoAnswer
  BY BoardInit, DeviceInitTyped DEF BusInit
<1> QED BY <1>1, IpAssumption
        DEF BusInit, LoopInv, OnlyHotSourcesPushed, NoAnswer, IsResponse

LEMMA LoopStepInv ==
    ASSUME IsFiniteSet(Ip), Bank # {}, LoopInv, [BusNext]_busVars
    PROVE  LoopInv'
<1>1. n' \in Nat /\ (LoopStep \/ OthersStep)
  BY FramesCounted, NotTheLoop DEF LoopInv
<1> QED BY <1>1, OthersKeepLoop, LoopKeepsLoop

\* However the frames of the processes interleave, no verdict, no ack and no
\* answer to somebody else's question makes closed_loop.py push a rule
\* against a source that no completed window had at the trigger.  A press of
\* btnC can, but the source is then the beginning of one that a window had.
THEOREM BusHotPushed ==
    ASSUME IsFiniteSet(Ip), Bank # {}
    PROVE  BusSpec => []OnlyHotSourcesPushed
<1>1. LoopInv /\ [BusNext]_busVars => LoopInv'
  BY LoopStepInv
<1>2. LoopInv => OnlyHotSourcesPushed
  BY DEF LoopInv
<1> QED BY <1>1, <1>2, LoopInit, PTL DEF BusSpec

(***************************************************************************)
(* The rules it has pushed                                                  *)
(***************************************************************************)
\* Of the sources that send, no two share a rule index.
IndexesApart == \A i, j \in Traffic : RuleHash[i] = RuleHash[j] => i = j

\* The board has not been reset: the register is what closed_loop.py has
\* read, and what it has sent under it is in the store.
Running ==
    /\ epoch = FirstEpoch
    /\ pc = "epoch_rx" /\ IsResponse(answer) => answer = EpochIs(FirstEpoch)
    /\ pc \in {"poll", "poll_rx", "push", "ack", "sleep"} => rule_epoch = FirstEpoch
    /\ target \in Traffic /\ seen \subseteq Traffic
    /\ pc = "ack" => Blocked(target)
    /\ \A ip \in seen : Blocked(ip)

\* The demo, which pushes a rule of its own under epoch 0, runs alone.
StayInv ==
    /\ LoopInv
    /\ tool = "loop_demo" => pc = "off"
    /\ pc = "off" => seen = {}
    /\ resets = 0 => Running

LEMMA ReadsKeepRules ==
    ASSUME Reads
    PROVE  UNCHANGED <<rules, epoch, resets>>
<1>1. ASSUME NEW f \in {SnapFrame, EpochFrame} \cup {PacketFrame(ip) : ip \in Traffic},
             Handle(f)
      PROVE  UNCHANGED <<rules, epoch, resets>>
  <2>1. f.op # RuleWriteOp
    BY DEF SnapFrame, EpochFrame, PacketFrame, SnapshotOp, ThreshReadOp,
           ClassifyOp, RuleWriteOp
  <2> QED BY <1>1, <2>1, HandleReads
<1> QED BY <1>1 DEF Reads, Answered

LEMMA OthersKeepRunning ==
    ASSUME StayInv, OthersStep, resets' = 0
    PROVE  resets = 0 /\ Running'
<1>0. resets \in Nat
  BY DEF StayInv, LoopInv, BoardInv, BoardTyped, DeviceTypeOK
<1>1. UNCHANGED <<pc, rule_epoch, seen, target, tool>>
  BY DEF OthersStep, loopVars
<1>2. ~Reset
  BY <1>0 DEF Reset
<1>3. CASE UNCHANGED <<rules, epoch, resets>>
  <2>1. Running
    BY <1>3 DEF StayInv
  <2>2. pc = "epoch_rx" /\ IsResponse(answer') => answer' = EpochIs(FirstEpoch)
    BY <2>1, EpochOnItsWay DEF Running
  <2>3. \A ip : Blocked(ip)' = Blocked(ip)
    BY <1>3, StillBlocked
  <2>4. Blocked(target)' = Blocked(target)
    BY <1>1, <1>3 DEF Blocked
  <2> QED BY <1>1, <1>3, <2>1, <2>2, <2>3, <2>4 DEF Running
<1>4. CASE tool = "loop_demo" /\ Handle(RuleFrame(FLOOD_SRC, 0))
  <2>1. pc = "off" /\ seen = {}
    BY <1>4 DEF StayInv
  <2>2. UNCHANGED <<epoch, resets>>
    BY <1>4, HandleRule, ToolAssumption
       DEF StayInv, LoopInv, BoardInv, BoardTyped, DeviceTypeOK
  <2> QED BY <1>1, <2>1, <2>2 DEF StayInv, Running
<1> QED BY <1>2, <1>3, <1>4, ReadsKeepRules
        DEF OthersStep, BoardAlone, WindowTick, deviceVars

LEMMA LoopKeepsRunning ==
    ASSUME IndexesApart, StayInv, LoopStep, resets' = 0
    PROVE  resets = 0 /\ Running'
<1>0. resets \in Nat /\ DOMAIN rules = RuleIdx /\ target \in Ip /\ BoardInv
  BY DEF StayInv, LoopInv, BoardInv, BoardTyped, DeviceTypeOK
<1>a. ASSUME NEW f, NEW rx, Receive(f, rx) PROVE Transfer(f) /\ rx = answer
  BY <1>0, <1>a DEF Receive, Transfer, Reset
<1>1. ASSUME NEW f, Transfer(f), f.op # RuleWriteOp
      PROVE  /\ resets = 0 /\ UNCHANGED <<rules, epoch>>
             /\ f.op = ThreshReadOp => answer' = EpochIs(epoch)
  BY <1>0, <1>1, TransferHandled, HandleReads
<1>2. ASSUME UNCHANGED <<rules, epoch>>
      PROVE  \A ip : Blocked(ip)' = Blocked(ip)
  BY <1>2, StillBlocked
<1>3. ASSUME UNCHANGED <<rules, epoch, target>>
      PROVE  Blocked(target)' = Blocked(target)
  BY <1>3 DEF Blocked
<1>4. /\ FlushFrame.op # RuleWriteOp /\ SnapFrame.op # RuleWriteOp
      /\ EpochFrame.op # RuleWriteOp /\ EpochFrame.op = ThreshReadOp
  BY DEF FlushFrame, PacketFrame, SnapFrame, EpochFrame, ClassifyOp, SnapshotOp,
         ThreshReadOp, RuleWriteOp
<1>5. CASE AskEpoch
  <2>1. resets = 0 /\ UNCHANGED <<rules, epoch>> /\ answer' = EpochIs(epoch)
    BY <1>1, <1>4, <1>5 DEF AskEpoch
  <2> QED BY <1>2, <1>5, <2>1 DEF AskEpoch, StayInv, Running
<1>6. CASE ReadEpoch
  <2>1. resets = 0 /\ UNCHANGED <<rules, epoch>>
    BY <1>1, <1>4, <1>6, <1>a DEF ReadEpoch
  <2>2. IsResponse(answer) => DecodedEpoch(answer) = FirstEpoch
    BY <1>6, <2>1 DEF ReadEpoch, StayInv, Running, EpochIs, DecodedEpoch
  <2>3. pc' = "poll" => rule_epoch' = FirstEpoch
    BY <1>6, <1>a, <2>2 DEF ReadEpoch
  <2> QED BY <1>2, <1>6, <2>1, <2>3 DEF ReadEpoch, StayInv, Running
<1>7. CASE AskSnapshot
  <2>1. resets = 0 /\ UNCHANGED <<rules, epoch>>
    BY <1>1, <1>4, <1>7 DEF AskSnapshot
  <2> QED BY <1>2, <1>7, <2>1 DEF AskSnapshot, StayInv, Running
<1>8. CASE ReadSnapshot
  <2>1. resets = 0 /\ UNCHANGED <<rules, epoch>>
    BY <1>1, <1>4, <1>8, <1>a DEF ReadSnapshot
  <2>2. target' \in Traffic
    <3>1. CASE target' = target
      BY <2>1, <3>1 DEF StayInv, Running
    <3>2. CASE target' = DecodedSnapshot(answer).key
      BY <1>0, <3>2, TrafficIsIp DEF BoardInv, NamesIn, DecodedSnapshot, NoTop
    <3> QED BY <1>8, <1>a, <3>1, <3>2 DEF ReadSnapshot
  <2> QED BY <1>2, <1>8, <2>1, <2>2 DEF ReadSnapshot, StayInv, Running
<1>9. CASE PushRule
  <2>1. resets = 0 /\ Handle(RuleFrame(target, rule_epoch)) /\ target' = target
    BY <1>0, <1>9, TransferHandled DEF PushRule
  <2>2. rule_epoch = epoch /\ epoch = FirstEpoch
    BY <1>9, <2>1 DEF PushRule, StayInv, Running
  <2>3. /\ UNCHANGED epoch
        /\ rules'[RuleHash[target]] = [src |-> target, epoch |-> rule_epoch]
        /\ \A i \in RuleIdx \ {RuleHash[target]} : rules'[i] = rules[i]
    BY <1>0, <2>1, HandleRule, TrafficIsIp
  <2>4. Blocked(target)'
    BY <2>1, <2>2, <2>3 DEF Blocked
  <2>5. ASSUME NEW ip \in seen PROVE Blocked(ip)'
    <3>1. CASE ip = target
      BY <2>2, <2>3, <3>1 DEF Blocked
    <3>2. CASE ip # target
      <4>1. RuleHash[ip] \in RuleIdx \ {RuleHash[target]}
        BY <2>1, <3>2, TrafficIsIp DEF IndexesApart, RuleIdx, StayInv, Running
      <4>2. Blocked(ip)
        BY <2>1 DEF StayInv, Running
      <4> QED BY <2>3, <4>1, <4>2 DEF Blocked
    <3> QED BY <3>1, <3>2
  <2> QED BY <1>9, <2>1, <2>2, <2>3, <2>4, <2>5 DEF PushRule, StayInv, Running
<1>10. CASE ConsumeAck
  <2>1. resets = 0 /\ UNCHANGED <<rules, epoch>>
    BY <1>1, <1>4, <1>10 DEF ConsumeAck
  <2>2. Running /\ pc = "ack"
    BY <1>10, <2>1 DEF ConsumeAck, StayInv
  <2>3. \A ip \in seen' : Blocked(ip)
    BY <1>10, <2>2 DEF ConsumeAck, Running
  <2>4. \A ip \in seen' : Blocked(ip)'
    BY <1>2, <2>1, <2>3
  <2> QED BY <1>10, <2>1, <2>2, <2>4 DEF ConsumeAck, Running
<1>11. CASE WakeUp
  <2>1. resets = 0 /\ UNCHANGED <<rules, epoch>>
    BY <1>11 DEF WakeUp, deviceVars
  <2> QED BY <1>2, <1>11, <2>1 DEF WakeUp, StayInv, Running
<1> QED BY <1>5, <1>6, <1>7, <1>8, <1>9, <1>10, <1>11 DEF LoopStep, Step

LEMMA StayStep ==
    ASSUME IsFiniteSet(Ip), Bank # {}, IndexesApart, StayInv, [BusNext]_busVars
    PROVE  StayInv'
<1>1. LoopInv' /\ (LoopStep \/ OthersStep)
  BY LoopStepInv, NotTheLoop DEF StayInv, LoopInv
<1>2. resets' = 0 => Running'
  BY <1>1, OthersKeepRunning, LoopKeepsRunning
<1>3. CASE OthersStep
  BY <1>1, <1>2, <1>3 DEF StayInv, OthersStep, loopVars
<1>4. CASE LoopStep
  <2>1. pc # "off" /\ pc' # "off" /\ tool' = tool
    BY <1>4 DEF LoopStep, Step, AskEpoch, ReadEpoch, AskSnapshot, ReadSnapshot,
                PushRule, ConsumeAck, WakeUp
  <2> QED BY <1>1, <1>2, <2>1 DEF StayInv
<1> QED BY <1>1, <1>3, <1>4

\* "The FPGA then flips hit_mask bit 3 on subsequent classify frames for that
\* source": while the board runs, no frame of another process displaces a
\* pushed rule or makes the loop push it under an epoch that is not the
\* register's, if the sources that send have rule indexes of their own.
THEOREM BusRulesStay ==
    ASSUME IsFiniteSet(Ip), Bank # {}, IndexesApart
    PROVE  BusSpec => []PushedRulesStay
<1>1. BusInit => StayInv
  BY LoopInit, TrafficIsIp DEF BusInit, DeviceInit, StayInv, Running
<1>2. StayInv /\ [BusNext]_busVars => StayInv'
  BY StayStep
<1>3. StayInv => PushedRulesStay
  BY DEF StayInv, Running, PushedRulesStay
<1> QED BY <1>1, <1>2, <1>3, PTL DEF BusSpec

\* The store keeps its places, and the tally its sources.
PlacesOK == DOMAIN rules = RuleIdx /\ DOMAIN sent = Ip

LEMMA TransferKeepsPlaces ==
    ASSUME PlacesOK, NEW f, Transfer(f)
    PROVE  PlacesOK'
BY DEF PlacesOK, Transfer, Reset, Handle, Classified, Silence

LEMMA BusKeepsPlaces ==
    ASSUME PlacesOK, [BusNext]_busVars
    PROVE  PlacesOK'
<1>1. CASE LoopStep
  BY <1>1, TransferKeepsPlaces, ReceiveTransfers
     DEF LoopStep, Step, AskEpoch, ReadEpoch, AskSnapshot, ReadSnapshot,
         PushRule, ConsumeAck, WakeUp, deviceVars, PlacesOK
<1>2. CASE TelemetryCheck
  BY <1>2, TransferKeepsPlaces, ReceiveTransfers
     DEF TelemetryCheck, PlanTransfer, Query, Answered, Reset, PlacesOK,
         Silence
<1>3. CASE Issue
  BY <1>3, TransferKeepsPlaces DEF Issue, Harmonic, Answered, Reset, PlacesOK,
                                  Silence
<1>4. CASE LoopDemo
  BY <1>4, TransferKeepsPlaces, ReceiveTransfers
     DEF LoopDemo, Flood, DemoAsks, DemoReads, DemoPushes, DemoChecksAck,
         DemoSends, DemoJudges
<1>5. CASE \E ip \in Others : Show(ip) \/ OtherSends(ip)
  BY <1>5, TransferKeepsPlaces, ReceiveTransfers DEF Show, OtherSends
<1>6. CASE BusTick \/ BusReset \/ UNCHANGED busVars
  BY <1>6 DEF BusTick, WindowTick, BusReset, Reset, busVars, vars, deviceVars,
              PlacesOK, Silence
<1> QED BY <1>1, <1>2, <1>3, <1>4, <1>5, <1>6 DEF BusNext, ToolStep, Sender

(***************************************************************************)
(* The step-4 demo                                                          *)
(***************************************************************************)
DemoRule == rules[RuleHash[FLOOD_SRC]] = [src |-> FLOOD_SRC, epoch |-> 0]

\* Only its own ack says that the rule is in the store, and only the verdict
\* on its own frame that the register is 0.
DemoKnows ==
    /\ pc = "off"
    /\ at \in {"again", "verdict", "passed"} => DemoRule
    /\ at = "ack" /\ answer = Acked => DemoRule
    /\ at = "verdict" /\ ShowsRule(answer) => epoch = 0
    /\ at = "passed" => epoch = 0

DemoInv ==
    /\ PlacesOK
    /\ tool # "loop_demo" => at \in {"ask", "read"}
    /\ tool = "loop_demo" => DemoKnows

\* btnC: the rules stay, the register becomes 0, and no answer is left.
LEMMA ResetKeepsDemo ==
    ASSUME DemoKnows, Reset, UNCHANGED pc,
           at' \in {"again", "verdict", "passed"}
             => at \in {"again", "verdict", "passed"}
    PROVE  DemoKnows'
<1>1. UNCHANGED rules /\ epoch' = 0 /\ answer'.magic = 0
  BY DEF Reset, NoAnswer
<1>2. answer' # Acked /\ ~ShowsRule(answer')
  BY <1>1 DEF Acked, ShowsRule, IsVerdict
<1>3. at' \in {"again", "verdict", "passed"} => DemoRule'
  BY <1>1 DEF DemoKnows, DemoRule
<1> QED BY <1>1, <1>2, <1>3 DEF DemoKnows

\* An answer cut short is no ack unless the whole is one,
LEMMA TornAck == ASSUME Acked \in Torn(answer) PROVE answer = Acked
<1>1. \A ip, m : Acked # NoAnswer /\ Acked # Verdict(ip, m)
  BY DEF Acked, NoAnswer, Verdict
<1>2. CASE IsResponse(answer) /\ Acked \in CutResponse(answer)
  BY <1>2 DEF CutResponse, Acked, Telemetry, EpochIs, CmsAnswer, SnapshotOp,
              ThreshReadOp, CmsQueryOp, RuleWriteOp, BloomWriteOp, ClassifyOp
<1> QED BY <1>1, <1>2 DEF Torn

\* and does not show the rule bit unless the whole does.
LEMMA TornRule ==
    ASSUME NEW rx \in Torn(answer), ShowsRule(rx)
    PROVE  ShowsRule(answer)
<1>1. rx # NoAnswer /\ rx # Verdict(answer.src, FALSE)
  BY DEF ShowsRule, IsVerdict, NoAnswer, Verdict
<1>2. ASSUME rx \in CutResponse(answer) PROVE rx.magic = 90
  BY <1>2 DEF CutResponse, Acked, Telemetry, EpochIs, CmsAnswer, SnapshotOp,
              ThreshReadOp, CmsQueryOp, RuleWriteOp, BloomWriteOp, ClassifyOp
<1>3. rx.magic = 165
  BY DEF ShowsRule, IsVerdict
<1>4. \/ rx = answer \/ rx = NoAnswer \/ rx = Verdict(answer.src, FALSE)
      \/ rx \in CutResponse(answer)
  BY DEF Torn
<1>5. rx = answer
  <2>1. rx \notin CutResponse(answer)
    BY <1>2, <1>3
  <2> QED BY <1>1, <1>4, <2>1, Zenon
<1> QED BY <1>5

LEMMA DemoStep ==
    ASSUME PlacesOK, DemoKnows, LoopDemo, UNCHANGED pc
    PROVE  DemoKnows'
<1>1. ASSUME NEW f, Handle(f), f.op # RuleWriteOp
      PROVE  /\ DemoRule' = DemoRule /\ epoch' = epoch
             /\ f.op = ClassifyOp => answer' = Verdict(f.src, Blocked(f.src))
             /\ f.op \in {ClassifyOp, SnapshotOp} => answer' # Acked
  <2>1. /\ UNCHANGED <<rules, epoch>>
        /\ f.op = ClassifyOp => answer' = Verdict(f.src, Blocked(f.src))
        /\ f.op = SnapshotOp => answer' = Telemetry(last)
    BY <1>1, HandleReads
  <2>2. f.op \in {ClassifyOp, SnapshotOp} => answer' # Acked
    BY <2>1 DEF Verdict, Telemetry, Acked, ClassifyOp, SnapshotOp, RuleWriteOp
  <2> QED BY <2>1, <2>2 DEF DemoRule
<1>2. \A ip : /\ PacketFrame(ip).op = ClassifyOp /\ PacketFrame(ip).src = ip
              /\ SnapFrame.op = SnapshotOp /\ ClassifyOp # RuleWriteOp
              /\ SnapshotOp # RuleWriteOp
  BY DEF PacketFrame, SnapFrame, ClassifyOp, SnapshotOp, RuleWriteOp
<1>3. CASE Flood
  <2>1. at' \in {"flood", "ask"}
    BY <1>3 DEF Flood, DemoGoes
  <2> QED BY <2>1 DEF DemoKnows
<1>4. CASE DemoAsks \/ DemoReads
  <2>1. at' \in {"read", "ask", "push", "failed"}
    BY <1>4 DEF DemoAsks, DemoReads, DemoGoes
  <2> QED BY <2>1 DEF DemoKnows
<1>5. CASE DemoPushes
  <2>1. at' = "ack"
    BY <1>5 DEF DemoPushes, DemoGoes
  <2>2. CASE Handle(RuleFrame(FLOOD_SRC, 0))
    <3>1. DemoRule'
      BY <2>2, HandleRule, ToolAssumption DEF DemoRule, PlacesOK
    <3> QED BY <2>1, <3>1 DEF DemoKnows
  <2>3. CASE Reset
    BY <2>1, <2>3, ResetKeepsDemo
  <2> QED BY <1>5, <2>2, <2>3 DEF DemoPushes, Transfer
<1>6. CASE DemoChecksAck
  <2>1. at = "ack" /\ at' \in {"again", "failed"}
        /\ (at' = "again" => answer = Acked)
    BY <1>6, TornAck DEF DemoChecksAck, DemoGoes
  <2>2. DemoRule' = DemoRule
    BY <1>1, <1>2, <1>6, ReceiveTransfers
       DEF DemoChecksAck, Transfer, FlushFrame, Reset, DemoRule
  <2> QED BY <2>1, <2>2 DEF DemoKnows
<1>7. CASE DemoSends
  <2>1. at = "again" /\ at' = "verdict"
    BY <1>7 DEF DemoSends, DemoGoes
  <2>2. CASE Handle(PacketFrame(FLOOD_SRC))
    <3>1. /\ DemoRule' = DemoRule /\ epoch' = epoch
          /\ answer' = Verdict(FLOOD_SRC, Blocked(FLOOD_SRC))
      BY <1>1, <1>2, <2>2
    <3>2. DemoRule
      BY <2>1 DEF DemoKnows
    <3>3. ShowsRule(answer') => Blocked(FLOOD_SRC)
      BY <3>1 DEF ShowsRule, Verdict
    <3>4. Blocked(FLOOD_SRC) => epoch = 0
      BY <3>2 DEF DemoRule, Blocked
    <3> QED BY <2>1, <3>1, <3>2, <3>3, <3>4 DEF DemoKnows
  <2>3. CASE Reset
    BY <2>1, <2>3, ResetKeepsDemo
  <2> QED BY <1>7, <2>2, <2>3 DEF DemoSends, Transfer
<1>8. CASE DemoJudges
  <2>1. at = "verdict" /\ at' \in {"passed", "failed"}
        /\ (at' = "passed" => ShowsRule(answer))
    BY <1>8, TornRule DEF DemoJudges, DemoGoes
  <2>2. DemoRule' = DemoRule /\ (epoch' = epoch \/ epoch' = 0)
    BY <1>1, <1>2, <1>8, ReceiveTransfers
       DEF DemoJudges, Transfer, FlushFrame, Reset, DemoRule
  <2> QED BY <2>1, <2>2 DEF DemoKnows
<1> QED BY <1>3, <1>4, <1>5, <1>6, <1>7, <1>8 DEF LoopDemo

LEMMA DemoInvStep ==
    ASSUME DemoInv, [BusNext]_busVars PROVE DemoInv'
<1>1. PlacesOK'
  BY BusKeepsPlaces DEF DemoInv
<1>2. CASE ToolStep
  <2>1. CASE TelemetryCheck \/ Issue \/ \E ip \in Others : Show(ip)
    <3>1. tool' = tool /\ tool # "loop_demo" /\ at' \in {at, "ask", "read"}
      BY <2>1 DEF TelemetryCheck, Issue, Show
    <3> QED BY <1>1, <3>1 DEF DemoInv
  <2>2. CASE tool = "loop_demo" /\ LoopDemo
    <3>1. tool' = tool
      BY <2>2 DEF LoopDemo, Flood, DemoAsks, DemoReads, DemoPushes, DemoChecksAck,
                  DemoSends, DemoJudges, DemoGoes
    <3>2. UNCHANGED pc
      BY <1>2 DEF ToolStep, loopVars
    <3> QED BY <1>1, <2>2, <3>1, <3>2, DemoStep DEF DemoInv
  <2> QED BY <1>2, <2>1, <2>2 DEF ToolStep
<1>3. CASE Sender
  BY <1>1, <1>3 DEF Sender, toolVars, DemoInv
<1>4. CASE LoopStep
  <2>1. pc # "off" /\ UNCHANGED <<tool, at>>
    BY <1>4 DEF LoopStep, Step, AskEpoch, ReadEpoch, AskSnapshot, ReadSnapshot,
                PushRule, ConsumeAck, WakeUp
  <2> QED BY <1>1, <2>1 DEF DemoInv, DemoKnows
<1>5. CASE BusTick
  <2>1. UNCHANGED <<tool, at, pc, rules, epoch, answer>>
    BY <1>5 DEF BusTick, WindowTick, loopVars
  <2> QED BY <1>1, <2>1 DEF DemoInv, DemoKnows, DemoRule
<1>6. CASE BusReset
  <2>1. UNCHANGED <<tool, at, pc>> /\ Reset
    BY <1>6 DEF BusReset, loopVars, toolVars
  <2> QED BY <1>1, <2>1, ResetKeepsDemo DEF DemoInv
<1>7. CASE UNCHANGED busVars
  BY <1>1, <1>7 DEF busVars, vars, deviceVars, loopVars, toolVars, DemoInv, DemoKnows,
              DemoRule
<1> QED BY <1>2, <1>3, <1>4, <1>5, <1>6, <1>7 DEF BusNext

\* silicon_loop_demo.py: PASS is never a guess.  Wherever btnC is pressed,
\* whatever epoch the register held, once the script has printed it the board
\* blocks the source.
THEOREM DemoPassBlocks == BusSpec => []DemoPassMeansBlocked
<1>1. BusInit => DemoInv
  BY DEF BusInit, DeviceInit, DemoInv, DemoKnows, PlacesOK, Silence
<1>2. DemoInv /\ [BusNext]_busVars => DemoInv'
  BY DemoInvStep
<1>3. DemoInv => DemoPassMeansBlocked
  BY DEF DemoInv, DemoKnows, DemoRule, Blocked, DemoPassMeansBlocked
<1> QED BY <1>1, <1>2, <1>3, PTL DEF BusSpec

(***************************************************************************)
(* The live view                                                            *)
(***************************************************************************)
\* The board not reset, the answer on its way is the verdict on the packet
\* of the last row, and every row but the first has counted one.
RowsInv ==
    tool = "viewer" =>
        /\ pc = "off" /\ n \in Nat /\ resets \in Nat
        /\ resets = 0 =>
            IF n = 0 THEN answer = NoAnswer /\ stats = 0 /\ row.src = ZeroIp
            ELSE /\ IsVerdict(answer) /\ answer.src = row.src
                 /\ stats = n - 1 /\ row.shows = row.above

LEMMA RowsStep ==
    ASSUME RowsInv, [BusNext]_busVars, tool = "viewer"
    PROVE  RowsInv'
<1> USE DEF RowsInv
<1>1. CASE \E ip \in Others : Show(ip) /\ UNCHANGED loopVars
  <2> PICK ip \in Others : Show(ip) /\ UNCHANGED loopVars
    BY <1>1
  <2> PICK rx \in Torn(answer) :
         /\ Receive(PacketFrame(ip), rx) /\ stats' = Tallied(rx)
         /\ row' = [src |-> ip, shows |-> IF IsVerdict(rx) THEN rx.src ELSE ZeroIp,
                    above |-> row.src]
    BY DEF Show
  <2>1. n' = n + 1 /\ tool' = tool /\ pc' = pc
    BY DEF Show, loopVars
  <2>2. CASE Reset
    <3>1. resets' \in Nat /\ resets' # 0
      BY <2>2 DEF Reset
    <3> QED BY <2>1, <3>1
  <2>3. CASE Handle(PacketFrame(ip)) /\ rx = answer
    <3>1. resets' = resets /\ answer' = Verdict(ip, Blocked(ip))
      BY <2>3, HandleReads DEF PacketFrame, ClassifyOp, RuleWriteOp
    <3>2. IsVerdict(answer') /\ answer'.src = row'.src
      BY <3>1 DEF Verdict, IsVerdict
    <3>3. ASSUME resets = 0 PROVE stats' = n /\ row'.shows = row'.above
      <4>1. CASE n = 0
        <5>1. ~IsVerdict(answer)
          BY <3>3, <4>1 DEF NoAnswer, IsVerdict
        <5> QED BY <2>3, <3>3, <4>1, <5>1 DEF Tallied
      <4>2. CASE n # 0
        BY <2>3, <3>3, <4>2 DEF Tallied
      <4> QED BY <4>1, <4>2
    <3> QED BY <2>1, <3>1, <3>2, <3>3
  <2> QED BY <2>2, <2>3 DEF Receive
<1>2. CASE BusTick
  BY <1>2 DEF BusTick, WindowTick, loopVars
<1>3. CASE BusReset
  <2>1. resets' \in Nat /\ resets' # 0 /\ UNCHANGED <<pc, tool, n>>
    BY <1>3 DEF BusReset, Reset, loopVars, toolVars
  <2> QED BY <2>1
<1>4. CASE UNCHANGED busVars
  BY <1>4 DEF busVars, vars, deviceVars, loopVars, toolVars
<1>5. CASE LoopStep
  BY <1>5 DEF LoopStep, Step, AskEpoch, ReadEpoch, AskSnapshot, ReadSnapshot,
              PushRule, ConsumeAck, WakeUp
<1> QED BY <1>1, <1>2, <1>3, <1>4, <1>5
        DEF BusNext, ToolStep, Sender, TelemetryCheck, Issue

\* No step makes another script the viewer.
LEMMA ToolStays ==
    ASSUME [BusNext]_busVars PROVE tool' = tool
<1>1. CASE LoopDemo
  BY <1>1 DEF LoopDemo, Flood, DemoAsks, DemoReads, DemoPushes, DemoChecksAck,
              DemoSends, DemoJudges, DemoGoes
<1>2. CASE TelemetryCheck \/ Issue \/ \E ip \in Others : Show(ip)
  BY <1>2 DEF TelemetryCheck, Issue, Show
<1>3. CASE Sender \/ LoopStep \/ BusTick \/ BusReset \/ UNCHANGED busVars
  BY <1>3 DEF Sender, LoopStep, BusTick, BusReset, toolVars, busVars
<1> QED BY <1>1, <1>2, <1>3 DEF BusNext, ToolStep

\* "the 32 bytes read back carry the verdict for the PREVIOUS frame": on a
\* board that keeps running each row shows the verdict of the row above, and
\* the statistics miss the last packet and no other.
THEOREM RowsAreOneBehind == BusSpec => []RowsLagByOne
<1>1. BusInit => RowsInv
  BY DEF BusInit, DeviceInit, RowsInv
<1>2. RowsInv /\ [BusNext]_busVars => RowsInv'
  <2> SUFFICES ASSUME RowsInv, [BusNext]_busVars PROVE RowsInv'
    OBVIOUS
  <2>1. CASE tool = "viewer"
    BY <2>1, RowsStep
  <2>2. CASE tool # "viewer"
    BY <2>2, ToolStays DEF RowsInv
  <2> QED BY <2>1, <2>2
<1>3. RowsInv => RowsLagByOne
  BY DEF RowsInv, RowsLagByOne
<1> QED BY <1>1, <1>2, <1>3, PTL DEF BusSpec

(***************************************************************************)
(* The telemetry check                                                      *)
(***************************************************************************)
\* The flush frames, packets of 0.0.0.0, share no column with a source that
\* the check asks for.
FlushApart ==
    \A i \in DOMAIN CMS_QUERIES, b \in Bank :
        CmsHash[b][CMS_QUERIES[i]] # CmsHash[b][ZeroIp]

\* Packets of a source among the first m of the stream, as the sketch counts.
InStream(m, ip) == AtMost(Cardinality({i \in 1 .. m : STREAM[i] = ip}), CountMax)

\* The open window holds the stream as far as it was sent, and flush frames.
StreamSent(k) ==
    \A ip \in Ip \ {ZeroIp} :
        sent[ip] = InStream(IF k <= Len(STREAM) THEN k ELSE Len(STREAM), ip)

LEMMA CountedTwice ==
    ASSUME NEW c \in Nat
    PROVE  AtMost(AtMost(c, CountMax) + 1, CountMax) = AtMost(c + 1, CountMax)
BY DeviceAssumption DEF AtMost

LEMMA StreamGrows ==
    ASSUME NEW k \in Nat, k + 1 <= Len(STREAM), NEW ip \in Ip
    PROVE  InStream(k + 1, ip) = IF STREAM[k + 1] = ip
                                 THEN AtMost(InStream(k, ip) + 1, CountMax)
                                 ELSE InStream(k, ip)
<1> DEFINE S == {i \in 1 .. k : STREAM[i] = ip}
           U == {i \in 1 .. k + 1 : STREAM[i] = ip}
<1>1. IsFiniteSet(1 .. k) /\ S \subseteq 1 .. k /\ k + 1 \notin S
  BY FS_Interval
<1>2. IsFiniteSet(S) /\ Cardinality(S) \in Nat
  BY <1>1, FS_Subset, FS_CardinalityType
<1>3. CASE STREAM[k + 1] = ip
  <2>1. U = S \cup {k + 1}
    BY <1>3
  <2>2. Cardinality(U) = Cardinality(S) + 1
    BY <1>1, <1>2, <2>1, FS_AddElement
  <2> HIDE DEF S, U
  <2>3. AtMost(AtMost(Cardinality(S), CountMax) + 1, CountMax)
          = AtMost(Cardinality(U), CountMax)
    BY <1>2, <2>2, CountedTwice
  <2> QED BY <1>3, <2>3 DEF InStream, S, U
<1>4. CASE STREAM[k + 1] # ip
  <2>1. U = S
    BY <1>4
  <2> QED BY <1>4, <2>1 DEF InStream
<1> QED BY <1>3, <1>4

\* An estimate looks at nothing but the columns of its source.
LEMMA EstimateLocal ==
    ASSUME NEW s, NEW t, NEW key,
           \A b \in Bank, x \in Ip : CmsHash[b][x] = CmsHash[b][key] => s[x] = t[x]
    PROVE  Estimate(s, key) = Estimate(t, key)
<1>1. ASSUME NEW b \in Bank PROVE Column(s, b, key) = Column(t, b, key)
  <2>1. {c \in Ip \X (1 .. CountMax) : /\ CmsHash[b][c[1]] = CmsHash[b][key]
                                       /\ c[2] <= s[c[1]]}
        = {c \in Ip \X (1 .. CountMax) : /\ CmsHash[b][c[1]] = CmsHash[b][key]
                                         /\ c[2] <= t[c[1]]}
    OBVIOUS
  <2> QED BY <2>1 DEF Column
<1>2. {Column(s, b, key) : b \in Bank} = {Column(t, b, key) : b \in Bank}
  BY <1>1
<1> QED BY <1>2 DEF Estimate

LEMMA StreamEstimate ==
    ASSUME FlushApart, NEW k \in Nat, k >= Len(STREAM), StreamSent(k),
           NEW i \in DOMAIN CMS_QUERIES
    PROVE  Estimate(sent, CMS_QUERIES[i]) = Golden(CMS_QUERIES[i])
<1> DEFINE tally == [ip \in Ip |->
       AtMost(Cardinality({j \in DOMAIN STREAM : STREAM[j] = ip}), CountMax)]
           key == CMS_QUERIES[i]
<1>1. Len(STREAM) \in Nat /\ DOMAIN STREAM = 1 .. Len(STREAM)
  BY ToolAssumption
<1>2. \A x \in Ip : tally[x] = InStream(Len(STREAM), x)
  BY <1>1 DEF InStream
<1>3. \A x \in Ip \ {ZeroIp} : sent[x] = InStream(Len(STREAM), x)
  BY <1>1 DEF StreamSent
<1>4. \A b \in Bank, x \in Ip : CmsHash[b][x] = CmsHash[b][key] => x # ZeroIp
  BY DEF FlushApart
<1> HIDE DEF tally
<1>5. Estimate(sent, key) = Estimate(tally, key)
  BY <1>2, <1>3, <1>4, EstimateLocal
<1> QED BY <1>5 DEF Golden, tally

\* The plan asks only after the stream and its flush, for what it lists.
LEMMA AsksLate ==
    ASSUME NEW k \in Nat, Asks(k)
    PROVE  k > Len(STREAM) + 1 /\ \E i \in DOMAIN CMS_QUERIES : AskedKey(k) = CMS_QUERIES[i]
<1> DEFINE d == k - Len(STREAM)
<1>1. /\ Len(STREAM) \in Nat /\ Len(CMS_QUERIES) \in Nat
      /\ DOMAIN CMS_QUERIES = 1 .. Len(CMS_QUERIES)
  BY ToolAssumption
<1>2. k > Len(STREAM) + 1 /\ d \in Nat /\ d >= 2 /\ d <= 1 + 2 * Len(CMS_QUERIES)
  BY <1>1 DEF Asks, PlanLen
<1>3. d % 2 = 0 /\ AskedKey(k) = CMS_QUERIES[d \div 2]
  BY DEF Asks, AskedKey
<1> HIDE DEF d
<1>4. d \div 2 \in 1 .. Len(CMS_QUERIES)
  BY <1>1, <1>2, <1>3
<1> QED BY <1>1, <1>2, <1>3, <1>4

\* Undisturbed since an empty window, what the check has sent is in that
\* window, and the answer on its way is the one it will look for.
CalmInv ==
    tool = "telemetry_check" =>
        /\ n \in Nat /\ resets \in Nat
        /\ n = 0 => ok /\ ~calm
        /\ n > 0 /\ calm /\ resets = 0 =>
              /\ ok /\ StreamSent(n)
              /\ Asks(n) => answer = CmsAnswer(AskedKey(n), Golden(AskedKey(n)))

LEMMA PlanStep ==
    ASSUME FlushApart, PlacesOK, CalmInv, TelemetryCheck, resets' = 0, calm'
    PROVE  /\ ok' /\ StreamSent(n)'
           /\ Asks(n') => answer' = CmsAnswer(AskedKey(n'), Golden(AskedKey(n')))
<1> DEFINE k == n + 1
           L == Len(STREAM)
<1> PICK rx \in Torn(answer) : PlanTransfer(k, rx) /\ ok' = (ok /\ Judged(k, rx))
  BY DEF TelemetryCheck
<1>1. /\ tool = "telemetry_check" /\ n' = k
      /\ calm' = IF n = 0 THEN sent = Silence ELSE calm
  BY DEF TelemetryCheck
<1>2. n \in Nat /\ k \in Nat /\ k - 1 = n /\ resets \in Nat
  BY <1>1 DEF CalmInv
<1>3. L \in Nat /\ DOMAIN STREAM = 1 .. L /\ \A i \in 1 .. L : STREAM[i] \in Ip
  BY ToolAssumption
<1>4. ~Reset
  BY <1>2 DEF Reset
<1>5. resets = 0 /\ rx = answer
  <2>1. CASE Answered(CmsAnswer(AskedKey(k), Estimate(sent, AskedKey(k)))) /\ rx = answer
    BY <2>1 DEF Answered
  <2>2. ASSUME NEW f, Receive(f, rx) PROVE resets = 0 /\ rx = answer
    BY <1>2, <1>4, <2>2, TransferHandled, ReceiveTransfers DEF Receive
  <2> QED BY <1>4, <2>1, <2>2 DEF PlanTransfer, Query
<1>6. StreamSent(n) /\ ok /\ Judged(k, rx)
  <2>1. CASE n = 0
    <3>1. sent = Silence
      BY <1>1, <2>1
    <3>2. \A ip \in Ip : InStream(0, ip) = 0
      <4> SUFFICES ASSUME NEW ip \in Ip PROVE InStream(0, ip) = 0
        OBVIOUS
      <4>1. {i \in 1 .. 0 : STREAM[i] = ip} = {}
        OBVIOUS
      <4> QED BY <4>1, FS_EmptySet, DeviceAssumption DEF InStream, AtMost
    <3>3. StreamSent(n)
      BY <1>3, <2>1, <3>1, <3>2 DEF StreamSent, Silence
    <3>4. ~Asks(k - 1)
      BY <1>2, <1>3, <2>1 DEF Asks
    <3> QED BY <1>1, <2>1, <3>3, <3>4 DEF CalmInv, Judged
  <2>2. CASE n # 0
    <3>1. calm /\ n > 0
      BY <1>1, <1>2, <2>2
    <3>2. ok /\ StreamSent(n)
          /\ (Asks(n) => answer = CmsAnswer(AskedKey(n), Golden(AskedKey(n))))
      BY <1>1, <1>5, <3>1 DEF CalmInv
    <3>3. Judged(k, rx)
      BY <1>2, <1>5, <3>2 DEF Judged
    <3> QED BY <3>2, <3>3
  <2> QED BY <2>1, <2>2
<1>7. n >= L => \A ip \in Ip \ {ZeroIp} : sent[ip] = InStream(L, ip)
  <2> SUFFICES ASSUME n >= L PROVE \A ip \in Ip \ {ZeroIp} : sent[ip] = InStream(L, ip)
    OBVIOUS
  <2>1. L = Len(STREAM)
    OBVIOUS
  <2> HIDE DEF L
  <2>2. n <= L => n = L
    BY <1>2, <1>3
  <2>3. (IF n <= L THEN n ELSE L) = L
    BY <2>2, Zenon
  <2> QED BY <1>6, <2>1, <2>3 DEF StreamSent
<1>8. ASSUME k > L, \A ip \in Ip \ {ZeroIp} : sent'[ip] = InStream(L, ip)
       PROVE  StreamSent(n)'
  <2>1. L = Len(STREAM) /\ n' = k
    BY <1>1
  <2> HIDE DEF L, k
  <2>2. ~(k <= L)
    BY <1>2, <1>3, <1>8
  <2>3. (IF k <= L THEN k ELSE L) = L
    BY <2>2, Zenon
  <2> QED BY <1>8, <2>1, <2>3 DEF StreamSent
<1>9. CASE k <= L
  <2>1. Transfer(PacketFrame(STREAM[k]))
    BY <1>9, ReceiveTransfers DEF PlanTransfer
  <2>2. sent' = [sent EXCEPT ![STREAM[k]] = AtMost(@ + 1, CountMax)]
    BY <1>4, <2>1 DEF Transfer, Handle, PacketFrame, Classified, ClassifyOp,
                      SnapshotOp, ThreshReadOp, RuleWriteOp
  <2>3. ASSUME NEW ip \in Ip \ {ZeroIp} PROVE sent'[ip] = InStream(k, ip)
    <3>1. sent[ip] = InStream(n, ip)
      BY <1>2, <1>3, <1>6, <1>9 DEF StreamSent
    <3>2. InStream(k, ip) = IF STREAM[k] = ip
                            THEN AtMost(InStream(n, ip) + 1, CountMax)
                            ELSE InStream(n, ip)
      BY <1>2, <1>9, StreamGrows
    <3> HIDE DEF k
    <3> QED BY <2>2, <3>1, <3>2 DEF PlacesOK
  <2>4. StreamSent(n)'
    BY <1>1, <1>9, <2>3 DEF StreamSent
  <2>5. ~Asks(n')
    BY <1>1, <1>2, <1>3, <1>9, AsksLate
  <2> QED BY <1>1, <1>6, <2>4, <2>5
<1>10. CASE k > L /\ Asks(k)
  <2>1. Answered(CmsAnswer(AskedKey(k), Estimate(sent, AskedKey(k))))
    BY <1>1, <1>2, <1>3, <1>4, <1>10 DEF PlanTransfer, Query
  <2>2. sent' = sent /\ answer' = CmsAnswer(AskedKey(k), Estimate(sent, AskedKey(k)))
    BY <2>1 DEF Answered
  <2>3. PICK i \in DOMAIN CMS_QUERIES : AskedKey(k) = CMS_QUERIES[i]
    BY <1>2, <1>10, AsksLate
  <2>4. n >= L
    BY <1>2, <1>3, <1>10
  <2>5. Estimate(sent, AskedKey(k)) = Golden(AskedKey(k))
    BY <1>2, <1>6, <2>3, <2>4, StreamEstimate
  <2>6. \A ip \in Ip \ {ZeroIp} : sent'[ip] = InStream(L, ip)
    BY <2>2, <2>4, <1>7
  <2>7. StreamSent(n)'
    BY <1>10, <2>6, <1>8
  <2> QED BY <1>1, <1>6, <2>2, <2>5, <2>7
<1>11. CASE k > L /\ ~Asks(k)
  <2>1. Transfer(FlushFrame)
    BY <1>1, <1>2, <1>3, <1>11, ReceiveTransfers DEF PlanTransfer
  <2>2. sent' = [sent EXCEPT ![ZeroIp] = AtMost(@ + 1, CountMax)]
    BY <1>4, <2>1 DEF Transfer, Handle, FlushFrame, PacketFrame, Classified,
                      ClassifyOp, SnapshotOp, ThreshReadOp, RuleWriteOp
  <2>3. n >= L
    BY <1>2, <1>3, <1>11
  <2>4. \A ip \in Ip \ {ZeroIp} : sent'[ip] = InStream(L, ip)
    <3> SUFFICES ASSUME NEW ip \in Ip \ {ZeroIp}
                 PROVE  sent'[ip] = InStream(L, ip)
      OBVIOUS
    <3>1. sent'[ip] = sent[ip]
      BY <2>2 DEF PlacesOK
    <3> QED BY <2>3, <3>1, <1>7
  <2>5. StreamSent(n)'
    BY <1>11, <2>4, <1>8
  <2> QED BY <1>1, <1>6, <1>11, <2>5
<1> QED BY <1>2, <1>3, <1>9, <1>10, <1>11

LEMMA CalmStep ==
    ASSUME FlushApart, PlacesOK, CalmInv, [BusNext]_busVars,
           tool = "telemetry_check"
    PROVE  CalmInv'
<1>0. n \in Nat /\ resets \in Nat /\ (n = 0 => ok /\ ~calm)
  BY DEF CalmInv
<1>1. CASE TelemetryCheck
  <2>1. n' = n + 1
    BY <1>1 DEF TelemetryCheck
  <2>2. resets' \in Nat
    BY <1>0, <1>1, TransferHandled, ReceiveTransfers
       DEF TelemetryCheck, PlanTransfer, Query, Answered, Reset
  <2> QED BY <1>0, <1>1, <2>1, <2>2, PlanStep DEF CalmInv
<1>2. CASE LoopStep
  <2>1. ~calm' /\ UNCHANGED <<n, ok>>
    BY <1>2 DEF LoopStep
  <2>2. resets' \in Nat
    BY <1>0, <1>2, TransferHandled, ReceiveTransfers
       DEF LoopStep, Step, AskEpoch, ReadEpoch, AskSnapshot, ReadSnapshot,
           PushRule, ConsumeAck, WakeUp, deviceVars
  <2> QED BY <1>0, <2>1, <2>2 DEF CalmInv
<1>3. CASE BusTick
  BY <1>0, <1>3 DEF BusTick, WindowTick, CalmInv
<1>4. CASE BusReset
  <2>1. resets' \in Nat /\ resets' # 0 /\ UNCHANGED <<n, ok, calm>>
    BY <1>0, <1>4 DEF BusReset, Reset, toolVars
  <2> QED BY <1>0, <2>1 DEF CalmInv
<1>5. CASE UNCHANGED busVars
  <2>1. UNCHANGED <<n, ok, calm, resets, sent, answer, tool>>
    BY <1>5 DEF busVars, vars, deviceVars, toolVars
  <2>2. StreamSent(n)' = StreamSent(n)
    BY <2>1 DEF StreamSent
  <2> QED BY <2>1, <2>2 DEF CalmInv
<1> QED BY <1>1, <1>2, <1>3, <1>4, <1>5
        DEF BusNext, ToolStep, Sender, Issue, Show

\* silicon_telemetry_check.py: from an empty window and within it, alone on
\* the bus and without btnC, the check finds every count the twin computes.
\* The one-frame lag does not shift its answers, and its own flush frames do
\* not disturb them, as long as 0.0.0.0 shares no column with what it asks.
THEOREM CalmCheck ==
    ASSUME FlushApart
    PROVE  BusSpec => []CalmCheckPasses
<1>1. BusInit => PlacesOK /\ CalmInv
  BY DEF BusInit, DeviceInit, PlacesOK, Silence, CalmInv
<1>2. PlacesOK /\ CalmInv /\ [BusNext]_busVars => PlacesOK' /\ CalmInv'
  <2> SUFFICES ASSUME PlacesOK, CalmInv, [BusNext]_busVars
               PROVE  PlacesOK' /\ CalmInv'
    OBVIOUS
  <2>1. CASE tool = "telemetry_check"
    BY <2>1, CalmStep, BusKeepsPlaces
  <2>2. CASE tool # "telemetry_check"
    BY <2>2, ToolStays, BusKeepsPlaces DEF CalmInv
  <2> QED BY <2>1, <2>2
<1>3. CalmInv => CalmCheckPasses
  <2>1. PlanLen \in Nat /\ PlanLen > 0
    BY ToolAssumption DEF PlanLen
  <2> QED BY <2>1 DEF CalmInv, CalmCheckPasses
<1> QED BY <1>1, <1>2, <1>3, PTL DEF BusSpec

=============================================================================
