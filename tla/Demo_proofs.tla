----------------------------- MODULE Demo_proofs -----------------------------
(***************************************************************************)
(* What the demo may rely on, for every hash, trigger and rhythm of polls,  *)
(* with window ticks and presses of btnC anywhere: the register it reads at *)
(* the start, its types, the sources it takes for hot, the rules it has     *)
(* pushed.  And run_loop's clock, for every script, rate and way time may   *)
(* pass between two lines: its pacing, its labels, its end.                 *)
(***************************************************************************)
EXTENDS Orchestrator, DemoClock, PiDevice_proofs, SequenceTheorems

(***************************************************************************)
(* Reading the epoch                                                        *)
(***************************************************************************)
\* The question for the epoch is answered when its answer is looked for,
\* unless btnC was pressed.
EpochAnswered ==
    /\ resets \in Nat
    /\ resets = 0 => /\ pc = "epoch_rx" => answer = EpochIs(epoch)
                     /\ pc # "raised"

LEMMA HandleKeepsResets ==
    ASSUME NEW f, Handle(f)
    PROVE  resets' = resets
BY DEF Handle

\* btnC counts, so nothing is claimed from then on.
LEMMA ResetCounts ==
    ASSUME resets \in Nat, Reset
    PROVE  resets' \in Nat /\ resets' # 0
BY DEF Reset

\* read_rule_epoch raises on an answer that is not a response; the transfer
\* it looks at carries the register, whatever the window timer does between.
THEOREM EpochReadable == Spec => []RaisedOnlyAfterReset
<1>1. Init => EpochAnswered
  BY DEF Init, DeviceInit, EpochAnswered
<1>2. EpochAnswered /\ [Next]_vars => EpochAnswered'
  <2> SUFFICES ASSUME EpochAnswered, [Next]_vars
               PROVE  EpochAnswered'
    OBVIOUS
  <2>1. CASE Reset
    BY <2>1, ResetCounts DEF EpochAnswered
  <2>2. CASE AskEpoch
    <3>1. CASE Handle(EpochFrame)
      <4>1. answer' = EpochIs(epoch) /\ epoch' = epoch /\ resets' = resets
        BY <3>1 DEF Handle, EpochFrame, ClassifyOp, SnapshotOp, ThreshReadOp,
                    RuleWriteOp
      <4> QED BY <2>2, <4>1 DEF AskEpoch, EpochAnswered
    <3> QED BY <2>1, <2>2, <3>1 DEF AskEpoch, Transfer
  <2>3. CASE ReadEpoch
    <3> PICK rx \in Torn(answer) :
           /\ Receive(FlushFrame, rx)
           /\ pc' = IF IsResponse(rx) THEN "frame" ELSE "raised"
      BY <2>3 DEF ReadEpoch
    <3>1. CASE Handle(FlushFrame) /\ rx = answer
      <4>1. resets = 0 => IsResponse(rx)
        BY <2>3, <3>1 DEF ReadEpoch, EpochAnswered, EpochIs, IsResponse
      <4> QED BY <3>1, <4>1, HandleKeepsResets DEF EpochAnswered
    <3> QED BY <2>1, <3>1 DEF Receive
  <2>4. ASSUME NEW f, Transfer(f), pc' \notin {"epoch_rx", "raised"}
        PROVE  EpochAnswered'
    BY <2>1, <2>4, HandleKeepsResets DEF Transfer, EpochAnswered
  <2>5. CASE \E ip \in Scenario : SendFrame(ip)
    BY <2>4, <2>5, ReceiveTransfers DEF SendFrame
  <2>6. CASE AskSnapshot
    BY <2>4, <2>6 DEF AskSnapshot
  <2>7. CASE ReadSnapshot
    BY <2>4, <2>7, ReceiveTransfers DEF ReadSnapshot
  <2>8. CASE PushRule
    BY <2>4, <2>8 DEF PushRule
  <2>9. CASE ConsumeAck
    BY <2>4, <2>9 DEF ConsumeAck
  <2>10. CASE Stop
    BY <2>10 DEF Stop, deviceVars, EpochAnswered
  <2>11. CASE WindowTick /\ UNCHANGED loopVars
    BY <2>11 DEF WindowTick, loopVars, EpochAnswered, EpochIs
  <2>12. CASE UNCHANGED vars
    BY <2>12 DEF vars, deviceVars, loopVars, EpochAnswered, EpochIs
  <2> QED BY <2>1, <2>2, <2>3, <2>5, <2>6, <2>7, <2>8, <2>9, <2>10, <2>11,
             <2>12 DEF Next, Step
<1>3. EpochAnswered => RaisedOnlyAfterReset
  BY DEF EpochAnswered, RaisedOnlyAfterReset
<1> QED BY <1>1, <1>2, <1>3, PTL DEF Spec

(***************************************************************************)
(* Types                                                                    *)
(***************************************************************************)
\* LoopTypeOK with the answers that each transfer of the loop can find.
LoopTyped ==
    /\ LoopTypeOK
    /\ WellFormed(answer)
    /\ pc = "epoch_rx" => answer \in EpochAnswers
    /\ pc \in {"push", "ack"} => snapshot.key \in Scenario

\* record_verdict keeps a deque of verdicts, no longer than its maxlen.
LEMMA RecordedTyped ==
    ASSUME recent \in Seq([src : Ip, rule : BOOLEAN]), Len(recent) <= Kept,
           NEW rx, WellFormed(rx), IsVerdict(rx)
    PROVE  /\ Recorded(rx) \in Seq([src : Ip, rule : BOOLEAN])
           /\ Len(Recorded(rx)) <= Kept
<1> DEFINE Record == [src : Ip, rule : BOOLEAN]
           entry == [src |-> rx.src, rule |-> rx.rule]
           all == Append(recent, entry)
           n == AtMost(Len(all), Kept)
<1>1. \E ip \in Ip, m \in BOOLEAN : rx = Verdict(ip, m)
  BY DEF WellFormed
<1>2. entry \in Record
  BY <1>1 DEF Verdict
<1>3. all \in Seq(Record) /\ Len(all) = Len(recent) + 1
  BY <1>2, AppendProperties
<1>4. Len(recent) \in Nat /\ Kept \in Nat /\ Kept > 0
  BY LenProperties, LoopAssumption
<1>5. n \in 1 .. Len(all) /\ n <= Kept
  BY <1>3, <1>4 DEF AtMost
<1>6. \A i \in Len(all) - n + 1 .. Len(all) : all[i] \in Record
  <2>1. \A i \in 1 .. Len(all) : all[i] \in Record
    BY <1>3, ElementOfSeq
  <2> HIDE DEF all, n, Record
  <2> QED BY <1>3, <1>4, <1>5, <2>1
<1>7. Recorded(rx) = SubSeq(all, Len(all) - n + 1, Len(all))
  BY DEF Recorded
<1> HIDE DEF all, n, Record
<1>8. Len(all) \in Int /\ Len(all) - n + 1 \in Int /\ n \in Int
  BY <1>3, <1>4, <1>5
<1>9. /\ SubSeq(all, Len(all) - n + 1, Len(all)) \in Seq(Record)
      /\ Len(SubSeq(all, Len(all) - n + 1, Len(all))) = n
  BY <1>5, <1>6, <1>8, SubSeqProperties
<1> QED BY <1>5, <1>7, <1>9 DEF Record

LEMMA LoopStepTyped ==
    ASSUME IsFiniteSet(Ip), Bank # {}, LoopTyped, [Next]_vars
    PROVE  LoopTyped'
<1> USE DEF LoopTyped, LoopTypeOK
<1>1. BoardTyped
  BY DEF BoardTyped
<1>2. \A f \in Frames : Transfer(f) => BoardTyped'
  BY <1>1, TransferTyped
<1>3. CASE AskEpoch
  <2>1. BoardTyped' /\ answer' \in EpochAnswers
    BY <1>1, <1>3, TransferTyped, FramesKnown DEF AskEpoch
  <2> QED BY <1>3, <2>1 DEF AskEpoch, BoardTyped
<1>4. CASE ReadEpoch
  <2>1. BoardTyped'
    BY <1>2, <1>4, FramesKnown, ReceiveTransfers DEF ReadEpoch
  <2>2. ASSUME NEW rx \in Torn(answer), IsResponse(rx)
        PROVE  DecodedEpoch(rx) \in Nat
    <3>1. rx \in EpochAnswers
      BY <1>4, TornEpoch DEF ReadEpoch
    <3> QED BY <2>2, <3>1 DEF EpochAnswers, NoAnswer, EpochIs, IsResponse,
                              DecodedEpoch
  <2> QED BY <1>4, <2>1, <2>2 DEF ReadEpoch, BoardTyped, Ended
<1>5. CASE \E ip \in Scenario : SendFrame(ip)
  <2> PICK ip \in Scenario : SendFrame(ip)
    BY <1>5
  <2>1. BoardTyped'
    BY <1>2, FramesKnown, ReceiveTransfers DEF SendFrame, Scenario
  <2>2. recent' \in Seq([src : Ip, rule : BOOLEAN]) /\ Len(recent') <= Kept
    BY RecordedTyped, TornTyped DEF SendFrame
  <2>3. tick' \in 0 .. SnapEvery
    BY LoopAssumption DEF SendFrame, NextTick
  <2> QED BY <2>1, <2>2, <2>3 DEF SendFrame, BoardTyped
<1>6. CASE AskSnapshot
  <2>1. BoardTyped'
    BY <1>2, <1>6, FramesKnown DEF AskSnapshot
  <2> QED BY <1>6, <2>1 DEF AskSnapshot, BoardTyped
<1>7. CASE ReadSnapshot
  <2>1. BoardTyped'
    BY <1>2, <1>7, FramesKnown, ReceiveTransfers DEF ReadSnapshot
  <2>2. \A rx \in Torn(answer) : DecodedSnapshot(rx) \in TopTalker
    BY DecodedTyped, TornTyped
  <2>3. snapshot' \in TopTalker
    BY <1>7, <2>2 DEF ReadSnapshot
  <2>4. pc' = "push" => snapshot'.key \in Scenario
    BY <1>7, <2>3 DEF ReadSnapshot, WantsPush, Scenario, TopTalker
  <2> QED BY <1>7, <2>1, <2>3, <2>4 DEF ReadSnapshot, BoardTyped
<1>8. CASE PushRule
  <2>1. BoardTyped'
    BY <1>2, <1>8, FramesKnown DEF PushRule, Scenario
  <2> QED BY <1>8, <2>1 DEF PushRule, BoardTyped
<1>9. CASE ConsumeAck
  <2>1. BoardTyped'
    BY <1>2, <1>9, FramesKnown DEF ConsumeAck
  <2> QED BY <1>9, <2>1 DEF ConsumeAck, BoardTyped
<1>10. CASE Stop
  BY <1>10 DEF Stop, deviceVars, DeviceTypeOK, Ended
<1>11. CASE WindowTick /\ UNCHANGED loopVars
  <2>1. BoardTyped' /\ answer' = answer
    BY <1>1, <1>11, TickTyped DEF WindowTick
  <2> QED BY <1>11, <2>1 DEF loopVars, BoardTyped
<1>12. CASE Reset /\ UNCHANGED loopVars
  <2>1. BoardTyped' /\ answer' \in EpochAnswers
    BY <1>1, <1>12, ResetTyped DEF EpochAnswers
  <2> QED BY <1>12, <2>1 DEF loopVars, BoardTyped
<1>13. CASE UNCHANGED vars
  BY <1>13 DEF vars, deviceVars, loopVars, DeviceTypeOK
<1> QED BY <1>3, <1>4, <1>5, <1>6, <1>7, <1>8, <1>9, <1>10, <1>11, <1>12, <1>13
        DEF Next, Step

LEMMA LoopInitTyped == Init => LoopTyped
<1> SUFFICES ASSUME Init PROVE LoopTyped
  OBVIOUS
<1>1. BoardTyped /\ answer = NoAnswer /\ NoTop \in TopTalker
  BY DeviceInitTyped, IpAssumption, DeviceAssumption DEF Init, NoTop, TopTalker
<1>2. recent \in Seq([src : Ip, rule : BOOLEAN]) /\ Len(recent) <= Kept
  BY LoopAssumption, EmptySeq DEF Init
<1> QED BY <1>1, <1>2, LoopAssumption
        DEF Init, LoopTyped, LoopTypeOK, BoardTyped, EpochAnswers

\* The board's registers, the deque and every field of DemoState stay within
\* their types, for any finite set of addresses and at least one sketch bank.
THEOREM LoopTyping ==
    ASSUME IsFiniteSet(Ip), Bank # {}
    PROVE  Spec => []LoopTypeOK
<1>1. LoopTyped => LoopTypeOK
  BY DEF LoopTyped
<1>2. LoopTyped /\ [Next]_vars => LoopTyped'
  BY LoopStepTyped
<1> QED BY <1>1, <1>2, LoopInitTyped, PTL DEF Spec

(***************************************************************************)
(* Hot sources                                                              *)
(***************************************************************************)
\* A count at the trigger is one the sketch of the open window confirms, and
\* once the window is over its source is hot: in the snapshot and in the answer
\* on its way.  The loop's copy and the rule it is about to push name a hot
\* source too, or after a press as much of one as arrived.
HotInv ==
    /\ BoardHot
    /\ snapshot.count >= Trigger => HotOrCut(snapshot.key)
    /\ pc \in {"push", "ack"} => HotOrCut(snapshot.key)
    /\ OnlyHotSourcesPushed

LEMMA HotStep ==
    ASSUME IsFiniteSet(Ip), Bank # {}, LoopTyped, HotInv, [Next]_vars
    PROVE  HotInv'
<1>1. BoardTyped /\ BoardHot
  BY DEF BoardTyped, LoopTyped, LoopTypeOK, HotInv
<1> DEFINE Keeps == everHot \subseteq everHot' /\ (resets > 0 => resets' > 0)
<1>2. \A f \in Frames : Transfer(f) => BoardHot' /\ Keeps
  <2> SUFFICES ASSUME NEW f \in Frames, Transfer(f) PROVE BoardHot' /\ Keeps
    OBVIOUS
  <2>1. BoardHot' /\ everHot' = everHot
    BY <1>1, TransferHot
  <2>2. resets > 0 => resets' > 0
    BY <1>1, TransferHandled DEF BoardTyped, DeviceTypeOK
  <2> QED BY <2>1, <2>2
<1> HIDE DEF Keeps
<1> USE DEF HotInv, OnlyHotSourcesPushed
<1>3. ASSUME BoardHot', Keeps, UNCHANGED <<snapshot, pushed>>,
             pc' \in {"push", "ack"} => pc \in {"push", "ack"}
      PROVE  HotInv'
  BY <1>3 DEF Keeps, HotOrCut
<1>4. CASE AskEpoch \/ ReadEpoch \/ \E ip \in Scenario : SendFrame(ip)
  BY <1>2, <1>3, <1>4, FramesKnown, ReceiveTransfers
     DEF AskEpoch, ReadEpoch, SendFrame, Scenario
<1>5. CASE AskSnapshot
  BY <1>2, <1>3, <1>5, FramesKnown DEF AskSnapshot
<1>6. CASE ReadSnapshot
  <2> PICK rx \in Torn(answer) :
         /\ Receive(FlushFrame, rx)
         /\ snapshot' = IF IsResponse(rx) THEN DecodedSnapshot(rx) ELSE snapshot
    BY <1>6 DEF ReadSnapshot
  <2>1. BoardHot' /\ Keeps
    BY <1>2, FramesKnown, ReceiveTransfers
  <2>2. DecodedSnapshot(rx).count >= Trigger => HotOrCut(DecodedSnapshot(rx).key)'
    BY <1>1, ReceiveHot
  <2>3. snapshot'.count >= Trigger => HotOrCut(snapshot.key)'
    <3>1. CASE IsResponse(rx)
      <4>1. snapshot' = DecodedSnapshot(rx)
        BY <3>1
      <4> QED BY <2>2, <4>1 DEF HotOrCut
    <3>2. CASE ~IsResponse(rx)
      <4>1. snapshot' = snapshot
        BY <3>2
      <4>2. snapshot.count >= Trigger => HotOrCut(snapshot.key)'
        BY <2>1, <4>1 DEF Keeps, HotOrCut
      <4> QED BY <4>1, <4>2
    <3> QED BY <3>1, <3>2
  <2>4. pc' \in {"push", "ack"} => HotOrCut(snapshot.key)'
    BY <1>6, <2>3 DEF ReadSnapshot, WantsPush
  <2>5. \A ip \in pushed' : HotOrCut(ip)'
    BY <1>6, <2>1 DEF ReadSnapshot, Keeps, HotOrCut
  <2> QED BY <2>1, <2>3, <2>4, <2>5
<1>7. CASE PushRule
  <2>1. RuleFrame(snapshot.key, rule_epoch) \in Frames
    BY <1>7, FramesKnown DEF PushRule, LoopTyped, LoopTypeOK, Scenario
  <2> QED BY <1>2, <1>3, <1>7, <2>1 DEF PushRule
<1>8. CASE ConsumeAck
  <2>1. BoardHot' /\ Keeps
    BY <1>2, <1>8, FramesKnown DEF ConsumeAck
  <2>2. \A ip \in pushed' : HotOrCut(ip)'
    BY <1>8, <2>1 DEF ConsumeAck, Keeps, HotOrCut
  <2>3. snapshot'.count >= Trigger => HotOrCut(snapshot.key)'
    BY <1>8, <2>1 DEF ConsumeAck, Keeps, HotOrCut
  <2> QED BY <1>8, <2>1, <2>2, <2>3 DEF ConsumeAck
<1>9. CASE Stop \/ UNCHANGED vars
  <2>1. UNCHANGED <<deviceVars, snapshot, pushed>>
        /\ (pc' \in {"push", "ack"} => pc \in {"push", "ack"})
    BY <1>9 DEF Stop, vars, loopVars
  <2>2. BoardHot' /\ Keeps
    BY <2>1 DEF deviceVars, BoardHot, WasHot, Keeps, HotOrCut
  <2> QED BY <1>3, <2>1, <2>2
<1>10. CASE WindowTick /\ UNCHANGED loopVars
  <2>1. BoardHot' /\ everHot \subseteq everHot' /\ resets' = resets
    BY <1>1, <1>10, TickHot DEF WindowTick
  <2>2. Keeps
    BY <2>1 DEF Keeps
  <2> QED BY <1>3, <1>10, <2>1, <2>2 DEF loopVars
<1>11. CASE Reset /\ UNCHANGED loopVars
  <2>1. BoardHot' /\ everHot' = everHot
    BY <1>11, ResetHot
  <2>2. resets' > 0
    BY <1>1, <1>11 DEF Reset, BoardTyped, DeviceTypeOK
  <2>3. Keeps
    BY <2>1, <2>2 DEF Keeps
  <2> QED BY <1>3, <1>11, <2>1, <2>3 DEF loopVars
<1> QED BY <1>4, <1>5, <1>6, <1>7, <1>8, <1>9, <1>10, <1>11 DEF Next, Step

\* maybe_push_rule blocks only sources that were hot in some completed window,
\* as the sketch had it, or, once btnC was pressed, the beginning of such a
\* source's address: no count reaches it that belongs to another key, to an
\* answer of another transfer or to a window that was never completed.
THEOREM OnlyHotPushed ==
    ASSUME IsFiniteSet(Ip), Bank # {}
    PROVE  Spec => []OnlyHotSourcesPushed
<1>1. Init => HotInv
  BY DeviceInitHot, DeviceAssumption
     DEF Init, HotInv, NoTop, OnlyHotSourcesPushed
<1>2. LoopTyped /\ HotInv /\ [Next]_vars => LoopTyped' /\ HotInv'
  BY LoopStepTyped, HotStep
<1>3. HotInv => OnlyHotSourcesPushed
  BY DEF HotInv
<1> QED BY <1>1, <1>2, <1>3, LoopInitTyped, PTL DEF Spec

(***************************************************************************)
(* Pushed rules                                                             *)
(***************************************************************************)
\* No two sources share a rule index.
IndexesApart == \A i, j \in Ip : RuleHash[i] = RuleHash[j] => i = j

\* The epoch register is the one the loop has read, every pushed rule is in
\* the store under it, and the rule on its way too once it was sent.
PushInv ==
    /\ resets = 0
    /\ epoch = FirstEpoch
    /\ DOMAIN rules = RuleIdx
    /\ NamesIn(Ip) /\ snapshot.key \in Ip
    /\ pc = "epoch_rx" => answer = EpochIs(FirstEpoch)
    /\ pc \notin {"epoch", "epoch_rx", "raised"} => rule_epoch = FirstEpoch
    /\ pushed \subseteq Ip
    /\ pc = "ack" => Blocked(snapshot.key)
    /\ PushedRulesMatch

\* Presses are never taken back.
LEMMA ResetsOnlyGrow ==
    ASSUME resets \in Nat, [Next]_vars
    PROVE  resets' \in Nat /\ (resets' = 0 => resets = 0)
<1>1. CASE Step
  BY <1>1, TransferHandled, ReceiveTransfers
     DEF Step, AskEpoch, ReadEpoch, SendFrame, AskSnapshot, ReadSnapshot,
         PushRule, ConsumeAck
<1>2. CASE Reset
  BY <1>2, ResetCounts
<1>3. CASE Stop \/ WindowTick \/ UNCHANGED vars
  BY <1>3 DEF Stop, WindowTick, vars, deviceVars
<1> QED BY <1>1, <1>2, <1>3 DEF Next

LEMMA PushStep ==
    ASSUME IndexesApart, PushInv, [Next]_vars, resets' = 0
    PROVE  PushInv'
<1> USE DEF PushedRulesMatch
<1>0. ~Reset /\ \A f, rx : Receive(f, rx) => rx = answer
  BY DEF PushInv, Reset, Receive
<1>1. ASSUME NEW f, Transfer(f), f.op # RuleWriteOp, f.op = ClassifyOp => f.src \in Ip
      PROVE  /\ UNCHANGED <<rules, epoch>> /\ NamesIn(Ip)'
             /\ f.op = ThreshReadOp => answer' = EpochIs(epoch)
  <2>1. Handle(f)
    BY <1>1, TransferHandled DEF PushInv
  <2> QED BY <1>1, <2>1, HandleReads, HandleNames DEF PushInv
<1>2. ASSUME NEW ip \in Ip, Transfer(PacketFrame(ip))
      PROVE  UNCHANGED <<rules, epoch>> /\ NamesIn(Ip)'
  BY <1>1, <1>2 DEF PacketFrame, ClassifyOp, RuleWriteOp
<1>3. CASE AskEpoch
  <2>1. UNCHANGED <<rules, epoch>> /\ NamesIn(Ip)' /\ answer' = EpochIs(epoch)
    BY <1>1, <1>3 DEF AskEpoch, EpochFrame, ThreshReadOp, ClassifyOp, RuleWriteOp
  <2> QED BY <1>3, <2>1, StillBlocked DEF AskEpoch, PushInv
<1>4. CASE ReadEpoch
  <2>1. UNCHANGED <<rules, epoch>> /\ NamesIn(Ip)'
    BY <1>2, <1>4, IpAssumption, ReceiveTransfers DEF ReadEpoch, FlushFrame
  <2>2. IsResponse(answer) /\ DecodedEpoch(answer) = FirstEpoch
    BY <1>4 DEF ReadEpoch, PushInv, EpochIs, IsResponse, DecodedEpoch
  <2>3. rule_epoch' = FirstEpoch
    BY <1>4, <1>0, <2>2 DEF ReadEpoch
  <2> QED BY <1>4, <2>1, <2>3, StillBlocked DEF ReadEpoch, PushInv
<1>5. CASE \E ip \in Scenario : SendFrame(ip)
  <2> PICK ip \in Scenario : SendFrame(ip)
    BY <1>5
  <2>1. UNCHANGED <<rules, epoch>> /\ NamesIn(Ip)'
    BY <1>2, ReceiveTransfers DEF SendFrame, Scenario
  <2> QED BY <2>1, StillBlocked DEF SendFrame, PushInv
<1>6. CASE AskSnapshot
  <2>1. UNCHANGED <<rules, epoch>> /\ NamesIn(Ip)'
    BY <1>1, <1>6 DEF AskSnapshot, SnapFrame, SnapshotOp, ClassifyOp, RuleWriteOp
  <2> QED BY <1>6, <2>1, StillBlocked DEF AskSnapshot, PushInv
<1>7. CASE ReadSnapshot
  <2>1. UNCHANGED <<rules, epoch>> /\ NamesIn(Ip)'
    BY <1>2, <1>7, IpAssumption, ReceiveTransfers DEF ReadSnapshot, FlushFrame
  <2>2. DecodedSnapshot(answer).key \in Ip
    BY IpAssumption DEF PushInv, NamesIn, DecodedSnapshot, NoTop
  <2>3. snapshot' = DecodedSnapshot(answer) \/ snapshot' = snapshot
    BY <1>0, <1>7 DEF ReadSnapshot
  <2>4. snapshot'.key \in Ip
    BY <2>2, <2>3 DEF PushInv
  <2> QED BY <1>7, <2>1, <2>4, StillBlocked DEF ReadSnapshot, PushInv
<1>8. CASE PushRule
  <2> DEFINE k == snapshot.key
  <2>1. Handle(RuleFrame(k, rule_epoch))
    BY <1>8, TransferHandled DEF PushRule, PushInv
  <2>2. k \in Ip /\ rule_epoch = epoch
    BY <1>8 DEF PushRule, PushInv
  <2>3. /\ UNCHANGED <<epoch, top, last>> /\ answer' = Acked
        /\ DOMAIN rules' = RuleIdx
        /\ rules'[RuleHash[k]] = [src |-> k, epoch |-> rule_epoch]
        /\ \A i \in RuleIdx \ {RuleHash[k]} : rules'[i] = rules[i]
    BY <2>1, <2>2, HandleRule DEF PushInv
  <2>4. ASSUME NEW ip \in pushed PROVE Blocked(ip)'
    <3>1. CASE ip = k
      BY <2>2, <2>3, <3>1 DEF Blocked
    <3>2. CASE ip # k
      <4>1. Blocked(ip) /\ RuleHash[ip] \in RuleIdx \ {RuleHash[k]}
        BY <2>2, <3>2 DEF PushInv, IndexesApart, RuleIdx
      <4> QED BY <2>3, <4>1 DEF Blocked
    <3> QED BY <3>1, <3>2
  <2>5. NamesIn(Ip)'
    BY <2>3 DEF PushInv, NamesIn, Acked, SnapshotOp, RuleWriteOp
  <2>6. Blocked(snapshot.key)'
    BY <1>8, <2>2, <2>3 DEF PushRule, Blocked
  <2> QED BY <1>8, <2>3, <2>4, <2>5, <2>6 DEF PushRule, PushInv
<1>9. CASE ConsumeAck
  <2>1. UNCHANGED <<rules, epoch>> /\ NamesIn(Ip)'
    BY <1>2, <1>9, IpAssumption DEF ConsumeAck, FlushFrame
  <2>2. \A ip \in pushed' : Blocked(ip)
    BY <1>9 DEF ConsumeAck, PushInv
  <2> QED BY <1>9, <2>1, <2>2, StillBlocked DEF ConsumeAck, PushInv
<1>10. CASE Stop
  BY <1>10, StillBlocked DEF Stop, deviceVars, PushInv, NamesIn
<1>11. CASE WindowTick /\ UNCHANGED loopVars
  BY <1>11, StillBlocked, IpAssumption
     DEF WindowTick, loopVars, NoTop, PushInv, NamesIn, IsResponse
<1>12. CASE UNCHANGED vars
  BY <1>12, StillBlocked DEF vars, deviceVars, loopVars, PushInv, NamesIn
<1> QED BY <1>0, <1>3, <1>4, <1>5, <1>6, <1>7, <1>8, <1>9, <1>10, <1>11, <1>12
        DEF Next, Step

\* Every source the dashboard lists as pushed is one the board matches, for
\* as long as the board runs, if rule indexes do not collide: the epoch read
\* at the start is the right one and no push is displaced or missed.
THEOREM PushedStayBlocked ==
    ASSUME IndexesApart
    PROVE  Spec => []PushedRulesStay
<1> DEFINE StayInv == resets \in Nat /\ (resets = 0 => PushInv)
<1>1. Init => StayInv
  BY IpAssumption DEF Init, DeviceInit, PushInv, NamesIn, NoTop, NoAnswer,
                      IsResponse, PushedRulesMatch
<1>2. StayInv /\ [Next]_vars => StayInv'
  BY PushStep, ResetsOnlyGrow
<1>3. StayInv => PushedRulesStay
  BY DEF PushInv, PushedRulesStay
<1> HIDE DEF StayInv
<1> QED BY <1>1, <1>2, <1>3, PTL DEF Spec

(***************************************************************************)
(* Pacing                                                                   *)
(***************************************************************************)
\* next_tick is never ahead of the clock when a frame is pulled, the frame
\* before was sent by then, and the one before that an interval earlier.
Paced ==
    /\ sends[2] # NotYet => sends[2] <= next_tick
    /\ sends[1] # NotYet => sends[1] + tick_interval <= next_tick

PacingInv ==
    /\ now \in Nat /\ next_tick \in Nat /\ wake \in Nat
    /\ sends \in (Nat \cup {NotYet}) \X (Nat \cup {NotYet})
    /\ sends[1] <= now /\ sends[2] <= now
    /\ sends[1] # NotYet => sends[2] # NotYet
    /\ loc \in {"start", "pace_from"} => sends = <<NotYet, NotYet>>
    /\ tick_interval > 0 =>
        /\ loc \in {"check", "pull", "label", "send"} => Paced /\ next_tick <= now
        /\ loc = "pace" =>
            /\ next_tick <= sends[2]
            /\ sends[1] # NotYet => sends[1] <= next_tick
        /\ loc = "sleep" => Paced /\ wake = next_tick
        /\ loc = "recover" =>
            /\ sends[1] # NotYet => sends[1] + tick_interval <= next_tick
            /\ next_tick <= now

LEMMA IntervalIsNat == tick_interval \in Nat
  BY ClockAssumption

LEMMA PacingInit == ClockInit => PacingInv
  BY DEF ClockInit, PacingInv, NotYet

\* The steps that send nothing and leave next_tick alone.
LEMMA PacingQuiet ==
  ASSUME PacingInv,
         Check \/ Begin \/ Yield \/ NextStep \/ Label
  PROVE  PacingInv'
  BY DEF Check, Begin, Yield, NextStep, Label, Goes, PacingInv, Paced, NotYet

LEMMA PacingStep == PacingInv /\ [ClockNext]_clockVars => PacingInv'
  <1> SUFFICES ASSUME PacingInv, [ClockNext]_clockVars PROVE PacingInv'
    OBVIOUS
  <1> USE IntervalIsNat DEF PacingInv, Paced, NotYet
  <1>1. CASE Start
    BY <1>1 DEF Start, Goes
  <1>2. CASE PaceFrom
    BY <1>2 DEF PaceFrom, Goes
  <1>3. CASE Check \/ Begin \/ Yield \/ NextStep \/ Label
    BY <1>3, PacingQuiet
  <1>4. CASE Send
    <2>1. /\ sends' = <<sends[2], now>> /\ loc = "send" /\ loc' = "pace"
          /\ UNCHANGED <<now, next_tick, wake>>
      BY <1>4 DEF Send, Goes
    <2>2. /\ sends'[1] = sends[2] /\ sends'[2] = now
      BY <2>1
    <2> QED
      BY <2>1, <2>2
  <1>5. CASE Pace
    <2>1. loc = "pace" /\ UNCHANGED <<now, sends>>
      BY <1>5 DEF Pace, Goes
    <2>2. CASE tick_interval = 0
      BY <1>5, <2>1, <2>2 DEF Pace, Goes
    <2>3. CASE tick_interval # 0 /\ next_tick + tick_interval > now
      <3>1. /\ next_tick' = next_tick + tick_interval
            /\ wake' = next_tick' /\ loc' = "sleep"
        BY <1>5, <2>3 DEF Pace, Goes
      <3> QED
        BY <2>1, <2>3, <3>1
    <2>4. CASE tick_interval # 0 /\ ~(next_tick + tick_interval > now)
      <3>1. /\ next_tick' = next_tick + tick_interval
            /\ wake' = wake /\ loc' = "recover"
        BY <1>5, <2>4 DEF Pace, Goes
      <3> QED
        BY <2>1, <2>4, <3>1
    <2> QED
      BY <2>2, <2>3, <2>4
  <1>6. CASE Recover
    BY <1>6 DEF Recover, Goes
  <1>7. CASE Wake
    BY <1>7 DEF Wake, Goes
  <1>8. CASE TimePasses
    BY <1>8 DEF TimePasses
  <1>9. CASE UNCHANGED clockVars
    BY <1>9 DEF clockVars
  <1> QED
    BY <1>1, <1>2, <1>3, <1>4, <1>5, <1>6, <1>7, <1>8, <1>9
       DEF ClockNext, Process

\* However long polls, pushes, renders and the Pi's other work take, no three
\* frames go out within one tick_interval.
THEOREM Pacing == ClockSpec => []AtMostTwoPerInterval
  <1>1. PacingInv => AtMostTwoPerInterval
    BY IntervalIsNat DEF PacingInv, Paced, NotYet, AtMostTwoPerInterval
  <1> QED
    BY <1>1, PacingInit, PacingStep, PTL DEF ClockSpec

(***************************************************************************)
(* The schedule                                                             *)
(***************************************************************************)
LEMMA ScheduleTyped ==
    ASSUME args \in Options
    PROVE  /\ Len(_build_schedule) \in Nat \ {0}
           /\ Steps = 1 .. Len(_build_schedule)
           /\ \A k \in Steps : _build_schedule[k].duration_s \in Nat
<1>1. CASE ~args.scenario
  <2>1. Script \in Seq(ScheduleStep) /\ Script # <<>>
    BY ClockAssumption
  <2>2. _build_schedule = Script
    BY <1>1 DEF _build_schedule
  <2>3. Len(Script) \in Nat \ {0} /\ DOMAIN Script = 1 .. Len(Script)
    BY <2>1
  <2>4. \A k \in 1 .. Len(Script) : Script[k] \in ScheduleStep
    BY <2>1
  <2>5. \A s \in ScheduleStep : s.duration_s \in Nat
    BY DEF ScheduleStep
  <2> QED BY <2>2, <2>3, <2>4, <2>5 DEF Steps
<1>2. CASE args.scenario /\ args.duration \in {None, 0}
  <2>1. _build_schedule = <<Solo>>
    BY <1>2 DEF _build_schedule
  <2>2. Solo.duration_s \in Nat
    BY ClockAssumption DEF ScheduleStep
  <2> QED BY <2>1, <2>2 DEF Steps
<1>3. CASE args.scenario /\ args.duration \notin {None, 0}
  <2>1. PICK r : r = [Solo EXCEPT !.duration_s = args.duration]
    OBVIOUS
  <2>2. args.duration \in Nat /\ Solo \in ScheduleStep
    BY <1>3, ClockAssumption
  <2>3. r.duration_s \in Nat
    BY <2>1, <2>2 DEF ScheduleStep
  <2>4. _build_schedule = <<r>>
    BY <1>3, <2>1 DEF _build_schedule
  <2> QED BY <2>3, <2>4 DEF Steps
<1> QED BY <1>1, <1>2, <1>3

\* g holds the ends of the first i steps: what cum computes by recursion.
EndsOf(g, i) ==
    g = [k \in 0 .. i |-> IF k = 0 THEN 0
                          ELSE g[k - 1] + _build_schedule[k].duration_s]

LEMMA EndsTyped ==
    ASSUME args \in Options, NEW i \in 0 .. Len(_build_schedule), NEW g, EndsOf(g, i)
    PROVE  \A k \in 0 .. i : g[k] \in Nat
<1> DEFINE S == {k \in 0 .. i : g[k] \notin Nat}
<1>1. SUFFICES ASSUME S # {} PROVE FALSE
  OBVIOUS
<1>2. S \in SUBSET Nat
  OBVIOUS
<1> HIDE DEF S
<1>3. PICK m \in S : \A y \in S : m <= y
  BY <1>1, <1>2, LeastOf
<1>4. m \in 0 .. i /\ g[m] \notin Nat
  BY DEF S
<1>5. g[m] = IF m = 0 THEN 0 ELSE g[m - 1] + _build_schedule[m].duration_s
  BY <1>4 DEF EndsOf
<1>6. m # 0 /\ m - 1 \in 0 .. i /\ m \in Steps
  BY <1>4, <1>5, ScheduleTyped
<1>7. g[m - 1] \in Nat
  <2>1. ~(m <= m - 1)
    BY <1>4
  <2>2. m - 1 \notin S
    BY <1>3, <2>1
  <2> QED BY <1>6, <2>2 DEF S
<1> QED BY <1>4, <1>5, <1>6, <1>7, ScheduleTyped

LEMMA EndsExist ==
    ASSUME args \in Options
    PROVE  \A i \in 0 .. Len(_build_schedule) : \E g : EndsOf(g, i)
<1> DEFINE S == {i \in 0 .. Len(_build_schedule) : ~ \E g : EndsOf(g, i)}
<1>1. SUFFICES ASSUME S # {} PROVE FALSE
  OBVIOUS
<1>2. S \in SUBSET Nat
  OBVIOUS
<1> HIDE DEF S
<1>3. PICK m \in S : \A y \in S : m <= y
  BY <1>1, <1>2, LeastOf
<1>4. m \in 0 .. Len(_build_schedule) /\ ~ \E g : EndsOf(g, m)
  BY DEF S
<1>5. m # 0
  <2>1. EndsOf([k \in 0 .. 0 |-> 0], 0)
    BY DEF EndsOf
  <2> QED BY <1>4, <2>1
<1>6. PICK g : EndsOf(g, m - 1)
  <2>1. ~(m <= m - 1) /\ m - 1 \in 0 .. Len(_build_schedule)
    BY <1>4, <1>5, ScheduleTyped
  <2>2. m - 1 \notin S
    BY <1>3, <2>1
  <2> QED BY <2>1, <2>2 DEF S
<1> DEFINE h == [k \in 0 .. m |-> IF k = m THEN g[m - 1] + _build_schedule[m].duration_s
                                  ELSE g[k]]
<1>7. \A k \in 0 .. m - 1 :
         g[k] = IF k = 0 THEN 0 ELSE g[k - 1] + _build_schedule[k].duration_s
  BY <1>6 DEF EndsOf
<1>8. \A k \in 0 .. m :
         h[k] = IF k = 0 THEN 0 ELSE h[k - 1] + _build_schedule[k].duration_s
  <2> SUFFICES ASSUME NEW k \in 0 .. m
      PROVE  h[k] = IF k = 0 THEN 0 ELSE h[k - 1] + _build_schedule[k].duration_s
    OBVIOUS
  <2>1. m \in Nat /\ k \in Nat /\ m # 0
    BY <1>4, <1>5
  <2>2. CASE k = m
    <3>1. m - 1 \in 0 .. m /\ m - 1 # m
      BY <2>1
    <3>2. h[m - 1] = g[m - 1]
      BY <3>1
    <3> QED BY <2>1, <2>2, <3>2
  <2>3. CASE k # m
    <3>1. k \in 0 .. m - 1 /\ h[k] = g[k]
      BY <2>1, <2>3
    <3>2. k # 0 => k - 1 \in 0 .. m /\ k - 1 # m
      BY <2>1, <2>3, <3>1
    <3>3. k # 0 => h[k - 1] = g[k - 1]
      BY <3>2
    <3> HIDE DEF h
    <3> QED BY <1>7, <3>1, <3>3
  <2> QED BY <2>2, <2>3
<1>9. DOMAIN h = 0 .. m
  OBVIOUS
<1>10. h = [k \in 0 .. m |-> h[k]]
  OBVIOUS
<1> HIDE DEF h
<1>11. EndsOf(h, m)
  BY <1>8, <1>10 DEF EndsOf
<1> QED BY <1>4, <1>11

\* The end of a step is a number: the recursion has a solution, and cum is it.
LEMMA CumIsNat ==
    ASSUME args \in Options, NEW i \in 0 .. Len(_build_schedule)
    PROVE  cum(i) \in Nat
<1> DEFINE f == CHOOSE g : EndsOf(g, i)
<1>1. EndsOf(f, i)
  BY EndsExist
<1>2. cum(i) = f[i]
  BY DEF cum, EndsOf
<1> HIDE DEF f
<1>3. i \in 0 .. i
  OBVIOUS
<1> QED BY <1>1, <1>2, <1>3, EndsTyped

LEMMA ScheduleStays ==
    ASSUME args' = args
    PROVE  /\ _build_schedule' = _build_schedule
           /\ \A i : cum(i)' = cum(i)
<1>1. _build_schedule' = _build_schedule
  BY DEF _build_schedule
<1>2. \A i : cum(i)' = cum(i)
  BY <1>1 DEF cum
<1> QED BY <1>1, <1>2

(***************************************************************************)
(* Where the demo is in its schedule                                        *)
(***************************************************************************)
\* run_loop takes its clock before Schedule.frames takes its own, so a step
\* that is over by the second is over by the first.
ClockTyped ==
    /\ args \in Options
    /\ now \in Nat /\ start \in Nat /\ start <= now
    /\ began \in Nat \cup {NotYet} /\ step \in Steps

ClocksInOrder ==
    /\ began # NotYet => start <= began /\ began <= now
    /\ began = NotYet => step = 1
    /\ loc \in {"start", "pace_from"} => began = NotYet

EarlierStepsOver == \A i \in 1 .. step - 1 : now >= start + cum(i)

ClockInv ==
    /\ ClockTyped /\ ClocksInOrder /\ EarlierStepsOver
    /\ LabelNotBehind /\ EndsOnlyWhenOver

LEMMA ClockInvInit == ClockInit => ClockInv
<1> SUFFICES ASSUME ClockInit PROVE ClockInv
  OBVIOUS
<1>1. args \in Options /\ now = 0 /\ loc = "start" /\ start = 0 /\ began = NotYet /\ step = 1
  BY DEF ClockInit
<1>2. step \in Steps
  BY <1>1, ScheduleTyped
<1> QED
  BY <1>1, <1>2 DEF ClockInv, ClockTyped, ClocksInOrder, EarlierStepsOver, NotYet,
                    LabelNotBehind, EndsOnlyWhenOver

\* A step of the loop before its end, or time: the clocks and the schedule.
LEMMA ClockKept ==
    ASSUME ClockInv, UNCHANGED <<args, start, began, step>>, now' \in Nat, now <= now',
           loc' \in {"start", "pace_from"} => loc = loc'
    PROVE  (ClockTyped /\ ClocksInOrder /\ EarlierStepsOver)'
<1>1. Steps' = Steps /\ \A i : cum(i)' = cum(i)
  BY ScheduleStays DEF Steps
<1>2. ClockTyped'
  BY <1>1 DEF ClockInv, ClockTyped
<1>3. ClocksInOrder'
  BY DEF ClockInv, ClockTyped, ClocksInOrder, NotYet
<1>4. EarlierStepsOver'
  <2> SUFFICES ASSUME NEW i \in 1 .. step - 1 PROVE now' >= start + cum(i)
    BY <1>1 DEF EarlierStepsOver
  <2>1. step \in Nat /\ args \in Options /\ Steps = 1 .. Len(_build_schedule)
    BY ScheduleTyped DEF ClockInv, ClockTyped
  <2>2. i \in 0 .. Len(_build_schedule)
    BY <2>1, ScheduleTyped DEF ClockInv, ClockTyped
  <2>3. cum(i) \in Nat
    BY <2>1, <2>2, CumIsNat
  <2>4. now >= start + cum(i)
    BY DEF ClockInv, EarlierStepsOver
  <2> QED BY <2>3, <2>4 DEF ClockInv, ClockTyped
<1> QED BY <1>2, <1>3, <1>4

LEMMA ActiveNotBehind ==
    ASSUME ClockInv
    PROVE  active_name(now - start) >= step
<1> DEFINE on == {i \in Steps : now - start < cum(i)}
<1>1. /\ args \in Options /\ now \in Nat /\ start \in Nat
      /\ step \in 1 .. Len(_build_schedule) /\ Steps = 1 .. Len(_build_schedule)
      /\ Len(_build_schedule) \in Nat
  BY ScheduleTyped DEF ClockInv, ClockTyped
<1>2. \A i \in on : i \in Nat /\ i >= step
  <2> SUFFICES ASSUME NEW i \in on PROVE i \in Nat /\ i >= step
    OBVIOUS
  <2>1. i \in 1 .. Len(_build_schedule) /\ now - start < cum(i)
    BY <1>1
  <2>2. i \in 0 .. Len(_build_schedule)
    BY <1>1, <2>1
  <2>3. cum(i) \in Nat
    BY <1>1, <2>2, CumIsNat
  <2>4. ~(now >= start + cum(i))
    BY <1>1, <2>1, <2>3
  <2>5. i \notin 1 .. step - 1
    BY <2>4 DEF ClockInv, EarlierStepsOver
  <2> QED BY <1>1, <2>1, <2>5
<1>3. CASE on = {}
  <2>1. active_name(now - start) = Len(_build_schedule)
    BY <1>3 DEF active_name
  <2> QED BY <1>1, <2>1
<1>4. CASE on # {}
  <2>1. active_name(now - start) = CHOOSE i \in on : \A j \in on : i <= j
    BY <1>4 DEF active_name
  <2>2. on \in SUBSET Nat
    BY <1>2
  <2> HIDE DEF on
  <2>3. \E i \in on : \A j \in on : i <= j
    BY <1>4, <2>2, LeastOf
  <2>4. active_name(now - start) \in on
    BY <2>1, <2>3
  <2> QED BY <1>2, <2>4
<1> QED BY <1>3, <1>4

\* The length of the schedule and the length asked for are lengths.
LEMMA LengthsTyped ==
    ASSUME args \in Options
    PROVE  total_s \in Nat /\ (duration_s # None => duration_s \in Nat)
<1>1. total_s \in Nat
  BY ScheduleTyped, CumIsNat DEF total_s
<1>2. args.duration \in Nat \cup {None}
  BY ClockAssumption
<1> QED BY <1>1, <1>2 DEF duration_s

LEMMA LengthsStay ==
    ASSUME args' = args
    PROVE  total_s' = total_s /\ duration_s' = duration_s
<1>1. total_s' = total_s
  BY ScheduleStays DEF total_s
<1> QED BY <1>1 DEF duration_s

LEMMA ClockCheck == ClockInv /\ Check => ClockInv'
<1> SUFFICES ASSUME ClockInv, Check PROVE ClockInv'
  OBVIOUS
<1>1. /\ UNCHANGED <<args, now, start, began, step, label>> /\ loc' \in {"done", "pull"}
      /\ loc' = "done" => duration_s # None /\ now >= start + duration_s
  BY DEF Check, Goes
<1>2. now \in Nat /\ start \in Nat /\ args \in Options
  BY DEF ClockInv, ClockTyped
<1>3. (ClockTyped /\ ClocksInOrder /\ EarlierStepsOver)'
  BY <1>1, <1>2, ClockKept
<1>4. LabelNotBehind'
  BY <1>1 DEF LabelNotBehind
<1>5. EndsOnlyWhenOver'
  BY <1>1, <1>2, LengthsTyped, LengthsStay DEF EndsOnlyWhenOver
<1> QED BY <1>3, <1>4, <1>5 DEF ClockInv

LEMMA ClockNextStep == ClockInv /\ NextStep => ClockInv'
<1> SUFFICES ASSUME ClockInv, NextStep PROVE ClockInv'
  OBVIOUS
<1>1. /\ UNCHANGED <<args, now, start, began, label>> /\ began # NotYet
      /\ now >= began + cum(step) /\ loc' \in {"done", "pull"}
  BY DEF NextStep, Goes
<1>2. /\ now \in Nat /\ start \in Nat /\ args \in Options
      /\ began \in Nat /\ start <= began
      /\ step \in 1 .. Len(_build_schedule) /\ Len(_build_schedule) \in Nat
      /\ Steps = 1 .. Len(_build_schedule)
  BY <1>1, ScheduleTyped DEF ClockInv, ClockTyped, ClocksInOrder
<1>3. cum(step) \in Nat
  <2>1. step \in 0 .. Len(_build_schedule)
    BY <1>2
  <2> QED BY <1>2, <2>1, CumIsNat
<1>4. now >= start + cum(step)
  BY <1>1, <1>2, <1>3
<1>5. LabelNotBehind'
  BY <1>1 DEF LabelNotBehind
<1>6. CASE step = Len(_build_schedule)
  <2>1. step' = step /\ loc' = "done"
    BY <1>6 DEF NextStep, Goes
  <2>2. (ClockTyped /\ ClocksInOrder /\ EarlierStepsOver)'
    BY <1>1, <1>2, <2>1, ClockKept
  <2>3. now >= start + total_s
    BY <1>4, <1>6 DEF total_s
  <2>4. EndsOnlyWhenOver'
    BY <1>1, <1>2, <2>1, <2>3, LengthsTyped, LengthsStay DEF EndsOnlyWhenOver
  <2> QED BY <1>5, <2>2, <2>4 DEF ClockInv
<1>7. CASE step # Len(_build_schedule)
  <2>1. step' = step + 1 /\ loc' = "pull"
    BY <1>7 DEF NextStep, Goes
  <2>2. Steps' = Steps /\ \A i : cum(i)' = cum(i)
    BY <1>1, ScheduleStays DEF Steps
  <2>3. ClockTyped'
    BY <1>1, <1>2, <1>7, <2>1, <2>2 DEF ClockInv, ClockTyped
  <2>4. ClocksInOrder'
    BY <1>1, <2>1 DEF ClockInv, ClocksInOrder
  <2>5. EarlierStepsOver'
    <3> SUFFICES ASSUME NEW i \in 1 .. step PROVE now >= start + cum(i)
      BY <1>1, <1>2, <2>1, <2>2 DEF EarlierStepsOver
    <3>1. CASE i = step
      BY <1>4, <3>1
    <3>2. CASE i # step
      BY <1>2, <3>2 DEF ClockInv, EarlierStepsOver
    <3> QED BY <3>1, <3>2
  <2>6. EndsOnlyWhenOver'
    BY <2>1 DEF EndsOnlyWhenOver
  <2> QED BY <1>5, <2>3, <2>4, <2>5, <2>6 DEF ClockInv
<1> QED BY <1>6, <1>7

LEMMA ClockInvStep == ClockInv /\ [ClockNext]_clockVars => ClockInv'
<1> SUFFICES ASSUME ClockInv, [ClockNext]_clockVars PROVE ClockInv'
  OBVIOUS
<1>t. now \in Nat /\ start \in Nat /\ args \in Options
  BY DEF ClockInv, ClockTyped
<1>1. CASE Start
  <2>1. /\ UNCHANGED <<args, now, began, step, label>> /\ start' = now
        /\ loc = "start" /\ loc' = "pace_from"
    BY <1>1 DEF Start, Goes
  <2>2. began = NotYet /\ step = 1
    BY <2>1 DEF ClockInv, ClocksInOrder
  <2>3. Steps' = Steps
    BY <2>1, ScheduleStays DEF Steps
  <2>4. ClockTyped'
    BY <2>1, <2>3 DEF ClockInv, ClockTyped
  <2> QED BY <2>1, <2>2, <2>4 DEF ClockInv, ClocksInOrder, EarlierStepsOver,
                                  LabelNotBehind, EndsOnlyWhenOver
<1>2. CASE Begin
  <2>1. /\ UNCHANGED <<args, now, start, step, label>> /\ began' = now
        /\ began = NotYet /\ loc' = "pull"
    BY <1>2 DEF Begin, Goes
  <2>2. step = 1
    BY <2>1 DEF ClockInv, ClocksInOrder
  <2>3. Steps' = Steps
    BY <2>1, ScheduleStays DEF Steps
  <2>4. ClockTyped'
    BY <2>1, <2>3 DEF ClockInv, ClockTyped
  <2>5. ClocksInOrder'
    BY <2>1, <1>t DEF ClockInv, ClockTyped, ClocksInOrder, NotYet
  <2> QED BY <2>1, <2>2, <2>4, <2>5 DEF ClockInv, EarlierStepsOver,
                                        LabelNotBehind, EndsOnlyWhenOver
<1>3. CASE Label
  <2>1. /\ UNCHANGED <<args, now, start, began, step>> /\ loc' = "send"
        /\ label' = active_name(now - start)
    BY <1>3 DEF Label, Goes
  <2>2. (ClockTyped /\ ClocksInOrder /\ EarlierStepsOver)'
    BY <1>t, <2>1, ClockKept
  <2>3. LabelNotBehind'
    BY <2>1, ActiveNotBehind DEF LabelNotBehind
  <2> QED BY <2>1, <2>2, <2>3 DEF ClockInv, EndsOnlyWhenOver
<1>4. CASE Check
  BY <1>4, ClockCheck
<1>5. CASE NextStep
  BY <1>5, ClockNextStep
<1>6. CASE PaceFrom \/ Yield \/ Send \/ Pace \/ Recover \/ Wake
  <2>1. /\ UNCHANGED <<args, now, start, began, step, label>>
        /\ loc' \in {"check", "label", "pace", "sleep", "recover"}
    BY <1>6 DEF PaceFrom, Yield, Send, Pace, Recover, Wake, Goes
  <2>2. (ClockTyped /\ ClocksInOrder /\ EarlierStepsOver)'
    BY <1>t, <2>1, ClockKept
  <2> QED BY <2>1, <2>2 DEF ClockInv, LabelNotBehind, EndsOnlyWhenOver
<1>7. CASE TimePasses
  <2>1. /\ UNCHANGED <<args, loc, start, began, step, label>>
        /\ now' = now + 1 /\ loc # "done"
    BY <1>7 DEF TimePasses
  <2>2. (ClockTyped /\ ClocksInOrder /\ EarlierStepsOver)'
    BY <1>t, <2>1, ClockKept
  <2> QED BY <2>1, <2>2 DEF ClockInv, LabelNotBehind, EndsOnlyWhenOver
<1>8. CASE UNCHANGED clockVars
  <2>1. UNCHANGED <<args, now, loc, start, began, step, label>>
    BY <1>8 DEF clockVars
  <2>2. (ClockTyped /\ ClocksInOrder /\ EarlierStepsOver)'
    BY <1>t, <2>1, ClockKept
  <2>3. EndsOnlyWhenOver'
    BY <2>1, LengthsStay DEF ClockInv, EndsOnlyWhenOver
  <2> QED BY <2>1, <2>2, <2>3 DEF ClockInv, LabelNotBehind
<1> QED
  BY <1>1, <1>2, <1>3, <1>4, <1>5, <1>6, <1>7, <1>8 DEF ClockNext, Process

\* run_loop names a frame by its own clock and Schedule.frames draws it by
\* another: the name is never that of a step already over, for every script.
THEOREM LabelsKeepUp == ClockSpec => []LabelNotBehind
<1>1. ClockInv => LabelNotBehind
  BY DEF ClockInv
<1> QED BY <1>1, ClockInvInit, ClockInvStep, PTL DEF ClockSpec

\* However its generators run dry and its frames drag, a demo does not end
\* before its schedule or the duration asked for is over.
THEOREM NoEarlyEnd == ClockSpec => []EndsOnlyWhenOver
<1>1. ClockInv => EndsOnlyWhenOver
  BY DEF ClockInv
<1> QED BY <1>1, ClockInvInit, ClockInvStep, PTL DEF ClockSpec

==============================================================================
