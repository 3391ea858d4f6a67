----------------------------- MODULE BoardTools -----------------------------
(***************************************************************************)
(* The silicon checks and the Bloom hot load, run against Board: each is a  *)
(* plan of transfers and a judgement of the answers.  Another process may   *)
(* send packets before and, for the hot load, between them; a frame may be  *)
(* lost (CS up early) and btnC pressed.                                     *)
(***************************************************************************)
EXTENDS GoldenStream

Seqs == INSTANCE SequencesExt

CONSTANTS
    NewC2,          \* --new-c2
    Sample,         \* --sample, at most the words there are: with more of them
                    \* random.sample raises, after the load and before the check
    SrcA, SrcB,     \* one flow bucket, two fingerprints
    OtherFrame,     \* packets of the other process
    MaxOthers, MaxFaults    \* bounds

ASSUME PairAssumption ==    \* silicon_flow_check.py's precondition
    FlowBucket[SrcA] = FlowBucket[SrcB] /\ FlowFp[SrcA] # FlowFp[SrcB]

\* The sizes of the board (4096 words, 512 rules, 256 seqs), the hashes within,
\* and the addresses the scripts send.
ASSUME ToolsAssumption ==
    /\ {Words, RuleDepth} \subseteq Nat \ {0, 1}
    /\ Sample \in 0 .. Words
    /\ {DefaultPort, DefaultHost, DefaultRate} \subseteq Nat \ {0}
    /\ {PktMax, CountMod, WindowLen, Epochs} \subseteq Nat \ {0}
    /\ SeqMod \in Nat \ {0, 1}
    /\ \A ip \in Ip : /\ {Hash1[ip].word, Hash2[ip].word} \subseteq 0 .. Words - 1
                      /\ RuleHash[ip] \in 0 .. RuleDepth - 1
    /\ C2 \cup NewC2 \cup {SrcA, SrcB} \subseteq Ip
    /\ \A f \in OtherFrame : f.op = ClassifyOp

VARIABLES
    script,         \* the script that runs
    plan,           \* the frames it sends, one transfer each
    rx,             \* what those transfers returned
    others,         \* packets of the other process so far
    lost,           \* the frames of plan, by position, that did not arrive
    resets          \* the positions in plan before which btnC was pressed

toolVars == <<script, plan, rx, others, lost, resets>>
vars == <<boardVars, toolVars>>

Req(op, at, val) == [op |-> op, hdr |-> hdr(ZeroIp, ZeroIp, 1, FALSE, {}).hdr,
                     at |-> at, val |-> val]
Asking(op, at) == Req(op, at, [none |-> 0])
Flush == Asking(ClassifyOp, 0)

(***************************************************************************)
(* hot_load_bloom.py                                                        *)
(***************************************************************************)
build_words == from_ips(NewC2)
nonzero_addrs == {w \in DOMAIN build_words : build_words[w] # {}}

\* random.sample of the zero words, if the nonzero ones leave room for any.
ZeroSamples ==
    LET zero_pool == DOMAIN build_words \ nonzero_addrs
    IN  {S \in SUBSET zero_pool :
            Cardinality(S) = Largest({0, Sample - Cardinality(nonzero_addrs)})}

WordWrites == [i \in 1 .. Words |->
                  Req(BloomWriteOp, i - 1, [word |-> build_words[i - 1]])]

\* Mutant of Load: the filter is emptied first.
LoadFromEmpty(zeros) ==
    [i \in 1 .. Words |-> Req(BloomWriteOp, i - 1, [word |-> {}])]
    \o WordWrites \o <<Flush>>

\* Mutant of Load: a sample of a sparse filter, zero words all of it.
LoadSampled(zeros) ==
    WordWrites \o <<Flush>>
    \o Seqs!FlattenSeq([i \in 1 .. Cardinality(zeros) |->
            <<Asking(BloomReadOp, Seqs!SetToSeq(zeros)[i]), Flush>>])

\* Bulk write with the acks dropped, then read-backs one at a time.
Load(zeros) ==
    LET addrs == Seqs!SetToSeq(nonzero_addrs) \o Seqs!SetToSeq(zeros)
    IN  WordWrites \o <<Flush>>
        \o Seqs!FlattenSeq([i \in DOMAIN addrs |->
                              <<Asking(BloomReadOp, addrs[i]), Flush>>])

(***************************************************************************)
(* silicon_runtime_check.py                                                 *)
(***************************************************************************)
MyRule == [src |-> SrcA, action |-> {0, 2}, sev |-> 3, epoch |-> 1]

write_then_read(op, at, val, read) ==
    <<Req(op, at, val), Flush, Asking(read, at), Flush>>

RuntimeCheck ==
    write_then_read(ThreshWriteOp, 2, [value |-> DefaultRate + 1], ThreshReadOp)
    \o write_then_read(BloomWriteOp, 1, [word |-> {0, 1}], BloomReadOp)
    \o write_then_read(RuleWriteOp, 1, [rule |-> MyRule], RuleReadOp)

(***************************************************************************)
(* silicon_flow_check.py, spi_verdict_check.py                              *)
(***************************************************************************)
\* One port short of a scan, the eviction, and the port that would make one.
FlowCheck ==
    [i \in 1 .. DefaultPort - 1 |-> Syn(SrcA, 1, i)]
    \o <<Syn(SrcB, 1, DefaultPort), Syn(SrcA, 1, DefaultPort), Flush>>

VerdictCheck == build_stream \o <<Flush>>

\* A frame that was lost is none of the scripts', and one SYN is no scan.
ASSUME PlansAssumption ==
    /\ \A zeros \in ZeroSamples : \A k \in DOMAIN Load(zeros) : Load(zeros)[k] # NoFrame
    /\ \A k \in DOMAIN RuntimeCheck : RuntimeCheck[k] # NoFrame
    /\ \A k \in DOMAIN FlowCheck : FlowCheck[k] # NoFrame
    /\ \A k \in DOMAIN VerdictCheck : VerdictCheck[k] # NoFrame
    /\ DefaultPort > 1 /\ DefaultHost > 1

(***************************************************************************)
(* What the scripts decide by                                               *)
(***************************************************************************)
\* rx[k] answers frame k - 1.
AnswerTo(k) == rx[k + 1]

Written(op, at) == CHOOSE f \in Seqs!ToSet(plan) : f.op = op /\ f.at = at

\* The answer that read-back k has to get.
ReadBack(k) ==
    LET f == plan[k]
    IN  CASE f.op = BloomReadOp ->
               Ack([addr |-> f.at, word |-> Written(BloomWriteOp, f.at).val.word])
          [] f.op = ThreshReadOp ->
               Ack([id |-> f.at, value |-> Written(ThreshWriteOp, f.at).val.value])
          [] f.op = RuleReadOp ->
               Ack([idx |-> f.at, rule |-> Written(RuleWriteOp, f.at).val.rule])

Reads == {k \in DOMAIN plan : plan[k].op \in BloomReadOp .. RuleReadOp}
Writes == {k \in DOMAIN plan : plan[k].op \in BloomWriteOp .. RuleWriteOp}

LoadPassed == \A k \in Reads : AnswerTo(k) = ReadBack(k)

\* Mutant of RuntimePassed: errs starts anew with each section.
LastSectionPassed ==
    \A k \in Reads : plan[k].op = RuleReadOp => AnswerTo(k) = ReadBack(k)

RuntimePassed ==
    /\ \A k \in Writes : AnswerTo(k) = Ack([acked |-> plan[k].op])
    /\ \A k \in Reads : AnswerTo(k) = ReadBack(k)

FlowPassed ==
    LET v == AnswerTo(Len(plan) - 1)
    IN  v.magic = 165 /\ ~v.body.verdict.scan

RowOk(k) == /\ AnswerTo(k).magic = 165
            /\ AnswerTo(k).body.verdict = expected_rows[k]

\* Mutant of evaluate_run: the last row is left out.
EvaluateButLast ==
    /\ \A k \in 1 .. Len(expected_rows) - 1 : RowOk(k)
    /\ \A k \in 2 .. Len(plan) - 2 :
          AnswerTo(k).body.seq = (AnswerTo(k - 1).body.seq + 1) % SeqMod

\* evaluate_run: the first seq is free, then each is one more.
evaluate_run ==
    /\ \A k \in DOMAIN expected_rows : RowOk(k)
    /\ \A k \in 2 .. Len(plan) - 1 :
          AnswerTo(k).body.seq = (AnswerTo(k - 1).body.seq + 1) % SeqMod

Finished == Len(rx) = Len(plan)
Passed == CASE script = "hot_load" -> LoadPassed
            [] script = "runtime_check" -> RuntimePassed
            [] script = "flow_check" -> FlowPassed
            [] script = "verdict_check" -> evaluate_run

(***************************************************************************)
(* The bus                                                                  *)
(***************************************************************************)
\* send_frame: the transfer returns what the board held at its start.
send_frame(f) == Transfer(f) /\ rx' = Append(rx, resp')

\* CS rises before the last bit: the answer came out, the frame is no frame.
LoseFrame ==
    /\ Cardinality(lost \cup resets) < MaxFaults
    /\ send_frame(NoFrame)
    /\ lost' = lost \cup {Len(rx) + 1}
    /\ UNCHANGED resets

PressReset(f) ==
    /\ Cardinality(lost \cup resets) < MaxFaults
    /\ AfterReset(f) /\ rx' = Append(rx, resp')
    /\ resets' = resets \cup {Len(rx) + 1}
    /\ UNCHANGED lost

Step ==
    /\ ~Finished
    /\ LET f == plan[Len(rx) + 1]
       IN  \/ send_frame(f) /\ UNCHANGED <<lost, resets>>
           \/ LoseFrame
           \/ PressReset(f)
    /\ UNCHANGED <<script, plan, others>>

Other ==
    /\ others < MaxOthers
    /\ rx = <<>> \/ (script = "hot_load" /\ ~Finished)
    /\ \E f \in OtherFrame : Transfer(f)
    /\ others' = others + 1
    /\ UNCHANGED <<script, plan, rx, lost, resets>>

ToolsInit ==
    /\ bloom = from_ips(C2)
    /\ flow = [b \in {FlowBucket[ip] : ip \in Ip} |-> FreshCell(ZeroIp, 0)]
    /\ rules = [i \in 0 .. RuleDepth - 1 |-> BlankRule]
    /\ Init
    /\ \/ /\ script = "hot_load"
          /\ \E zeros \in ZeroSamples : plan = Load(zeros)
       \/ script = "runtime_check" /\ plan = RuntimeCheck
       \/ script = "flow_check" /\ plan = FlowCheck
       \/ script = "verdict_check" /\ plan = VerdictCheck
    /\ rx = <<>> /\ others = 0 /\ lost = {} /\ resets = {}

ToolsSpec == ToolsInit /\ [][Step \/ Other]_vars

(***************************************************************************)
(* Properties                                                               *)
(***************************************************************************)
\* hot_load_bloom.py: the filter is replaced word by word while packets are
\* classified; an address that is in the old set and in the new one hits all
\* the way through, whatever frame is lost and whenever btnC is pressed.
KeptMembersAlwaysHit ==
    script = "hot_load" => \A ip \in C2 \cap NewC2 : Member(ip)

\* A load that reports PASS left no address of the new set out, although the
\* acks of the writes are dropped.
PassedLoadMissesNone ==
    Finished /\ script = "hot_load" /\ Passed => \A ip \in NewC2 : Member(ip)

\* silicon_runtime_check.py: on PASS the board holds what was written, a
\* write that got lost does not go unnoticed.
PassedRoundTripHolds ==
    Finished /\ script = "runtime_check" /\ Passed /\ resets = {} =>
        /\ regs.rate = DefaultRate + 1
        /\ bloom[1] = {0, 1}
        /\ rules[1] = MyRule

\* silicon_flow_check.py: PASS is the flow table's doing.  The cell of the
\* source that came back counts from its return.
PassedFlowMeansEvicted ==
    Finished /\ script = "flow_check" /\ Passed /\ lost = {} /\ resets = {} =>
        LET cell == flow[FlowBucket[SrcA]]
        IN  cell.fp = FlowFp[SrcA] /\ cell.pkts = 1

\* spi_verdict_check.py: on a board nobody used before, PASS means that every
\* frame of the stream was classified, in one go; only the flush may be
\* missing, and btnC have been pressed before the first.
PassedStreamIsWhole ==
    Finished /\ script = "verdict_check" /\ Passed /\ others = 0 =>
        lost \subseteq {Len(plan)} /\ resets \subseteq {1}

\* No script fails a sound board: the coarse table of the golden reference
\* expects what the flow table does, and every answer is looked for in the
\* right transfer.
SoundBoardPasses ==
    /\ Finished /\ lost = {} /\ resets = {}
    /\ others = 0 \/ script \in {"runtime_check", "flow_check"}
    => Passed

=============================================================================
