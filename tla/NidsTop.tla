------------------------------- MODULE NidsTop -------------------------------
(***************************************************************************)
(* nids_top.v with everything it instantiates, clocked by the frames a Pi   *)
(* sends.  One step is one rising edge of clk: all registers move at once,  *)
(* from their values before the edge.  The SPI slave is abstracted to the   *)
(* three edges the rest of the design can see: CS falls (the response is    *)
(* latched into the transmit shift register), the last bit arrives (the     *)
(* frame is handed over), anything else.                                    *)
(***************************************************************************)
EXTENDS Classifiers, Telemetry

CONSTANTS
    Frame,          \* the request frames the Pi may send
    NoFrame,        \* "nothing sent yet"
    SeqMod,         \* 2^8, the width of seq
    CountMod,       \* 2^16, the width of frame_count
    Gap,            \* least cycles from a received frame to the next CS fall
    Slack,          \* bound: idle cycles the Pi may add to the gap
    ResetCycles,    \* cycles btnC stays pressed
    MaxFrames,      \* bound: transfers in one behaviour
    MaxResets       \* bound: presses of btnC in one behaviour

\* What the fields of a frame hold, by its opcode.
WellFormed(f) ==
    /\ f = [op |-> f.op, hdr |-> f.hdr, at |-> f.at, val |-> f.val]
    /\ f.hdr \in Packet /\ f.op \in Opcode /\ f.at \in Nat
    /\ f.op = BloomWriteOp => f.val.word \in SUBSET BitPos
    /\ f.op = RuleWriteOp => f.val.rule \in Rule
    /\ f.op = ThreshWriteOp => f.val.value \in Nat

\* Depth of the classify pipeline: cycles from a received frame until its
\* verdict is in tx_reg.
Drained == 11

ASSUME TopAssumption ==
    /\ \A f \in Frame : WellFormed(f)
    /\ NoFrame \notin Frame
    /\ {SeqMod, CountMod} \subseteq Nat \ {0}
    /\ {Gap, Slack, ResetCycles, MaxFrames, MaxResets} \subseteq Nat
    /\ Gap >= Drained

VARIABLES
    rx,         \* spi_slave_rx outputs: rx_frame, rx_frame_valid
    hp,         \* header_parser outputs: the packet, fields_valid
    top,        \* inflight_op, frame_count, frame_idx, seq_reg
    venc,       \* verdict_encoder outputs
    ctrl,       \* ctrl_pipe1, ctrl_pipe2 and the control latches
    q_key,      \* q_key_reg
    tx,         \* tx_reg
    link,       \* the SPI transfer and the latched response
    btn,        \* cycles btnC is still pressed
    frames_left, resets_left,   \* transfers and presses that may still come
    view        \* history: the board's memories when CS last fell

topVars == <<rx, hp, top, venc, ctrl, q_key, tx>>
vars == <<classifierVars, telVars, topVars, link, btn, frames_left,
          resets_left, view>>

NoResponse == [magic |-> 0, body |-> [none |-> 0]]
Telemetered(body) == [magic |-> 90, body |-> body]                  \* 0x5A

rst == btn > 0

(***************************************************************************)
(* Wires                                                                    *)
(***************************************************************************)
ClassifyNow == hp.valid /\ top.op = ClassifyOp
CmsQueryNow == hp.valid /\ top.op = CmsQueryOp
CtrlNow     == hp.valid /\ top.op \in ControlOps
Doing(op)   == hp.valid /\ top.op = op

\* rs_r_idx_mux: the lookup owns the read port except under opcode 0x15.
RuleReadIdx == IF top.op = RuleReadOp THEN rx.frame.at % RuleDepth
                                      ELSE RuleHash[hp.pkt.src]

(***************************************************************************)
(* The registers of nids_top, header_parser and verdict_encoder             *)
(***************************************************************************)
\* Mutant of OpClock: seq as wide as frame_count.
WideSeqOpClock ==
    top' = [op |-> IF rx.valid THEN rx.frame.op ELSE top.op,
            count |-> IF rst THEN 0 ELSE IF rx.valid
                      THEN (top.count + 1) % CountMod ELSE top.count,
            idx |-> IF rst THEN 0 ELSE IF rx.valid THEN top.count ELSE top.idx,
            seq |-> IF rst THEN 0 ELSE IF rx.valid
                    THEN (top.count + 1) % CountMod ELSE top.seq]

\* Mutant of OpClock: frame_idx latched after the increment.
LateIndexOpClock ==
    top' = [op |-> IF rx.valid THEN rx.frame.op ELSE top.op,
            count |-> IF rst THEN 0 ELSE IF rx.valid
                      THEN (top.count + 1) % CountMod ELSE top.count,
            idx |-> IF rst THEN 0 ELSE IF rx.valid
                    THEN (top.count + 1) % CountMod ELSE top.idx,
            seq |-> IF rst THEN 0 ELSE IF rx.valid
                    THEN (top.count + 1) % SeqMod ELSE top.seq]

OpClock ==
    /\ top' = [op |-> IF rx.valid THEN rx.frame.op ELSE top.op,
               count |-> IF rst THEN 0 ELSE IF rx.valid
                         THEN (top.count + 1) % CountMod ELSE top.count,
               idx |-> IF rst THEN 0 ELSE IF rx.valid THEN top.count
                                                      ELSE top.idx,
               seq |-> IF rst THEN 0 ELSE IF rx.valid
                       THEN (top.count + 1) % SeqMod ELSE top.seq]

ParserClock ==
    hp' = [pkt |-> IF ~rst /\ rx.valid THEN rx.frame.hdr ELSE hp.pkt,
           valid |-> ~rst /\ rx.valid]

\* The verdict gets the sequence number of the cycle it is encoded in.
EncoderClock ==
    venc' = [resp |-> IF rst THEN NoResponse ELSE IF cl_out.valid
                      THEN [magic |-> 165, body |->
                              [verdict |-> cl_out.verdict, seq |-> top.seq]]
                      ELSE venc.resp,
             valid |-> ~rst /\ cl_out.valid]

\* No reset: the pipeline runs on while btnC is pressed.
CtrlClock ==
    /\ ctrl' = [p1 |-> CtrlNow, p2 |-> ctrl.p1,
                op |-> IF CtrlNow THEN top.op ELSE ctrl.op,
                at |-> IF CtrlNow THEN rx.frame.at ELSE ctrl.at]
    /\ q_key' = IF CmsQueryNow THEN hp.pkt.src ELSE q_key

(***************************************************************************)
(* The response mux: what each opcode loads into tx_reg, and when.          *)
(***************************************************************************)
ControlLoads ==
    /\ ctrl.p2
    /\ \/ /\ ctrl.op \in {BloomWriteOp, ThreshWriteOp, RuleWriteOp}
          /\ tx' = Telemetered([acked |-> ctrl.op])
       \/ /\ ctrl.op = BloomReadOp
          /\ tx' = Telemetered([addr |-> ctrl.at, word |-> bf_r_data])
       \/ /\ ctrl.op = ThreshReadOp
          /\ tx' = Telemetered([id |-> ctrl.at, value |-> thr_r_val])
       \/ /\ ctrl.op = RuleReadOp
          /\ tx' = Telemetered([idx |-> ctrl.at, rule |-> rs_rule])

DataLoads ==
    \/ /\ top.op = ClassifyOp /\ venc.valid
       /\ tx' = venc.resp
    \/ /\ top.op = CmsQueryOp /\ cms.q_done
       /\ tx' = Telemetered([key |-> q_key, count |-> cms.q_count])
    \/ /\ Doing(SnapshotOp)
       /\ tx' = Telemetered(snap)
    \/ /\ Doing(HarmonicOp)
       /\ tx' = Telemetered([sum |-> hll.sum, zeros |-> hll.zeros,
                              m |-> Cardinality(Register)])

ControlReady == ctrl.p2 /\ ctrl.op \in BloomWriteOp .. RuleReadOp
DataReady ==
    \/ top.op = ClassifyOp /\ venc.valid
    \/ top.op = CmsQueryOp /\ cms.q_done
    \/ Doing(SnapshotOp) \/ Doing(HarmonicOp)

\* The control case statement comes last in the block: its load wins.
TxClock ==
    \/ rst /\ tx' = NoResponse
    \/ ~rst /\ ControlReady /\ ControlLoads
    \/ ~rst /\ ~ControlReady /\ DataReady /\ DataLoads
    \/ ~rst /\ ~ControlReady /\ ~DataReady /\ UNCHANGED tx

(***************************************************************************)
(* One clock edge of the board                                              *)
(***************************************************************************)
BoardClock ==
    /\ OpClock /\ ParserClock /\ EncoderClock /\ CtrlClock /\ TxClock
    /\ ThrClock(rst, Doing(ThreshWriteOp), rx.frame.at, rx.frame.val.value)
    /\ StoreClock(Doing(RuleWriteOp), rx.frame.at % RuleDepth, rx.frame.val.rule, RuleReadIdx)
    /\ BloomClock(rst, ClassifyNow, hp.pkt, Doing(BloomWriteOp),
                  Doing(BloomReadOp), rx.frame.at % Words, rx.frame.val.word)
    /\ FlowClock(rst, ClassifyNow, hp.pkt, top.idx, thr)
    /\ LookupClock(rst, ClassifyNow, hp.pkt.src)
    /\ CombineClock(rst, ClassifyNow)
    /\ TelClock(rst, ClassifyNow, hp.pkt.src, CmsQueryNow, hp.pkt.src)

(***************************************************************************)
(* The Pi and the button                                                    *)
(***************************************************************************)
NoRx == [rx EXCEPT !.valid = FALSE]
Older == IF link.age < Gap + Slack THEN link.age + 1 ELSE link.age

Memories == [bloom |-> bf_mem, flow |-> ft_mem, rules |-> rs_mem,
             regs |-> thr, count |-> top.count]

\* Mutant of CsFall: the next transfer does not wait for the gap.
HastyCsFall(f) ==
    /\ ~rst /\ ~link.busy /\ frames_left > 0
    /\ link' = [busy |-> TRUE, age |-> link.age, frame |-> f, got |-> tx]
    /\ frames_left' = frames_left - 1
    /\ view' = Memories
    /\ rx' = NoRx

\* CS falls: the transmit register takes the response there is, and the Pi
\* clocks the next frame.  A CS that falls before or in a reset which is over
\* by the first edge of SCLK makes this step on the first edge after it: the
\* frame is received whole, and the answer is the zeros of the reset tx_reg.
CsFall(f) ==
    /\ ~rst /\ ~link.busy /\ link.age >= Gap /\ frames_left > 0
    /\ link' = [busy |-> TRUE, age |-> link.age, frame |-> f, got |-> tx]
    /\ frames_left' = frames_left - 1
    /\ view' = Memories
    /\ rx' = NoRx

\* The 256th bit: rx_frame and rx_frame_valid are registered.
LastBit ==
    /\ ~rst /\ link.busy
    /\ link' = [link EXCEPT !.busy = FALSE, !.age = 0]
    /\ rx' = [frame |-> link.frame, valid |-> TRUE]
    /\ UNCHANGED <<frames_left, view>>

\* No edge on the bus.
Quiet ==
    /\ ~rst /\ link.age < Gap + Slack
    /\ link' = [link EXCEPT !.age = Older]
    /\ rx' = NoRx
    /\ UNCHANGED <<frames_left, view>>

\* An edge under reset: the receive counters are held at zero, so a transfer
\* under way never completes its 256 bits.
Held ==
    /\ rst
    /\ link' = [link EXCEPT !.busy = FALSE, !.age = Older]
    /\ rx' = NoRx
    /\ UNCHANGED <<frames_left, view>>

\* btnC is up, goes down (the edge of this step still sees it up), is down.
NoPress == ~rst /\ UNCHANGED <<btn, resets_left>>
Press ==
    /\ ~rst /\ resets_left > 0
    /\ btn' = ResetCycles
    /\ resets_left' = resets_left - 1
Hold == rst /\ btn' = btn - 1 /\ UNCHANGED resets_left

Bus == (\E f \in Frame : CsFall(f)) \/ LastBit \/ Quiet \/ Held
Button == NoPress \/ Press \/ Hold

NoValue == [none |-> 0]
BootFrame(p) == [op |-> 0, hdr |-> p, at |-> 0, val |-> NoValue]

\* Power-on: every register zero unless the source initialises it otherwise.
\* mem is the content of bloom_init.mem, p a header of zero bytes.
InitFrom(mem, p) ==
    /\ BloomInit(mem) /\ FlowInit(p) /\ RuleInit /\ CombineInit /\ TelInit
    /\ rx = [frame |-> BootFrame(p), valid |-> FALSE]
    /\ hp = [pkt |-> p, valid |-> FALSE]
    /\ top = [op |-> 0, count |-> 0, idx |-> 0, seq |-> 0]
    /\ venc = [resp |-> NoResponse, valid |-> FALSE]
    /\ ctrl = [p1 |-> FALSE, p2 |-> FALSE, op |-> 0, at |-> 0]
    /\ q_key = ZeroIp
    /\ tx = NoResponse
    /\ link = [busy |-> FALSE, age |-> Gap, frame |-> NoFrame,
               got |-> NoResponse]
    /\ btn = 0
    /\ frames_left = MaxFrames /\ resets_left = MaxResets
    /\ view = Memories

CONSTANTS BootBloom, ZeroPacket

ASSUME BootAssumption ==
    /\ BootBloom \in [Word -> SUBSET BitPos]
    /\ ZeroPacket \in Packet /\ ZeroPacket.src = ZeroIp

Init == InitFrom(BootBloom, ZeroPacket)
Next == BoardClock /\ Bus /\ Button
Spec == Init /\ [][Next]_vars

(***************************************************************************)
(* Properties                                                               *)
(***************************************************************************)
Seqs == 0 .. SeqMod - 1
FrameIndex == 0 .. CountMod - 1
Magic == {0, 90, 165}
LinkAge == 0 .. Gap + Slack

Body ==
    {[none |-> 0]} \cup [acked : Opcode] \cup [verdict : Verdict, seq : Seqs]
      \cup [addr : Nat, word : SUBSET BitPos] \cup [id : Nat, value : Nat]
      \cup [idx : Nat, rule : Rule] \cup [key : Ip, count : Count]
      \cup Snapshot \cup [sum : Sum, zeros : Zeros, m : Nat]
Response == [magic : Magic, body : Body]

TopTypeOK ==
    /\ rx \in [frame : Frame \cup {BootFrame(ZeroPacket)}, valid : BOOLEAN]
    /\ hp \in [pkt : Packet, valid : BOOLEAN]
    /\ top \in [op : Opcode, count : FrameIndex, idx : FrameIndex, seq : Seqs]
    /\ venc \in [resp : Response, valid : BOOLEAN]
    /\ ctrl \in [p1 : BOOLEAN, p2 : BOOLEAN, op : Opcode, at : Nat]
    /\ q_key \in Ip
    /\ tx \in Response

LinkTypeOK ==
    /\ link \in [busy : BOOLEAN, age : LinkAge,
                 frame : Frame \cup {NoFrame}, got : Response]
    /\ link.busy => link.frame \in Frame
    /\ btn \in 0 .. ResetCycles
    /\ frames_left \in 0 .. MaxFrames
    /\ resets_left \in 0 .. MaxResets

\* Every register holds a value of its width, through every wrap and reset.
TypeOK == /\ BloomTypeOK /\ FlowTypeOK /\ RuleTypeOK /\ CombineTypeOK
          /\ TelTypeOK /\ TopTypeOK /\ LinkTypeOK

At(age) == ~link.busy /\ link.age = age

\* The schedule of one frame: a stage that is active tells how many cycles
\* ago the frame was received.  So at most one frame is in the board, its
\* stages never overlap with those of the next, and nothing but the received
\* frame moves a memory.
FrontSchedule ==
    /\ rx.valid => At(0)
    /\ hp.valid => At(1)
    /\ ~rx.valid => top.op = rx.frame.op
    /\ ctrl.p1 => At(2)
    /\ ctrl.p2 => At(3)
    /\ cl_out.valid => At(9)
    /\ venc.valid => At(10)
    /\ link.busy => link.age >= Gap

TelemetrySchedule ==
    /\ cms.phase # 0 => At(cms.phase + 1)
    /\ cms.q_done \/ cms.upd_done => At(5)
    /\ hll.phase # 0 => At(hll.phase + 1)

\* The three classifier stages hold no packet, or the one packet they are all
\* at the same age of: the rule lookup answers first, then the flow table,
\* then the bloom filter.
Idle ==
    /\ bf.phase = 0 /\ ~bf.valid
    /\ ft.phase = 0 /\ ~ft.valid
    /\ rl.phase = 0 /\ ~rl.valid
    /\ cl_done = {}

InFlight ==
    /\ ~link.busy /\ link.age \in 2 .. 8
    /\ bf.phase = IF link.age <= 6 THEN link.age - 1 ELSE 0
    /\ bf.valid <=> link.age = 7
    /\ ft.phase = IF link.age <= 4 THEN link.age - 1 ELSE 0
    /\ ft.valid <=> link.age = 5
    /\ rl.phase = IF link.age = 2 THEN 1 ELSE 0
    /\ rl.valid <=> link.age = 3
    /\ "rule" \in cl_done <=> link.age >= 4
    /\ "flow" \in cl_done <=> link.age >= 6
    /\ "bloom" \in cl_done <=> link.age = 8

Schedule == FrontSchedule /\ TelemetrySchedule /\ (Idle \/ InFlight)

Member(ip) == BothBits(bf_mem[Hash1[ip].word], bf_mem[Hash2[ip].word], ip)
Matches(src) == /\ rs_mem[RuleHash[src]].src = src
                /\ rs_mem[RuleHash[src]].epoch = RuleEpoch
CellOf(src) == ft_mem[FlowBucket[src]]

\* What the three stages owe to a packet, from the memories as they are.
Owed(p) ==
    [bloom  |-> Member(p.src) \/ Member(p.dst),
     scan   |-> \/ Cardinality(CellOf(p.src).ports) >= thr.port
                \/ Cardinality(CellOf(p.src).hosts) >= thr.host,
     rate   |-> CellOf(p.src).pkts >= thr.rate,
     rule   |-> Matches(p.src),
     action |-> IF Matches(p.src) THEN rs_mem[RuleHash[p.src]].action ELSE {},
     sev    |-> IF Matches(p.src) THEN rs_mem[RuleHash[p.src]].sev ELSE 0]

\* How far each stage is with the packet: what it read so far is what the
\* memory holds, and what it answered is what is owed.
BloomProgress(p) ==
    LET read(hash, ip) == bf_mem[hash[ip].word]
    IN  /\ bf.phase # 0 => bf.src = p.src /\ bf.dst = p.dst
        /\ bf.phase = 1 => bf.addr = Hash1[p.src].word
        /\ bf.phase = 2 => /\ bf.addr = Hash2[p.src].word
                           /\ bf.rdata = read(Hash1, p.src)
        /\ bf.phase = 3 => /\ bf.addr = Hash1[p.dst].word
                           /\ bf.rdata = read(Hash2, p.src)
        /\ bf.phase = 4 => /\ bf.addr = Hash2[p.dst].word
                           /\ bf.rdata = read(Hash1, p.dst)
        /\ bf.phase = 5 => /\ bf.h1d = read(Hash1, p.dst)
                           /\ bf.rdata = read(Hash2, p.dst)
        /\ bf.phase \in 3 .. 5 => bf.h1s = read(Hash1, p.src)
        /\ bf.phase \in 4 .. 5 => bf.h2s = read(Hash2, p.src)
        /\ bf.valid => bf.hit = Owed(p).bloom
        /\ "bloom" \in cl_done => cl.bloom = Owed(p).bloom

FlowProgress(p) ==
    /\ ft.phase # 0 => ft.pkt = p
    /\ ft.phase = 2 => ft.rdata = CellOf(p.src)
    /\ ft.phase = 3 => /\ ft.ports = CellOf(p.src).ports
                       /\ ft.hosts = CellOf(p.src).hosts
                       /\ ft.pkts = CellOf(p.src).pkts
    /\ ft.valid => ft.scan = Owed(p).scan /\ ft.rate = Owed(p).rate
    /\ "flow" \in cl_done => cl.scan = Owed(p).scan /\ cl.rate = Owed(p).rate

RuleProgress(p) ==
    /\ rl.phase = 1 => /\ rl.src = p.src /\ rl.epoch = RuleEpoch
                       /\ rs_rule = rs_mem[RuleHash[p.src]]
    /\ rl.valid => /\ rl.match = Owed(p).rule /\ rl.action = Owed(p).action
                   /\ rl.sev = Owed(p).sev
    /\ "rule" \in cl_done => /\ cl.rule = Owed(p).rule
                             /\ cl.action = Owed(p).action
                             /\ cl.sev = Owed(p).sev

\* The progress of the packet in flight, stage by stage: the invariant behind
\* VerdictExact.  The button never leaves a stage with part of a packet.
Progress == BloomProgress(hp.pkt) /\ FlowProgress(hp.pkt) /\ RuleProgress(hp.pkt)

\* classifiers.v: the verdict that comes out is the verdict of the packet in
\* the parser, from bloom words, thresholds, rule and flow cell as they are
\* when it comes out: three stages that finish at different cycles never mix
\* two packets, and no write slips in between a read and its use.
VerdictExact == cl_out.valid => cl_out.verdict = Combine(Owed(hp.pkt))

\* The registered block-RAM reads of the telemetry and of the readbacks: when
\* a word read cycles ago is acted on, the memory still holds that word.
ReadsAreFresh ==
    /\ cms.phase = 2 => cms.r = [b \in Bank |-> cms_mem[b][CmsHash[b][cms.key]]]
    /\ hll.phase = 4 => hll.rword = hll_mem[HllHash[hll.key]]
    /\ ctrl.p2 /\ ctrl.op = BloomReadOp => bf_r_data = bf_mem[ctrl.at % Words]
    /\ ctrl.p2 /\ ctrl.op = RuleReadOp => rs_rule = rs_mem[ctrl.at % RuleDepth]

\* telemetry.v: the source credited with a finished count is the source that
\* was counted.
TopCreditsTheCounted == cms.upd_done => tel.key = cms.key

\* Once CS has fallen nothing moves any more: the response is final and the
\* frame before has had all its effects.
SettledInTransfer ==
    [][link.busy /\ ~rst => UNCHANGED <<tx, bf_mem, ft_mem, rs_mem, thr, cms_mem, hll_mem>>]_vars

B == INSTANCE Board WITH
       bloom <- view.bloom, flow <- view.flow, rules <- view.rules,
       regs <- view.regs, count <- view.count, pending <- link.frame,
       resp <- link.got

\* The board as the Pi sees it at each CS fall is the board the twins and
\* PROTOCOL.md describe: the pipelines of nids_top drain within the gap, each
\* response answers the frame before, and no write is lost or torn.
ImplementsBoard == B!Spec
=============================================================================
