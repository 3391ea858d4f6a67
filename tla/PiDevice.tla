------------------------------ MODULE PiDevice ------------------------------
(***************************************************************************)
(* The board as the scripts on the Pi use it: a device that takes one frame *)
(* per transfer and returns in that transfer the answer to the frame        *)
(* before, or the beginning of it if btnC cuts it.  Of Board it keeps what  *)
(* the scripts decide by, the rules with their epoch, and it adds the       *)
(* window telemetry of telemetry_model.py.  The sketch of the open window   *)
(* is a function of the packets sent in it.                                 *)
(***************************************************************************)
EXTENDS NidsTypes, FiniteSetsExt

CONSTANTS
    Bank, CmsHash,  \* count-min banks; [Bank -> [Ip -> column]]
    CountMax,       \* the sketch's counts saturate here
    RuleHash,       \* [Ip -> index]: lookup_idx
    CutIp,          \* [Ip -> the addresses its leading bits make, then zeros]
    FirstEpoch,     \* the rule_epoch register when the script starts
    Trigger,        \* --trigger: the count that makes a source a target
    MaxResets       \* bound: presses of btnC

ASSUME DeviceAssumption ==
    /\ \A b \in Bank : DOMAIN CmsHash[b] = Ip
    /\ DOMAIN RuleHash = Ip
    /\ \A ip \in Ip : CutIp[ip] \subseteq Ip /\ {ip, ZeroIp} \subseteq CutIp[ip]
    /\ {CountMax, Trigger} \subseteq Nat \ {0} /\ Trigger <= CountMax
    /\ {FirstEpoch, MaxResets} \subseteq Nat

VARIABLES
    rules, epoch,   \* rule_store; the rule_epoch register, below 2^8
    sent,           \* packets of each source in the open window
    top,            \* top-1 of the open window
    last,           \* top-1 of the last completed window: the snapshot
    answer,         \* tx_reg: what the next transfer returns
    resets,         \* presses so far
    everHot         \* history: sources whose estimate ever reached Trigger

deviceVars == <<rules, epoch, sent, top, last, answer, resets, everHot>>

RuleIdx == {RuleHash[ip] : ip \in Ip}
StoredRule == [src : Ip, epoch : Nat]
TopTalker == [key : Ip, count : 0 .. CountMax]
NoTop == [key |-> ZeroIp, count |-> 0]
Silence == [ip \in Ip |-> 0]

\* Magic 0 (no verdict yet), 0xA5 (verdict) or 0x5A (anything else).
NoAnswer == [magic |-> 0]
Verdict(ip, match) == [magic |-> 165, src |-> ip, rule |-> match]
Telemetry(talker) == [magic |-> 90, op |-> SnapshotOp, key |-> talker.key,
                      count |-> talker.count]
EpochIs(n) == [magic |-> 90, op |-> ThreshReadOp, value |-> n]
Acked == [magic |-> 90, op |-> RuleWriteOp]
CmsAnswer(key, count) ==
    [magic |-> 90, op |-> CmsQueryOp, key |-> key, count |-> count]
HllAnswer == [magic |-> 90, op |-> HarmonicOp]
IsVerdict(rx) == rx.magic = 165
IsResponse(rx) == rx.magic = 90

\* The leading bits of a number of at most 16 bits, then zeros.
CutNumber(v) == {c \in 0 .. v : \E p \in 0 .. 16 : c = v - (v % 2^p)}

\* What arrives of a response's body if btnC is pressed while it goes out:
\* the fields before the cut, the cut one, zeros.  A snapshot's count precedes
\* its key; an ack's opcode, 0x12, leaves 0x10 or 0.
CutResponse(a) ==
    CASE a.op = SnapshotOp ->
           {Telemetry([key |-> ZeroIp, count |-> c]) : c \in CutNumber(a.count)}
           \cup {Telemetry([key |-> k, count |-> a.count]) : k \in CutIp[a.key]}
      [] a.op = ThreshReadOp -> {EpochIs(v) : v \in CutNumber(a.value)}
      [] a.op = CmsQueryOp ->
           {CmsAnswer(k, 0) : k \in CutIp[a.key]}
           \cup {CmsAnswer(a.key, c) : c \in CutNumber(a.count)}
      [] a.op = RuleWriteOp -> {[Acked EXCEPT !.op = BloomWriteOp],
                                [Acked EXCEPT !.op = ClassifyOp]}
      [] OTHER -> {}    \* the live HLL: only its magic means anything here

\* A cut magic is neither magic; of a verdict the scripts use the rule bit.
Torn(a) ==
    {a, NoAnswer}
    \cup (IF IsVerdict(a) THEN {Verdict(a.src, FALSE)} ELSE {})
    \cup (IF IsResponse(a) THEN CutResponse(a) ELSE {})

(***************************************************************************)
(* Frames                                                                   *)
(***************************************************************************)
PacketFrame(ip) == [op |-> ClassifyOp, src |-> ip]
\* 32 zero bytes, sent to shift an answer out: to the board a packet too.
FlushFrame == PacketFrame(ZeroIp)
SnapFrame == [op |-> SnapshotOp]
EpochFrame == [op |-> ThreshReadOp]
lookup_idx(ip) == RuleHash[ip]
RuleFrame(ip, n) == [op |-> RuleWriteOp, idx |-> lookup_idx(ip),
                     rule |-> [src |-> ip, epoch |-> n]]

(***************************************************************************)
(* The board                                                                *)
(***************************************************************************)
Blocked(ip) == rules[RuleHash[ip]] = [src |-> ip, epoch |-> epoch]

AtMost(n, most) == IF n > most THEN most ELSE n

\* Count-min: the least of its columns, each the packets of all its sources.
Column(tally, b, ip) ==
    AtMost(Cardinality({c \in Ip \X (1 .. CountMax) :
                          /\ CmsHash[b][c[1]] = CmsHash[b][ip]
                          /\ c[2] <= tally[c[1]]}), CountMax)
Estimate(tally, ip) == Min({Column(tally, b, ip) : b \in Bank})

Classified(ip) ==
    /\ sent' = [sent EXCEPT ![ip] = AtMost(@ + 1, CountMax)]
    /\ LET est == Estimate(sent', ip)
       IN  top' = IF est > top.count THEN [key |-> ip, count |-> est] ELSE top
    /\ answer' = Verdict(ip, Blocked(ip))
    /\ UNCHANGED <<rules, epoch>>

Handle(f) ==
    /\ \/ f.op = ClassifyOp /\ Classified(f.src)
       \/ /\ f.op = SnapshotOp
          /\ answer' = Telemetry(last)
          /\ UNCHANGED <<rules, epoch, sent, top>>
       \/ /\ f.op = ThreshReadOp
          /\ answer' = EpochIs(epoch)
          /\ UNCHANGED <<rules, epoch, sent, top>>
       \/ /\ f.op = RuleWriteOp
          /\ rules' = [rules EXCEPT ![f.idx] = f.rule]
          /\ answer' = Acked
          /\ UNCHANGED <<epoch, sent, top>>
    /\ UNCHANGED <<last, resets, everHot>>

\* btnC: registers to their defaults, the rules stay.  Sketch cells of epoch
\* 0, which stay too and can count again, are left to Telemetry.
Reset ==
    /\ resets < MaxResets
    /\ resets' = resets + 1
    /\ answer' = NoAnswer
    /\ epoch' = 0
    /\ sent' = Silence /\ top' = NoTop /\ last' = NoTop
    /\ UNCHANGED <<rules, everHot>>

\* The transfer of f brings back rx.  If btnC is pressed during it, or before
\* f is handled, f is lost and rx is what went out before the press.
Receive(f, rx) ==
    \/ Handle(f) /\ rx = answer
    \/ Reset /\ rx \in Torn(answer)

\* A transfer whose answer is not looked at.
Transfer(f) == Handle(f) \/ Reset

WindowTick ==
    /\ last' = top /\ top' = NoTop
    /\ sent' = Silence
    /\ everHot' = everHot \cup {ip \in Ip : Estimate(sent, ip) >= Trigger}
    /\ UNCHANGED <<rules, epoch, answer, resets>>

DeviceInit ==
    /\ rules = [i \in RuleIdx |-> [src |-> ZeroIp, epoch |-> 0]]
    /\ epoch = FirstEpoch
    /\ sent = Silence /\ top = NoTop /\ last = NoTop
    /\ answer = NoAnswer
    /\ resets = 0 /\ everHot = {}

DeviceTypeOK ==
    /\ rules \in [RuleIdx -> StoredRule]
    /\ epoch \in Nat
    /\ sent \in [Ip -> 0 .. CountMax]
    /\ {top, last} \subseteq TopTalker
    /\ answer.magic \in {0, 90, 165}
    /\ resets \in 0 .. MaxResets
    /\ everHot \subseteq Ip

\* Hot in some completed window; after a press also an address that the
\* leading bits of a hot one make.
HotOrCut(ip) ==
    ip \in everHot \/ (resets > 0 /\ \E hot \in everHot : ip \in CutIp[hot])

(***************************************************************************)
(* What both scripts do with the board                                      *)
(***************************************************************************)
\* decode_snapshot looks at the magic only: in any other answer the bytes it
\* takes for key and count are 0.
DecodedSnapshot(rx) ==
    IF IsResponse(rx) /\ rx.op = SnapshotOp
    THEN [key |-> rx.key, count |-> rx.count] ELSE NoTop

\* decode_threshold_read, of a script that has the bus for itself or shares
\* it with senders of packets: no other response than its own can come.
DecodedEpoch(rx) == rx.value

=============================================================================
