------------------------------ MODULE MCNidsTop ------------------------------
(***************************************************************************)
(* Small instances of NidsTop for TLC: three addresses (0.0.0.0 and two     *)
(* sources), two bloom words of two bits, one or two buckets.               *)
(***************************************************************************)
EXTENDS NidsTop

MCIp == {0, 1, 2}
MCHash1 == [ip \in MCIp |-> [word |-> ip % 2, bit |-> ip \div 2]]
MCHash2 == [ip \in MCIp |-> [word |-> (ip + 1) % 2, bit |-> ip \div 2]]
MCBoot == [w \in {0, 1} |-> {1}]

\* Sources 1 and 2 share a flow bucket but not a fingerprint; 0 and 1 share
\* a rule cell.
MCFlowBucket == [ip \in MCIp |-> IF ip = 0 THEN 0 ELSE 1]
MCFlowFp == [ip \in MCIp |-> ip]
MCRuleHash == [ip \in MCIp |-> ip \div 2]
MCPortBit == [p \in {80, 81} |-> p - 80]
MCHostBit == [ip \in MCIp |-> ip % 2]

MCCmsHash == [b \in {1, 2} |-> [ip \in MCIp |-> IF b = 1 THEN ip ELSE ip \div 2]]
MCHllHash == [ip \in MCIp |-> ip % 2]
MCHllRank == [ip \in MCIp |-> 1 + (ip % 2)]
MCWeight == [r \in 0 .. 2 |-> 2 ^ (2 - r)]

Zero == [src |-> 0, dst |-> 0, port |-> 80, tcp |-> FALSE, flags |-> {},
         size |-> 0]
Hdr(s, d, p, fl) == [src |-> s, dst |-> d, port |-> p, tcp |-> TRUE,
                     flags |-> fl, size |-> 1]
Req(op, at, val) == [op |-> op, hdr |-> Zero, at |-> at, val |-> val]
Pkt(h) == [op |-> ClassifyOp, hdr |-> h, at |-> 0, val |-> NoValue]
Block(s, e) == [src |-> s, action |-> {0, 2}, sev |-> 3, epoch |-> e]

Syn == {"SYN"}
Packets == {Pkt(Zero), Pkt(Hdr(1, 2, 80, Syn)), Pkt(Hdr(1, 0, 81, Syn)),
            Pkt(Hdr(2, 1, 80, {"SYN", "ACK"}))}
Queries == {[Req(CmsQueryOp, 0, NoValue) EXCEPT !.hdr.src = 1],
            Req(SnapshotOp, 0, NoValue), Req(HarmonicOp, 0, NoValue), Req(4, 0, NoValue)}
BloomOps == {Req(BloomWriteOp, 1, [word |-> {0}]), Req(BloomWriteOp, 0, [word |-> {}]),
             Req(BloomReadOp, 1, NoValue)}
ThreshOps == {Req(ThreshWriteOp, 2, [value |-> 1]), Req(ThreshWriteOp, 3, [value |-> 1]),
              Req(ThreshWriteOp, 7, [value |-> 1]), Req(ThreshReadOp, 2, NoValue),
              Req(ThreshReadOp, 7, NoValue)}
RuleOps == {Req(RuleWriteOp, 0, [rule |-> Block(1, 0)]), Req(RuleWriteOp, 0, [rule |-> Block(1, 1)]),
            Req(RuleWriteOp, 1, [rule |-> Block(2, 0)]), Req(RuleReadOp, 0, NoValue)}

AllFrames == Packets \cup Queries \cup BloomOps \cup ThreshOps \cup RuleOps
SomeFrames == Packets \cup {Req(RuleWriteOp, 0, [rule |-> Block(1, 0)]),
    Req(ThreshWriteOp, 2, [value |-> 1]), Req(BloomWriteOp, 1, [word |-> {0}]), Req(BloomReadOp, 1, NoValue),
    Req(SnapshotOp, 0, NoValue)}

\* Two sources that evict each other, and a frame that is not a packet.
StreamFrames == {Pkt(Hdr(1, 2, 80, Syn)), Pkt(Hdr(2, 1, 81, Syn)),
                 Req(SnapshotOp, 0, NoValue)}
=============================================================================
