------------------------------ MODULE NidsTypes ------------------------------
(***************************************************************************)
(* What the RTL modules of fpga/src and the Pi scripts agree on: addresses, *)
(* the opcodes of request byte 16 and the request frame.  A frame is the    *)
(* record of its fields; the control opcodes reuse the header bytes, which  *)
(* at and val stand for (word address, threshold id or rule index, and the  *)
(* value written).                                                          *)
(***************************************************************************)
EXTENDS Integers, FiniteSets

CONSTANTS
    Ip,         \* the IPv4 addresses that occur
    ZeroIp,     \* 0.0.0.0: what an all-zero frame or memory cell holds
    Port,       \* destination ports
    Flag        \* TCP flag bits, "SYN" and "ACK" among them

ASSUME IpAssumption == ZeroIp \in Ip

ClassifyOp    == 0
CmsQueryOp    == 1
SnapshotOp    == 2
HarmonicOp    == 3
BloomWriteOp  == 16
ThreshWriteOp == 17
RuleWriteOp   == 18
BloomReadOp   == 19
ThreshReadOp  == 20
RuleReadOp    == 21

\* inflight_op[7:4] == 1: every 0x1X opcode enters the control pipeline.
ControlOps == 16 .. 31
Opcode == 0 .. 255

\* The header fields the parser hands to the classifiers.
Packet == [src : Ip, dst : Ip, port : Port, tcp : BOOLEAN,
           flags : SUBSET Flag, size : Nat]

\* SYN without ACK on TCP: the gate of the port-scan fingerprints.
SynGate(p) == p.tcp /\ "SYN" \in p.flags /\ "ACK" \notin p.flags

\* A runtime block-rule as rule_store holds it.  Of the action byte the
\* hardware reads bit 2 (escalate) only; severity is the 4-bit field.
Action == SUBSET {0, 1, 2}
RuleSev == 0 .. 15
Rule == [src : Ip, action : Action, sev : RuleSev, epoch : Nat]

\* A cell nobody wrote: 72 zero bits.
BlankRule == [src |-> ZeroIp, action |-> {}, sev |-> 0, epoch |-> 0]

=============================================================================
