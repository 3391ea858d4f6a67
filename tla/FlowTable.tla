------------------------------ MODULE FlowTable ------------------------------
(***************************************************************************)
(* flow_table.v: the direct-mapped per-source table.  A packet reads its    *)
(* bucket, takes the cell as blank when the fingerprint or the 4-bit epoch  *)
(* differs (eviction and lazy window reset), updates it and compares with   *)
(* the live thresholds one phase later.  One step is one clk edge.          *)
(* Fingerprints are sets of bits, popcount is Cardinality.                  *)
(***************************************************************************)
EXTENDS NidsTypes

CONSTANTS
    Bucket, FlowBucket,     \* bucket indices, [Ip -> Bucket]
    Fp, FlowFp,             \* 16-bit fingerprints, [Ip -> Fp]; 0 is one of them
    FpBit, PortBit, HostBit,    \* [Port -> FpBit], [Ip -> FpBit]
    PktMax, SynMax,         \* saturation of the 14- and 12-bit counters
    ByteMod,                \* 2^24: the width of byte_count
    WindowLen,              \* frames per window (16)
    Epochs                  \* 2^4: windows until the epoch comes back

ASSUME FlowAssumption ==
    /\ FlowBucket \in [Ip -> Bucket]
    /\ 0 \in Fp /\ FlowFp \in [Ip -> Fp]
    /\ PortBit \in [Port -> FpBit] /\ HostBit \in [Ip -> FpBit]
    /\ IsFiniteSet(FpBit)
    /\ {PktMax, SynMax, ByteMod, WindowLen, Epochs} \subseteq Nat \ {0}

VARIABLES
    ft_mem,     \* the block RAM of cells
    ft          \* phase, latched packet and epoch, read register, outputs

flowVars == <<ft_mem, ft>>

FlowEpochs == 0 .. Epochs - 1
PktCount == 0 .. PktMax
ByteCount == 0 .. ByteMod - 1
SynCount == 0 .. SynMax
Cell == [fp : Fp, epoch : FlowEpochs, pkts : PktCount, bytes : ByteCount,
         syns : SynCount,
         ports : SUBSET FpBit, hosts : SUBSET FpBit, flags : SUBSET Flag]

BlankCell == [fp |-> 0, epoch |-> 0, pkts |-> 0, bytes |-> 0, syns |-> 0,
              ports |-> {}, hosts |-> {}, flags |-> {}]

FlowPhase == 0 .. 3
FlowState == [phase : FlowPhase, pkt : Packet, epoch : FlowEpochs,
              rdata : Cell, ports : SUBSET FpBit, hosts : SUBSET FpBit,
              pkts : PktCount, scan : BOOLEAN, rate : BOOLEAN, valid : BOOLEAN]

FlowTypeOK ==
    /\ ft_mem \in [Bucket -> Cell]
    /\ ft \in FlowState

FlowInit(p) ==
    /\ ft_mem = [b \in Bucket |-> BlankCell]
    /\ ft = [phase |-> 0, pkt |-> p, epoch |-> 0, rdata |-> BlankCell,
             ports |-> {}, hosts |-> {}, pkts |-> 0, scan |-> FALSE,
             rate |-> FALSE, valid |-> FALSE]

\* cur_epoch = frame_count[7:4].
FlowEpoch(count) == (count \div WindowLen) % Epochs

\* The 24-bit sum of the byte accumulator: operands, sum and the comparison
\* with BYTE_MAX all have 24 bits, so the sum wraps before it is compared.
ByteSum(old, size) ==
    LET sum == (old + size) % ByteMod
    IN  IF sum > ByteMod - 1 THEN ByteMod - 1 ELSE sum

\* Mutant of Effective: the epoch is not compared.
StaleEffective(cell, src, epoch) ==
    IF cell.fp # FlowFp[src] THEN BlankCell ELSE cell

\* What the packet sees of the cell it read: blank on another fingerprint or
\* on another epoch.
Effective(cell, src, epoch) ==
    IF cell.fp # FlowFp[src] \/ cell.epoch # epoch THEN BlankCell ELSE cell

\* The read-modify-write of phase 2.
Updated(cell, p, epoch) ==
    LET old == Effective(cell, p.src, epoch)
        scan(bits, b) == IF SynGate(p) THEN bits \cup {b} ELSE bits
    IN  [fp    |-> FlowFp[p.src],
         epoch |-> epoch,
         pkts  |-> IF old.pkts = PktMax THEN PktMax ELSE old.pkts + 1,
         bytes |-> ByteSum(old.bytes, p.size),
         syns  |-> IF SynGate(p) /\ old.syns # SynMax THEN old.syns + 1
                                                      ELSE old.syns,
         ports |-> scan(old.ports, PortBit[p.port]),
         hosts |-> scan(old.hosts, HostBit[p.dst]),
         flags |-> old.flags \cup p.flags]

\* Every edge: out_valid back to 0, RAM read of the latched bucket.
FlowDefault == [ft EXCEPT !.valid = FALSE,
                          !.rdata = ft_mem[FlowBucket[ft.pkt.src]]]

\* Mutant of FlowReset: the phase survives a reset.
HalfFlowReset ==
    /\ ft' = [FlowDefault EXCEPT !.scan = FALSE, !.rate = FALSE]
    /\ UNCHANGED ft_mem

FlowReset ==
    /\ ft' = [FlowDefault EXCEPT !.phase = 0, !.scan = FALSE, !.rate = FALSE]
    /\ UNCHANGED ft_mem

\* Phase 0: latch the packet, the hashes of it and the epoch.
FlowLatch(start, p, count) ==
    /\ ft.phase = 0
    /\ ft' = IF start
             THEN [FlowDefault EXCEPT !.phase = 1, !.pkt = p,
                                      !.epoch = FlowEpoch(count)]
             ELSE FlowDefault
    /\ UNCHANGED ft_mem

\* Phase 1: the read latency of the RAM.
FlowWait ==
    /\ ft.phase = 1
    /\ ft' = [FlowDefault EXCEPT !.phase = 2]
    /\ UNCHANGED ft_mem

\* Phase 2: update the cell, keep what phase 3 compares.
FlowUpdate ==
    LET cell == Updated(ft.rdata, ft.pkt, ft.epoch)
    IN  /\ ft.phase = 2
        /\ ft_mem' = [ft_mem EXCEPT ![FlowBucket[ft.pkt.src]] = cell]
        /\ ft' = [FlowDefault EXCEPT !.phase = 3, !.ports = cell.ports,
                                     !.hosts = cell.hosts, !.pkts = cell.pkts]

\* Phase 3: compare with the thresholds as they are now.
FlowCompare(t) ==
    /\ ft.phase = 3
    /\ ft' = [FlowDefault EXCEPT !.phase = 0, !.valid = TRUE,
                 !.scan = \/ Cardinality(ft.ports) >= t.port
                          \/ Cardinality(ft.hosts) >= t.host,
                 !.rate = ft.pkts >= t.rate]
    /\ UNCHANGED ft_mem

\* One clock edge: start is in_valid, count the frame index, t the threshold
\* taps.
FlowClock(rst, start, p, count, t) ==
    \/ rst /\ FlowReset
    \/ ~rst /\ (FlowLatch(start, p, count) \/ FlowWait \/ FlowUpdate
                \/ FlowCompare(t))

=============================================================================
