-------------------------------- MODULE Board --------------------------------
(***************************************************************************)
(* What PROTOCOL.md and the Python twins promise of the board: a register   *)
(* file that answers, in the transfer of frame N, frame N-1.  Each twin is  *)
(* an operator that handles a whole packet or write at once; bloom is the   *)
(* bit array of bloom.py seen by words, flow the cells of                   *)
(* flow_table_model.py, rules those of rule_store_model.py, regs the values *)
(* of thresholds_model.py.  Telemetry payloads are left open.               *)
(***************************************************************************)
EXTENDS NidsTypes

CONSTANTS
    Frame, NoFrame, SeqMod, CountMod,
    Words, Hash1, Hash2,
    FlowBucket, FlowFp, PortBit, HostBit, PktMax, SynMax, ByteMod,
    WindowLen, Epochs,
    RuleDepth, RuleHash, EpochMod, DefaultPort, DefaultHost, DefaultRate

VARIABLES
    bloom, flow, rules, regs,
    count,      \* frames handled since reset, modulo CountMod
    pending,    \* the frame the next transfer will be answered for
    resp        \* the response of the transfer under way

boardVars == <<bloom, flow, rules, regs, count, pending, resp>>

NoAnswer == [magic |-> 0, body |-> [none |-> 0]]
Ack(body) == [magic |-> 90, body |-> body]

(***************************************************************************)
(* The twins                                                                *)
(***************************************************************************)
\* bloom.py: both hash bits of the address are set.
Member(ip) == /\ Hash1[ip].bit \in bloom[Hash1[ip].word]
              /\ Hash2[ip].bit \in bloom[Hash2[ip].word]

\* min(count + n, MAX): the twin's counters all saturate.
Saturate(n, most) == IF n > most THEN most ELSE n

FreshCell(src, epoch) ==
    [fp |-> FlowFp[src], epoch |-> epoch, pkts |-> 0, bytes |-> 0,
     syns |-> 0, ports |-> {}, hosts |-> {}, flags |-> {}]

\* Mutant of FlowUpdated: sources of one bucket are merged, as in v1.1.
FlowMerged(cell, p, epoch) ==
    LET cur == IF cell.epoch # epoch THEN FreshCell(p.src, epoch) ELSE cell
        seen == [cur EXCEPT !.pkts = Saturate(@ + 1, PktMax)]
    IN  IF SynGate(p) THEN [seen EXCEPT !.ports = @ \cup {PortBit[p.port]}]
                      ELSE seen

\* flow_table_model.py: FlowTable.update.
FlowUpdated(cell, p, epoch) ==
    LET cur == IF cell.fp # FlowFp[p.src] \/ cell.epoch # epoch
               THEN FreshCell(p.src, epoch) ELSE cell
        seen == [cur EXCEPT
                   !.pkts = Saturate(@ + 1, PktMax),
                   !.bytes = Saturate(@ + p.size, ByteMod - 1),
                   !.flags = @ \cup p.flags]
    IN  IF SynGate(p)
        THEN [seen EXCEPT !.syns = Saturate(@ + 1, SynMax),
                          !.ports = @ \cup {PortBit[p.port]},
                          !.hosts = @ \cup {HostBit[p.dst]}]
        ELSE seen

ScanHit(cell) == \/ Cardinality(cell.ports) >= regs.port
                 \/ Cardinality(cell.hosts) >= regs.host
RateHit(cell) == cell.pkts >= regs.rate

\* rule_lookup_model.py: lookup.
NoMatch == [match |-> FALSE, action |-> {}, sev |-> 0]
Lookup(src) ==
    LET stored == rules[RuleHash[src]]
    IN  IF stored.src = src /\ stored.epoch = regs.epoch % EpochMod
        THEN [match |-> TRUE, action |-> stored.action, sev |-> stored.sev]
        ELSE NoMatch

Largest(S) == CHOOSE m \in S : \A n \in S : n <= m

\* The verdict of PROTOCOL.md: severity is the largest of the stages that
\* fired and of the rule, escalate any stage or the rule's escalate bit.
VerdictOf(hit, cell, rule) ==
    [bloom |-> hit, scan |-> ScanHit(cell), rate |-> RateHit(cell),
     rule |-> rule.match,
     sev |-> Largest({IF hit THEN 3 ELSE 0, IF ScanHit(cell) THEN 2 ELSE 0,
                      IF RateHit(cell) THEN 2 ELSE 0, rule.sev % 4}),
     escalate |-> \/ hit \/ ScanHit(cell) \/ RateHit(cell) \/ rule.match
                  \/ 2 \in rule.action]

\* thresholds_model.py: unknown ids read 0 and ignore a write.
RegName(id) == CASE id = 0 -> "port" [] id = 1 -> "host"
                 [] id = 2 -> "rate" [] id = 3 -> "epoch"
RegRead(id) == IF id \in 0 .. 3 THEN regs[RegName(id)] ELSE 0
RegDefaults == [port |-> DefaultPort, host |-> DefaultHost,
                rate |-> DefaultRate, epoch |-> 0]

(***************************************************************************)
(* The effect of one frame, by opcode                                       *)
(***************************************************************************)
Classify(f) ==
    LET b    == FlowBucket[f.hdr.src]
        cell == FlowUpdated(flow[b], f.hdr, (count \div WindowLen) % Epochs)
    IN  /\ f.op = ClassifyOp
        /\ flow' = [flow EXCEPT ![b] = cell]
        /\ resp' = [magic |-> 165, body |->
                      [verdict |-> VerdictOf(Member(f.hdr.src) \/
                                             Member(f.hdr.dst),
                                             cell, Lookup(f.hdr.src)),
                       seq |-> (count + 1) % SeqMod]]
        /\ UNCHANGED <<bloom, rules, regs>>

\* The payload of a telemetry answer is any: telemetry is not part of Board.
Telemeter(f) ==
    /\ f.op \in {CmsQueryOp, SnapshotOp, HarmonicOp}
    /\ resp'.magic = 90
    /\ f.op = CmsQueryOp =>
         resp'.body \in [key : {f.hdr.src}, count : Nat]
    /\ UNCHANGED <<bloom, flow, rules, regs>>

Write(f) ==
    /\ \/ /\ f.op = BloomWriteOp
          /\ bloom' = [bloom EXCEPT ![f.at % Words] = f.val.word]
          /\ UNCHANGED <<rules, regs>>
       \/ /\ f.op = RuleWriteOp
          /\ rules' = [rules EXCEPT ![f.at % RuleDepth] = f.val.rule]
          /\ UNCHANGED <<bloom, regs>>
       \/ /\ f.op = ThreshWriteOp
          /\ regs' = IF f.at \in 0 .. 3
                     THEN [regs EXCEPT ![RegName(f.at)] = f.val.value] ELSE regs
          /\ UNCHANGED <<bloom, rules>>
    /\ resp' = Ack([acked |-> f.op])
    /\ UNCHANGED flow

Read(f) ==
    /\ \/ f.op = BloomReadOp /\ resp' = Ack([addr |-> f.at, word |-> bloom[f.at % Words]])
       \/ f.op = RuleReadOp /\ resp' = Ack([idx |-> f.at, rule |-> rules[f.at % RuleDepth]])
       \/ f.op = ThreshReadOp /\ resp' = Ack([id |-> f.at, value |-> RegRead(f.at)])
    /\ UNCHANGED <<bloom, flow, rules, regs>>

\* An opcode the response mux does not know: the old response stays.
Ignore(f) ==
    /\ f.op \notin (0 .. 3) \cup (BloomWriteOp .. RuleReadOp)
    /\ UNCHANGED <<bloom, flow, rules, regs, resp>>

Effect(f) == Classify(f) \/ Telemeter(f) \/ Write(f) \/ Read(f) \/ Ignore(f)

(***************************************************************************)
(* Transfers                                                                *)
(***************************************************************************)
\* Frame f goes out; what comes back answers the frame before it.
Transfer(f) ==
    /\ pending' = f
    /\ \/ /\ pending = NoFrame
          /\ UNCHANGED <<bloom, flow, rules, regs, count, resp>>
       \/ /\ pending # NoFrame
          /\ Effect(pending)
          /\ count' = (count + 1) % CountMod

\* The board was reset since the last transfer: no answer, registers back to
\* their defaults.  The pending frame was lost or handled before; the
\* memories survive.
AfterReset(f) ==
    /\ pending' = f
    /\ resp' = NoAnswer
    /\ count' = 0
    /\ regs' = RegDefaults
    /\ \/ UNCHANGED <<bloom, flow, rules>>
       \/ /\ pending # NoFrame
          /\ \/ /\ pending.op = ClassifyOp
                /\ LET b == FlowBucket[pending.hdr.src]
                       ep == (count \div WindowLen) % Epochs
                   IN  flow' = [flow EXCEPT ![b] =
                                  FlowUpdated(flow[b], pending.hdr, ep)]
                /\ UNCHANGED <<bloom, rules>>
             \/ /\ pending.op = BloomWriteOp
                /\ bloom' = [bloom EXCEPT ![pending.at % Words] =
                                      pending.val.word]
                /\ UNCHANGED <<flow, rules>>
             \/ /\ pending.op = RuleWriteOp
                /\ rules' = [rules EXCEPT ![pending.at % RuleDepth] =
                                      pending.val.rule]
                /\ UNCHANGED <<bloom, flow>>

Next == \E f \in Frame : Transfer(f) \/ AfterReset(f)

\* Any content of bloom_init.mem, every other memory blank.
Init ==
    /\ \A b \in DOMAIN flow : flow[b].pkts = 0 /\ flow[b].fp = 0
    /\ \A i \in DOMAIN rules : rules[i] = BlankRule
    /\ regs = RegDefaults /\ count = 0
    /\ pending = NoFrame /\ resp = NoAnswer

Spec == Init /\ [][Next]_boardVars

=============================================================================
