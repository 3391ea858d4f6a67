---------------------------- MODULE GoldenStream ----------------------------
(***************************************************************************)
(* The stream of gen_verdict_golden.py and the verdicts classifier.py       *)
(* expects for it.  Scenarios keep their shape and scale with the           *)
(* thresholds and the window; addresses stand for those of scenarios.py     *)
(* and have, as there, buckets of their own.                                *)
(***************************************************************************)
EXTENDS Board, Sequences

CONSTANTS
    C2,             \* the locked C2 set
    CoarseBy        \* flow-table buckets per ScanRateTable bucket (16)

(***************************************************************************)
(* bloom.py                                                                 *)
(***************************************************************************)
\* BloomFilter.from_ips, seen as the words of to_mem.
from_ips(ips) ==
    LET hashes == {Hash1[ip] : ip \in ips} \cup {Hash2[ip] : ip \in ips}
    IN  [w \in 0 .. Words - 1 |-> {h.bit : h \in {g \in hashes : g.word = w}}]

MemberOf(words, ip) == /\ Hash1[ip].bit \in words[Hash1[ip].word]
                       /\ Hash2[ip].bit \in words[Hash2[ip].word]

(***************************************************************************)
(* scenarios.py                                                             *)
(***************************************************************************)
hdr(src, dst, port, tcp, flags) ==
    [op |-> ClassifyOp, at |-> 0, val |-> [none |-> 0],
     hdr |-> [src |-> src, dst |-> dst, port |-> port, tcp |-> tcp,
              flags |-> flags, size |-> 1]]
Syn(src, dst, port) == hdr(src, dst, port, TRUE, {"SYN"})
Udp(src, dst) == hdr(src, dst, 1, FALSE, {})

AnyC2 == CHOOSE ip \in C2 : TRUE
V1_BLOOM_INPUTS == <<hdr(2, 1, 1, TRUE, {"SYN"}), hdr(2, AnyC2, 1, TRUE, {"SYN"})>>

BENIGN == <<hdr(4, 1, 1, TRUE, {"ACK"}), Udp(6, 3)>>
VSCAN == [i \in 1 .. DefaultPort |-> Syn(8, 1, i)]
FLOOD == [i \in 1 .. DefaultRate |-> Udp(10, 1)]
HSCAN == [i \in 1 .. DefaultHost |-> Syn(12, 2 * i + 1, 1)]
\* The last SYN is the first frame of the next window.
BOUNDARY == [i \in 1 .. DefaultPort - 1 |-> Syn(14, 1, i)]
            \o [i \in 1 .. WindowLen - DefaultPort + 1 |-> Udp(14 + 2 * i, 1)]
            \o <<Syn(14, 1, DefaultPort)>>
COMBINED == [i \in 1 .. DefaultRate |-> Udp(AnyC2, 1)]

\* pad_to_window: packets of sources that occur once.
pad_to_window(stream) ==
    stream \o [i \in 1 .. (-Len(stream)) % WindowLen |->
                  Udp(30 + 2 * (Len(stream) + i), 1)]

Extended(stream, scenario) == pad_to_window(stream) \o scenario

build_stream ==
    Extended(Extended(Extended(Extended(Extended(Extended(
        V1_BLOOM_INPUTS, BENIGN), VSCAN), FLOOD), HSCAN), BOUNDARY), COMBINED)

(***************************************************************************)
(* scan_rate.py and classifier.py                                           *)
(***************************************************************************)
SrBucket(ip) == FlowBucket[ip] \div CoarseBy
SrBlank(ep) == [epoch |-> ep, pkts |-> 0, ports |-> {}, hosts |-> {}]

\* Mutant of SrUpdated: no lazy reset.
SrUpdatedForEver(e, p, ep) ==
    LET seen == [e EXCEPT !.pkts = @ + 1]
    IN  IF SynGate(p) THEN [seen EXCEPT !.ports = @ \cup {PortBit[p.port]},
                                        !.hosts = @ \cup {HostBit[p.dst]}]
                      ELSE seen

\* ScanRateTable.update: coarser than the flow table and without fingerprint.
SrUpdated(e, p, ep) ==
    LET cur  == IF e.epoch # ep THEN SrBlank(ep) ELSE e
        seen == [cur EXCEPT !.pkts = Saturate(@ + 1, 255)]
    IN  IF SynGate(p) THEN [seen EXCEPT !.ports = @ \cup {PortBit[p.port]},
                                        !.hosts = @ \cup {HostBit[p.dst]}]
                      ELSE seen

\* The packet of frame n, and its window.
PacketOf(n) == build_stream[n].hdr
WindowOf(n) == (n - 1) \div WindowLen

\* The table once the first n frames were handled: frame n has the index n - 1.
table[n \in 0 .. Len(build_stream)] ==
    IF n = 0 THEN [b \in {SrBucket(ip) : ip \in Ip} |-> SrBlank(0)]
    ELSE [table[n - 1] EXCEPT ![SrBucket(PacketOf(n).src)] =
             SrUpdated(@, PacketOf(n), WindowOf(n) % Epochs)]

\* Classifier.classify of a packet whose entry is e by now, on a fresh
\* threshold file.
classify(e, p) ==
    LET hit  == MemberOf(from_ips(C2), p.src) \/ MemberOf(from_ips(C2), p.dst)
        scan == \/ Cardinality(e.ports) >= DefaultPort
                \/ Cardinality(e.hosts) >= DefaultHost
        rate == e.pkts >= DefaultRate
    IN  [bloom |-> hit, scan |-> scan, rate |-> rate, rule |-> FALSE,
         sev |-> Largest({IF hit THEN 3 ELSE 0, IF scan \/ rate THEN 2 ELSE 0}),
         escalate |-> hit \/ scan \/ rate]

expected_rows ==
    [n \in 1 .. Len(build_stream) |->
        classify(table[n][SrBucket(PacketOf(n).src)], PacketOf(n))]

\* What the table rests on.  Two sources of one window have buckets of their
\* own, no epoch comes back, and no counter is full before it trips.
ASSUME StreamAssumption ==
    /\ Len(build_stream) < CountMod /\ Len(build_stream) <= WindowLen * Epochs
    /\ DefaultRate <= PktMax /\ DefaultRate <= 255
    /\ \A n \in 1 .. Len(build_stream) : PacketOf(n).src \in Ip \ {ZeroIp}
    /\ \A m, n \in 1 .. Len(build_stream) :
          /\ WindowOf(m) = WindowOf(n)
          /\ SrBucket(PacketOf(m).src) = SrBucket(PacketOf(n).src)
          => PacketOf(m).src = PacketOf(n).src

=============================================================================
