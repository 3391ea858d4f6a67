----------------------------- MODULE BloomFilter -----------------------------
(***************************************************************************)
(* bloom_filter.v: the C2-IP filter.  Port A answers "is src or dst a       *)
(* member" by four serial reads of the block RAM in a six-phase machine;    *)
(* port B is the Pi's word write or word readback.  One step of             *)
(* BloomClock is one rising edge of clk.  A word is the set of its one      *)
(* bits; the two multiply-shift hashes are constants.                       *)
(***************************************************************************)
EXTENDS NidsTypes

CONSTANTS
    Words,      \* 4096 words, addressed by the low 12 bits
    BitPos,     \* bit positions within a word
    Hash1,      \* [Ip -> [word : Word, bit : BitPos]]
    Hash2

Word == 0 .. Words - 1
BloomPhase == 0 .. 5
PortAState == [phase : BloomPhase, src : Ip, dst : Ip, addr : Word,
               rdata : SUBSET BitPos, h1s : SUBSET BitPos,
               h2s : SUBSET BitPos, h1d : SUBSET BitPos,
               hit : BOOLEAN, valid : BOOLEAN]

ASSUME BloomAssumption ==
    /\ Words \in Nat \ {0}
    /\ Hash1 \in [Ip -> [word : Word, bit : BitPos]]
    /\ Hash2 \in [Ip -> [word : Word, bit : BitPos]]

VARIABLES
    bf_mem,     \* the block RAM
    bf,         \* port A: phase, the latched packet addresses, read pipeline
    bf_r_data   \* port B: registered readback word

bloomVars == <<bf_mem, bf, bf_r_data>>

BloomTypeOK ==
    /\ bf_mem \in [Word -> SUBSET BitPos]
    /\ bf_r_data \in SUBSET BitPos
    /\ bf \in PortAState

BloomInit(mem) ==
    /\ bf_mem = mem
    /\ bf_r_data = {}
    /\ bf = [phase |-> 0, src |-> ZeroIp, dst |-> ZeroIp,
             addr |-> Hash1[ZeroIp].word, rdata |-> {}, h1s |-> {},
             h2s |-> {}, h1d |-> {}, hit |-> FALSE, valid |-> FALSE]

\* What every edge does to port A: the RAM read of the address registered
\* before, and out_valid back to 0.
PortADefault == [bf EXCEPT !.rdata = bf_mem[bf.addr], !.valid = FALSE]

\* Both hash bits set in the words read for an address.
BothBits(w1, w2, ip) == Hash1[ip].bit \in w1 /\ Hash2[ip].bit \in w2

PortA(rst, start, p) ==
    \/ /\ rst
       /\ bf' = [PortADefault EXCEPT !.phase = 0, !.hit = FALSE]
    \/ /\ ~rst /\ bf.phase = 0 /\ ~start
       /\ bf' = PortADefault
    \/ /\ ~rst /\ bf.phase = 0 /\ start
       /\ bf' = [PortADefault EXCEPT !.phase = 1, !.src = p.src, !.dst = p.dst,
                                     !.addr = Hash1[p.src].word]
    \/ /\ ~rst /\ bf.phase = 1
       /\ bf' = [PortADefault EXCEPT !.phase = 2, !.addr = Hash2[bf.src].word]
    \/ /\ ~rst /\ bf.phase = 2
       /\ bf' = [PortADefault EXCEPT !.phase = 3, !.h1s = bf.rdata,
                                     !.addr = Hash1[bf.dst].word]
    \/ /\ ~rst /\ bf.phase = 3
       /\ bf' = [PortADefault EXCEPT !.phase = 4, !.h2s = bf.rdata,
                                     !.addr = Hash2[bf.dst].word]
    \/ /\ ~rst /\ bf.phase = 4
       /\ bf' = [PortADefault EXCEPT !.phase = 5, !.h1d = bf.rdata]
    \/ /\ ~rst /\ bf.phase = 5
       /\ bf' = [PortADefault EXCEPT !.phase = 0, !.valid = TRUE,
                    !.hit = \/ BothBits(bf.h1s, bf.h2s, bf.src)
                            \/ BothBits(bf.h1d, bf.rdata, bf.dst)]

\* Write before read: r_data only loads on an edge without a write.
PortB(w_en, r_en, at, word) ==
    /\ bf_mem' = IF w_en THEN [bf_mem EXCEPT ![at] = word] ELSE bf_mem
    /\ bf_r_data' = IF ~w_en /\ r_en THEN bf_mem[at] ELSE bf_r_data

\* One clock edge: start is in_valid, p the parsed packet.
BloomClock(rst, start, p, w_en, r_en, at, word) ==
    /\ PortA(rst, start, p)
    /\ PortB(w_en, r_en, at, word)

=============================================================================
