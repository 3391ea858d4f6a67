------------------------------ MODULE SpiEcho ------------------------------
(***************************************************************************)
(* spi_slave_rx.v in echo_top.v, and the master at the other end of the     *)
(* wires, which runs on a clock of its own: between two edges of clk it may *)
(* change a line or not.  Bits and bytes are counted together; rx_byte and  *)
(* byte_index, which echo_top leaves open, are left out.                    *)
(***************************************************************************)
EXTENDS Integers, Sequences

CONSTANTS
    FRAME_BITS,     \* 256 on the board
    ENOUGH,         \* edges of clk that each level of SCLK must last
    GAP,            \* edges of clk between two transfers, at least
    MaxNoise        \* bound: glitches of CS and presses of btnC

ASSUME EchoAssumption ==
    /\ {FRAME_BITS, ENOUGH, MaxNoise} \subseteq Nat /\ FRAME_BITS > 1
    /\ GAP \in Nat /\ GAP > 1

Frame == [1 .. FRAME_BITS -> {0, 1}]
ZeroFrame == [i \in 1 .. FRAME_BITS |-> 0]

VARIABLES
    line,       \* sclk, cs_n and mosi on the wires
    s0, s1, q,  \* sclk_s, cs_s, mosi_s; sclk_q, cs_q
    cnt,        \* 8 * byte_cnt + bit_cnt
    rx_sr, rx_frame, rx_frame_valid,
    tx_sr, miso,
    echo_reg,
    rst,        \* btnC
    wiring      \* "echo": the board; "jumper": MOSI on MISO

VARIABLES
    phase,      \* of the transfer: "idle", SCLK "low" or "high", "tail"
    half,       \* edges of clk that a level of SCLK lasts, at least
    held,       \* edges since the master last changed a line
    out, inp,   \* the frame under way; the bits of the answer so far
    reply,      \* the last complete answer
    noise,      \* glitches and presses so far
    dirty,      \* history: one of them since the transfer began
    was         \* history: echo_reg as the transfer began

slaveVars == <<s0, s1, q, cnt, rx_sr, rx_frame, rx_frame_valid, tx_sr, miso,
               echo_reg>>
masterVars == <<line, phase, half, held, out, inp, reply>>
noiseVars == <<rst, noise, dirty>>
echoVars == <<slaveVars, masterVars, noiseVars, was, wiring>>

(***************************************************************************)
(* The board: one edge of clk                                               *)
(***************************************************************************)
sclk_rise == s1.sclk = 1 /\ q.sclk = 0
sclk_fall == s1.sclk = 0 /\ q.sclk = 1
cs_active == s1.cs_n = 0
cs_fall == s1.cs_n = 0 /\ q.cs_n = 1
Shifted(sr, bit) == [i \in 1 .. FRAME_BITS |->
                        IF i = FRAME_BITS THEN bit ELSE sr[i + 1]]

\* Mutant of Receive: the counter goes on where it was when CS rose.
ReceiveOn ==
    \/ /\ rst \/ ~cs_active \/ ~sclk_rise
       /\ cnt' = IF rst THEN 0 ELSE cnt
       /\ rx_frame_valid' = FALSE
       /\ UNCHANGED <<rx_sr, rx_frame>>
    \/ /\ ~rst /\ cs_active /\ sclk_rise
       /\ rx_sr' = Shifted(rx_sr, s1.mosi)
       /\ cnt' = (cnt + 1) % FRAME_BITS
       /\ rx_frame_valid' = (cnt = FRAME_BITS - 1)
       /\ rx_frame' = IF cnt = FRAME_BITS - 1 THEN rx_sr' ELSE rx_frame

Receive ==
    \/ /\ rst \/ ~cs_active \/ ~sclk_rise
       /\ cnt' = IF rst \/ ~cs_active THEN 0 ELSE cnt
       /\ rx_frame_valid' = FALSE
       /\ UNCHANGED <<rx_sr, rx_frame>>
    \/ /\ ~rst /\ cs_active /\ sclk_rise
       /\ rx_sr' = Shifted(rx_sr, s1.mosi)
       /\ cnt' = (cnt + 1) % FRAME_BITS
       /\ rx_frame_valid' = (cnt = FRAME_BITS - 1)
       /\ rx_frame' = IF cnt = FRAME_BITS - 1 THEN rx_sr' ELSE rx_frame

\* Mutant of Transmit: the first bit waits for an edge of SCLK.
TransmitLate ==
    \/ rst /\ tx_sr' = ZeroFrame /\ miso' = 0
    \/ ~rst /\ cs_fall /\ tx_sr' = echo_reg /\ UNCHANGED miso
    \/ /\ ~rst /\ ~cs_fall /\ cs_active /\ sclk_fall
       /\ tx_sr' = Shifted(tx_sr, 0) /\ miso' = tx_sr[1]
    \/ /\ ~rst /\ ~cs_fall /\ cs_active /\ ~sclk_fall
       /\ UNCHANGED <<tx_sr, miso>>
    \/ ~rst /\ ~cs_active /\ miso' = 0 /\ UNCHANGED tx_sr

Transmit ==
    \/ rst /\ tx_sr' = ZeroFrame /\ miso' = 0
    \/ ~rst /\ cs_fall /\ tx_sr' = echo_reg /\ miso' = echo_reg[1]
    \/ /\ ~rst /\ ~cs_fall /\ cs_active /\ sclk_fall
       /\ tx_sr' = Shifted(tx_sr, 0) /\ miso' = tx_sr[2]
    \/ /\ ~rst /\ ~cs_fall /\ cs_active /\ ~sclk_fall
       /\ UNCHANGED <<tx_sr, miso>>
    \/ ~rst /\ ~cs_active /\ miso' = 0 /\ UNCHANGED tx_sr

Echo == echo_reg' = IF rst THEN ZeroFrame
                    ELSE IF rx_frame_valid THEN rx_frame ELSE echo_reg

\* The master keeps a level for half or half + 1 edges.
Clk ==
    /\ phase # "idle" => held <= half
    /\ s0' = line /\ s1' = s0 /\ q' = [sclk |-> s1.sclk, cs_n |-> s1.cs_n]
    /\ Receive /\ Transmit /\ Echo
    /\ held' = IF held > half /\ held >= GAP THEN held ELSE held + 1
    /\ was' = IF rst THEN ZeroFrame ELSE was
    /\ UNCHANGED <<line, phase, half, out, inp, reply, noiseVars, wiring>>

(***************************************************************************)
(* spidev: xfer2 of one frame, mode 0, MSB first                            *)
(***************************************************************************)
Drives(l, to) ==
    /\ line' = l /\ phase' = to /\ held' = 0
    /\ UNCHANGED <<slaveVars, half, rst, noise, wiring>>

Begin(f) ==
    /\ phase = "idle" /\ held >= GAP
    /\ Drives([line EXCEPT !.cs_n = 0, !.mosi = f[1]], "low")
    /\ out' = f /\ inp' = <<>>
    /\ dirty' = (rst \/ half < ENOUGH) /\ was' = echo_reg
    /\ UNCHANGED reply

\* The master samples MISO as it raises SCLK.
Rise ==
    /\ phase = "low" /\ held >= half
    /\ Drives([line EXCEPT !.sclk = 1], "high")
    /\ inp' = Append(inp, IF wiring = "jumper" THEN line.mosi ELSE miso)
    /\ UNCHANGED <<out, reply, dirty, was>>

Fall ==
    /\ phase = "high" /\ held >= half
    /\ LET bit == IF Len(inp) = FRAME_BITS THEN 0 ELSE out[Len(inp) + 1]
       IN  Drives([line EXCEPT !.sclk = 0, !.mosi = bit],
                  IF Len(inp) = FRAME_BITS THEN "tail" ELSE "low")
    /\ UNCHANGED <<out, inp, reply, dirty, was>>

End ==
    /\ phase = "tail" /\ held >= half
    /\ Drives([line EXCEPT !.cs_n = 1], "idle")
    /\ reply' = inp
    /\ UNCHANGED <<out, inp, dirty, was>>

\* CS is seen high, or low again, in the middle of a transfer.
Glitch ==
    /\ phase # "idle"
    /\ line.cs_n = 0 => noise < MaxNoise
    /\ noise' = IF line.cs_n = 0 THEN noise + 1 ELSE noise
    /\ line' = [line EXCEPT !.cs_n = 1 - @]
    /\ dirty' = TRUE
    /\ UNCHANGED <<slaveVars, phase, half, held, out, inp, reply, rst, was, wiring>>

Press ==
    /\ ~rst => noise < MaxNoise
    /\ noise' = IF rst THEN noise ELSE noise + 1
    /\ rst' = ~rst /\ dirty' = TRUE
    /\ UNCHANGED <<slaveVars, masterVars, was, wiring>>

EchoInit ==
    LET quiet == [sclk |-> 0, cs_n |-> 1, mosi |-> 0]
    IN  /\ line = quiet /\ s0 = quiet /\ s1 = quiet
        /\ q = [sclk |-> 0, cs_n |-> 1]
        /\ cnt = 0 /\ rx_sr = ZeroFrame
        /\ rx_frame = ZeroFrame /\ rx_frame_valid = FALSE
        /\ tx_sr = ZeroFrame /\ miso = 0 /\ echo_reg = ZeroFrame
        /\ rst = FALSE /\ wiring \in {"echo", "jumper"}
        /\ phase = "idle" /\ held = GAP
        /\ out = ZeroFrame /\ inp = <<>> /\ reply = ZeroFrame
        /\ noise = 0 /\ dirty = FALSE /\ was = ZeroFrame

(***************************************************************************)
(* Properties                                                               *)
(***************************************************************************)
\* PROTOCOL.md, "frame-pipelined": on the wires, whatever the phase between
\* the two clocks, a transfer at a safe clock that no glitch or press got
\* into returns the frame before it, and one that was disturbed leaves its
\* frame whole or none: the next transfer is never off by a bit.
Bus == INSTANCE EchoBus WITH
    held <- IF wiring = "jumper" THEN ZeroFrame
            ELSE IF phase = "idle" THEN echo_reg ELSE was,
    reply <- IF wiring = "jumper" THEN ZeroFrame ELSE reply

ImplementsBus == Bus!Spec

=============================================================================
