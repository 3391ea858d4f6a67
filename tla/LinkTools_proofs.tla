-------------------------- MODULE LinkTools_proofs --------------------------
(***************************************************************************)
(* Theorems of LinkTools for frames of any width, any gap, any lists of     *)
(* frames and clocks.  LinkInv follows a change of the lines through the    *)
(* synchroniser and the shift registers of the board.  From it come the     *)
(* refinement of EchoBus and, with what the scripts remember, what a PASS   *)
(* or a CLEAN of theirs is worth.                                           *)
(***************************************************************************)
EXTENDS LinkTools, SequenceTheorems, TLAPS

(***************************************************************************)
(* The invariant of the link                                                *)
(***************************************************************************)
Bit == {0, 1}
Wires == [sclk : Bit, cs_n : Bit, mosi : Bit]

LinkTypeOK ==
    /\ line \in Wires /\ s0 \in Wires /\ s1 \in Wires
    /\ q \in [sclk : Bit, cs_n : Bit]
    /\ cnt \in 0 .. FRAME_BITS - 1
    /\ rx_sr \in Frame /\ rx_frame \in Frame /\ tx_sr \in Frame
    /\ echo_reg \in Frame /\ out \in Frame /\ was \in Frame /\ reply \in Frame
    /\ miso \in Bit /\ rx_frame_valid \in BOOLEAN
    /\ rst \in BOOLEAN /\ dirty \in BOOLEAN /\ noise \in Nat
    /\ wiring \in {"echo", "jumper"}
    /\ half \in Nat \ {0, 1} /\ held \in Nat
    /\ inp \in Seq(Bit) /\ Len(inp) <= FRAME_BITS
    /\ \/ phase = "idle"
       \/ phase = "low" /\ Len(inp) < FRAME_BITS
       \/ phase = "high" /\ Len(inp) > 0
       \/ phase = "tail" /\ Len(inp) = FRAME_BITS

\* What the master drives in each phase.
LineOK ==
    /\ line.sclk = IF phase = "high" THEN 1 ELSE 0
    /\ phase = "idle" => line.cs_n = 1
    /\ phase = "low" => line.mosi = out[Len(inp) + 1]
    /\ phase = "high" => line.mosi = out[Len(inp)]

\* The level of SCLK before the master last changed the lines.
Before == IF phase = "high" \/ Len(inp) = 0 THEN 0 ELSE 1

\* How far a change of the lines has come through the flip-flops.
SyncOK ==
    /\ s0.sclk = 1 => Len(inp) > 0 /\ s0.mosi = out[Len(inp)]
    /\ s1.sclk = 1 => Len(inp) > 0 /\ s1.mosi = out[Len(inp)]
    /\ held >= 1 => s0.sclk = line.sclk
    /\ held >= 2 => s1.sclk = line.sclk
    /\ phase # "idle" =>
          /\ held = 0 => s0.sclk = Before /\ s1.sclk = Before
          /\ held = 0 /\ half >= 3 => q.sclk = Before
          /\ held = 1 => s1.sclk = Before /\ q.sclk = Before
          /\ held = 2 => q.sclk = Before
          /\ held >= 3 => q.sclk = line.sclk
    /\ phase = "idle" =>
          /\ s0.sclk = 0 /\ s1.sclk = 0 /\ (held >= 1 => q.sclk = 0)
          /\ held >= 1 => s0.cs_n = 1
          /\ held >= 2 => s1.cs_n = 1

\* The board has not seen the last rise of SCLK yet.
Pending ==
    \/ phase = "high" /\ held <= 2
    \/ phase \in {"low", "tail"} /\ held = 0 /\ s1.sclk = 1 /\ q.sclk = 0
Seen == IF Pending THEN Len(inp) - 1 ELSE Len(inp)

\* Noise or not: the bits counted since CS was last high are the last ones of
\* those the board has seen, so a frame that fills up is the one under way.
ReceiveOK ==
    /\ \/ s1.cs_n = 1
       \/ /\ cnt <= Seen
          /\ \A i \in 1 .. cnt :
                rx_sr[FRAME_BITS - cnt + i] = out[Seen - cnt + i]
    /\ rx_frame_valid => /\ rx_frame = out /\ Len(inp) = FRAME_BITS
                         /\ phase # "idle" /\ (phase = "tail" => held <= 1)
    /\ phase # "idle" => echo_reg \in {was, out}
    /\ rst => dirty

\* The board has seen CS fall and taken the frame to answer.
Loaded == phase # "low" \/ Len(inp) > 0 \/ held >= 3
Shifts == IF phase = "low" /\ held >= 3 THEN Len(inp) ELSE Len(inp) - 1

\* A transfer nothing got into, edge by edge.
BeforeLoad ==
    /\ echo_reg = was /\ ~rx_frame_valid
    /\ held = 0 => s0.cs_n = 1 /\ s1.cs_n = 1
    /\ held = 1 => s0.cs_n = 0 /\ s1.cs_n = 1 /\ q.cs_n = 1
    /\ held = 2 => s0.cs_n = 0 /\ s1.cs_n = 0 /\ q.cs_n = 1
    /\ held >= 1 => cnt = 0
AfterLoad ==
    /\ s0.cs_n = 0 /\ s1.cs_n = 0 /\ q.cs_n = 0
    /\ Seen < FRAME_BITS => cnt = Seen /\ ~rx_frame_valid /\ echo_reg = was
    /\ Seen = FRAME_BITS => rx_frame_valid \/ echo_reg = out
    /\ phase = "tail" /\ held >= 1 => echo_reg = out
    /\ phase # "tail" =>
          /\ \A i \in 1 .. FRAME_BITS - Shifts : tx_sr[i] = was[i + Shifts]
          /\ miso = was[Shifts + 1]
AnswerOK ==
    /\ phase # "idle" /\ ~dirty => half >= ENOUGH
    /\ phase # "idle" /\ ~dirty /\ half >= 3 =>
        /\ line.cs_n = 0
        /\ ~Loaded => BeforeLoad
        /\ Loaded => AfterLoad
        /\ wiring = "echo" => \A j \in 1 .. Len(inp) : inp[j] = was[j]

LinkInv == LinkTypeOK /\ LineOK /\ SyncOK /\ ReceiveOK /\ AnswerOK

(***************************************************************************)
(* What the scripts add                                                     *)
(***************************************************************************)
ScriptOK ==
    /\ delay \in {0, 1} /\ step \in 1 .. Len(CLOCKS) /\ received \in Seq(Frame)
    /\ phase # "idle" => Len(received) < Len(Sent)
ToolInv == LinkInv /\ ScriptOK

\* The frame under way is the next one of the list.  A script that is judged
\* once has the one clock, and its verdict is about what it received.
SendingOK ==
    /\ script \in {"ramp", "bringup", "loopback"}
    /\ phase # "idle" => out = Sent[Len(received) + 1]
    /\ half = CLOCKS[step]
    /\ script = "ramp" => result \in {"", "ramped"}
    /\ script # "ramp" =>
          /\ step = 1 /\ status = <<>>
          /\ result # "" => Len(received) = Len(Sent)
          /\ result = "PASS" => Matched(received) = DOMAIN FRAMES
          /\ result \in {"FAIL", "all zero"} => Matched(received) # DOMAIN FRAMES

\* The jumper returns what is sent, whatever CS and btnC do.
JumperOK ==
    wiring = "jumper" =>
        /\ \A k \in 1 .. Len(received) : received[k] = Sent[k]
        /\ phase # "idle" => \A j \in 1 .. Len(inp) : inp[j] = out[j]

\* The board has nothing to echo in the first transfer, whatever CS and btnC
\* do.
FirstOK ==
    wiring = "echo" /\ script # "ramp" =>
        IF received = <<>>
        THEN /\ Seen < FRAME_BITS => /\ ~rx_frame_valid /\ echo_reg = ZeroFrame
                                     /\ tx_sr = ZeroFrame /\ miso = 0
             /\ \A j \in 1 .. Len(inp) : inp[j] = 0
             /\ phase = "idle" => inp = <<>>
        ELSE received[1] = ZeroFrame

PassInv == ToolInv /\ SendingOK /\ JumperOK /\ FirstOK

\* Without noise every transfer at a safe clock returns the frame before it.
QuietOK ==
    noise = 0 =>
        /\ ~rst
        /\ phase # "idle" /\ half >= ENOUGH => ~dirty
        /\ wiring = "echo" /\ half >= ENOUGH =>
              /\ \A k \in 2 .. Len(received) : received[k] = Sent[k - 1]
              /\ Len(received) > 0 =>
                    (IF phase = "idle" THEN echo_reg ELSE was) = Sent[Len(received)]

\* Every clock judged so far and slow enough is CLEAN on a quiet line.
StatusOK ==
    /\ status \in Seq(BOOLEAN)
    /\ script = "ramp" /\ result = "" => Len(status) = step - 1
    /\ noise = 0 /\ wiring = "echo" =>
          \A i \in 1 .. Len(status) : CLOCKS[i] >= ENOUGH => status[i]

QuietInv == PassInv /\ QuietOK /\ StatusOK

(***************************************************************************)
(* Frames and bits                                                          *)
(***************************************************************************)
\* A frame has at least two bits, and so has a gap edges.
LEMMA BitsPerFrame == FRAME_BITS \in Nat /\ FRAME_BITS > 1 /\ GAP \in Nat /\ GAP > 1
  BY EchoAssumption

\* The frame of zeros is a frame.
LEMMA ZeroTyped == ZeroFrame \in Frame
  BY DEF ZeroFrame, Frame

\* Frames with the same bits are the same.
LEMMA SameBits ==
    ASSUME NEW f \in Frame, NEW g \in Frame, \A i \in 1 .. FRAME_BITS : f[i] = g[i]
    PROVE  f = g
<1> DEFINE D == 1 .. FRAME_BITS
<1>1. f \in [D -> {0, 1}] /\ g \in [D -> {0, 1}] /\ \A i \in D : f[i] = g[i]
  BY DEF Frame
<1> HIDE DEF D
<1> QED BY <1>1

\* The bit counter wraps at the last bit of a frame.
LEMMA NextCount ==
    ASSUME NEW c \in Nat, c < FRAME_BITS
    PROVE  (c + 1) % FRAME_BITS = IF c = FRAME_BITS - 1 THEN 0 ELSE c + 1
  BY BitsPerFrame

\* A shift register holds a frame after a shift.
LEMMA ShiftTyped ==
    ASSUME NEW sr \in Frame, NEW bit \in Bit
    PROVE  Shifted(sr, bit) \in Frame
  BY BitsPerFrame DEF Frame, Shifted, Bit

(***************************************************************************)
(* One edge of clk                                                          *)
(***************************************************************************)
\* An edge of clk moves nothing of the master.
LEMMA ClkFrames ==
    ASSUME Clk
    PROVE  UNCHANGED <<line, phase, half, out, inp, reply, rst, noise, dirty, wiring>>
  BY DEF Clk, noiseVars

\* The time since the lines last changed goes on, up to the gap when idle.
LEMMA HeldStep ==
    ASSUME LinkTypeOK, Clk
    PROVE  /\ held' \in Nat
           /\ held' = held + 1 \/ (phase = "idle" /\ held' = held /\ held >= 2)
  BY BitsPerFrame DEF LinkTypeOK, Clk

\* An edge of clk keeps the types.
LEMMA ClkTyped == ASSUME LinkTypeOK, Clk PROVE LinkTypeOK'
<1>1. UNCHANGED <<line, phase, half, out, inp, reply, rst, noise, dirty, wiring>>
  BY ClkFrames
<1>2. /\ s0' \in Wires /\ s1' \in Wires /\ q' \in [sclk : Bit, cs_n : Bit]
      /\ held' \in Nat
  BY HeldStep DEF LinkTypeOK, Clk, Wires
<1>3. Shifted(rx_sr, s1.mosi) \in Frame /\ Shifted(tx_sr, 0) \in Frame
  BY ShiftTyped DEF LinkTypeOK, Wires, Bit
<1>4. /\ cnt' \in 0 .. FRAME_BITS - 1 /\ rx_sr' \in Frame /\ rx_frame' \in Frame
      /\ rx_frame_valid' \in BOOLEAN
  <2>0. Receive
    BY DEF Clk
  <2>1. CASE rst \/ ~cs_active \/ ~sclk_rise
    <3>1. /\ cnt' = IF rst \/ ~cs_active THEN 0 ELSE cnt
          /\ rx_frame_valid' = FALSE /\ rx_sr' = rx_sr /\ rx_frame' = rx_frame
      BY <2>0, <2>1 DEF Receive
    <3>2. cnt' = 0 \/ cnt' = cnt
      BY <3>1
    <3>3. cnt \in 0 .. FRAME_BITS - 1 /\ rx_sr \in Frame /\ rx_frame \in Frame
      BY DEF LinkTypeOK
    <3>4. cnt' \in 0 .. FRAME_BITS - 1
      BY <3>2, <3>3, BitsPerFrame
    <3> QED BY <3>1, <3>3, <3>4
  <2>2. CASE ~(rst \/ ~cs_active \/ ~sclk_rise)
    <3>1. /\ rx_sr' = Shifted(rx_sr, s1.mosi)
          /\ cnt' = (cnt + 1) % FRAME_BITS
          /\ rx_frame_valid' = (cnt = FRAME_BITS - 1)
          /\ rx_frame' = IF cnt = FRAME_BITS - 1 THEN rx_sr' ELSE rx_frame
      BY <2>0, <2>2 DEF Receive
    <3>2. cnt \in Nat /\ cnt < FRAME_BITS
      BY BitsPerFrame DEF LinkTypeOK
    <3>3. cnt' \in 0 .. FRAME_BITS - 1
      BY <3>1, <3>2, BitsPerFrame
    <3> QED BY <1>3, <3>1, <3>3 DEF LinkTypeOK
  <2> QED BY <2>1, <2>2
<1>5. tx_sr' \in Frame /\ miso' \in Bit
  <2>1. \A f \in Frame : f[1] \in Bit /\ f[2] \in Bit
    BY BitsPerFrame DEF Frame, Bit
  <2> QED BY <1>3, <2>1, ZeroTyped DEF Clk, Transmit, LinkTypeOK, Bit
<1>6. echo_reg' \in Frame /\ was' \in Frame
  BY ZeroTyped DEF Clk, Echo, LinkTypeOK
<1> QED BY <1>1, <1>2, <1>4, <1>5, <1>6 DEF LinkTypeOK

\* A level of SCLK moves on by one flip-flop.
LEMMA ClkSync ==
    ASSUME LinkTypeOK, LineOK, SyncOK, Clk
    PROVE  SyncOK'
<1>1. UNCHANGED <<line, phase, half, out, inp>> /\ Before' = Before
  BY ClkFrames DEF Before
<1>2. s0' = line /\ s1' = s0 /\ q'.sclk = s1.sclk /\ q'.cs_n = s1.cs_n
  BY DEF Clk
<1>3. held \in Nat /\ Len(inp) \in Nat
  BY DEF LinkTypeOK
<1>4. line.sclk \in Bit /\ s0.sclk \in Bit /\ s1.sclk \in Bit
  BY DEF LinkTypeOK, Wires
<1>5. /\ s0'.sclk = 1 => Len(inp) > 0 /\ s0'.mosi = out[Len(inp)]
      /\ s1'.sclk = 1 => Len(inp) > 0 /\ s1'.mosi = out[Len(inp)]
  BY <1>2 DEF LineOK, SyncOK, LinkTypeOK
<1>6. CASE phase = "idle"
  BY <1>1, <1>2, <1>3, <1>5, <1>6, HeldStep DEF SyncOK, LineOK
<1>7. CASE phase # "idle"
  <2>1. held' = held + 1
    BY <1>7, HeldStep
  <2> QED BY <1>1, <1>2, <1>3, <1>5, <1>7, <2>1 DEF SyncOK
<1> QED BY <1>6, <1>7

\* A rise of SCLK is seen when it is pending, and only once.
LEMMA SeenStep ==
    ASSUME LinkTypeOK, LineOK, SyncOK, Clk
    PROVE  /\ sclk_rise => /\ phase # "idle" /\ Pending /\ Seen' = Seen + 1 /\ Seen' = Len(inp)
                           /\ s1.mosi = out[Len(inp)] /\ Len(inp) > 0
                           /\ phase = "tail" => held = 0
           /\ ~sclk_rise => Seen' = Seen
           /\ Seen \in Int
<1>1. UNCHANGED <<line, phase, inp>>
  BY ClkFrames
<1>2. s1' = s0 /\ q'.sclk = s1.sclk
  BY DEF Clk
<1>3. held \in Nat /\ Len(inp) \in Nat /\ q.sclk \in Bit /\ s1.sclk \in Bit
  BY DEF LinkTypeOK, Wires
<1>4. CASE phase = "idle"
  BY <1>1, <1>4 DEF SyncOK, sclk_rise, Seen, Pending, LinkTypeOK
<1>5. CASE phase # "idle"
  <2>1. held' = held + 1
    BY <1>5, HeldStep
  <2>2. CASE phase = "high"
    <3>1. Before = 0 /\ line.sclk = 1
      BY <2>2 DEF Before, LineOK
    <3>2. sclk_rise <=> held = 2
      BY <1>3, <2>2, <3>1 DEF SyncOK, sclk_rise, Bit
    <3>3. Pending' <=> held <= 1
      BY <1>1, <1>3, <2>1, <2>2 DEF Pending
    <3>4. Pending <=> held <= 2
      BY <2>2 DEF Pending
    <3>5. /\ Seen = IF held <= 2 THEN Len(inp) - 1 ELSE Len(inp)
          /\ Seen' = IF held <= 1 THEN Len(inp) - 1 ELSE Len(inp)
      BY <1>1, <3>3, <3>4 DEF Seen
    <3> QED BY <1>3, <2>2, <3>2, <3>4, <3>5 DEF SyncOK, sclk_rise
  <2>3. CASE phase \in {"low", "tail"}
    <3>1. line.sclk = 0
      BY <2>3 DEF LineOK
    <3>2. sclk_rise <=> Pending
      BY <1>3, <2>3, <3>1 DEF SyncOK, sclk_rise, Pending, Before, Bit
    <3>3. ~Pending'
      BY <1>1, <1>3, <2>1, <2>3 DEF Pending
    <3>4. Seen' = Len(inp) /\ Seen = IF sclk_rise THEN Len(inp) - 1 ELSE Len(inp)
      BY <1>1, <3>2, <3>3 DEF Seen
    <3>5. Pending => held = 0
      BY <2>3 DEF Pending
    <3> QED BY <1>3, <2>3, <3>2, <3>4, <3>5 DEF SyncOK, sclk_rise
  <2> QED BY <1>5, <2>2, <2>3 DEF LinkTypeOK
<1> QED BY <1>4, <1>5

\* What the receiver does with a bit.
LEMMA ClkReceive ==
    ASSUME LinkTypeOK, LineOK, SyncOK, ReceiveOK, Clk
    PROVE  ReceiveOK'
<1>1. UNCHANGED <<phase, inp, out, dirty, rst>>
  BY ClkFrames
<1>2. Receive /\ Echo /\ s1' = s0 /\ was' = IF rst THEN ZeroFrame ELSE was
  BY DEF Clk
<1>3. cnt \in Nat /\ cnt < FRAME_BITS /\ Len(inp) \in Nat /\ Len(inp) <= FRAME_BITS
      /\ rx_sr \in Frame /\ out \in Frame /\ held \in Nat
  BY BitsPerFrame DEF LinkTypeOK
<1>4. /\ sclk_rise => /\ phase # "idle" /\ Pending /\ Seen' = Seen + 1 /\ Seen' = Len(inp)
                      /\ s1.mosi = out[Len(inp)] /\ Len(inp) > 0
                      /\ phase = "tail" => held = 0
      /\ ~sclk_rise => Seen' = Seen
      /\ Seen \in Int
  BY SeenStep
<1>5. s1.cs_n \in Bit /\ Seen >= 0
  BY <1>3 DEF LinkTypeOK, Wires, Seen, Pending, SyncOK
<1>6. phase' # "idle" => echo_reg' \in {was', out'}
  BY <1>1, <1>2 DEF Echo, ReceiveOK
<1>7. CASE rst \/ ~cs_active \/ ~sclk_rise
  <2>1. /\ cnt' = IF rst \/ ~cs_active THEN 0 ELSE cnt
        /\ rx_frame_valid' = FALSE /\ rx_sr' = rx_sr
    BY <1>2, <1>7 DEF Receive
  <2>2. CASE rst \/ ~cs_active
    <3>1. cnt' = 0 /\ Seen' \in Int /\ Seen' >= 0
      BY <2>1, <2>2, <1>4, <1>5
    <3>2. cnt' <= Seen' /\ \A i \in 1 .. cnt' :
             rx_sr'[FRAME_BITS - cnt' + i] = out'[Seen' - cnt' + i]
      BY <3>1
    <3> QED BY <1>1, <1>6, <2>1, <3>2 DEF ReceiveOK
  <2>3. CASE ~rst /\ cs_active
    <3>1. cnt' = cnt /\ Seen' = Seen
      BY <1>4, <1>7, <2>1, <2>3
    <3>2. cnt <= Seen /\ \A i \in 1 .. cnt :
             rx_sr[FRAME_BITS - cnt + i] = out[Seen - cnt + i]
      BY <2>3 DEF ReceiveOK, cs_active
    <3> QED BY <1>1, <1>6, <2>1, <3>1, <3>2 DEF ReceiveOK
  <2> QED BY <2>2, <2>3
<1>8. CASE ~rst /\ cs_active /\ sclk_rise
  <2>1. /\ rx_sr' = Shifted(rx_sr, s1.mosi)
        /\ cnt' = (cnt + 1) % FRAME_BITS
        /\ rx_frame_valid' = (cnt = FRAME_BITS - 1)
        /\ rx_frame' = IF cnt = FRAME_BITS - 1 THEN rx_sr' ELSE rx_frame
    BY <1>2, <1>8 DEF Receive
  <2>2. cnt <= Seen /\ \A i \in 1 .. cnt :
           rx_sr[FRAME_BITS - cnt + i] = out[Seen - cnt + i]
    BY <1>8 DEF ReceiveOK, cs_active
  <2>3. Seen' = Seen + 1 /\ s1.mosi = out[Seen + 1] /\ Len(inp) = Seen + 1
    BY <1>4, <1>8
  <2>4. \A i \in 1 .. FRAME_BITS :
           rx_sr'[i] = IF i = FRAME_BITS THEN s1.mosi ELSE rx_sr[i + 1]
    BY <2>1 DEF Shifted
  <2>5. \A i \in 1 .. cnt + 1 :
           rx_sr'[FRAME_BITS - (cnt + 1) + i] = out[Seen' - (cnt + 1) + i]
    <3> SUFFICES ASSUME NEW i \in 1 .. cnt + 1
                 PROVE  rx_sr'[FRAME_BITS - (cnt + 1) + i] = out[Seen' - (cnt + 1) + i]
      OBVIOUS
    <3>1. CASE i = cnt + 1
      <4>1. FRAME_BITS - (cnt + 1) + i = FRAME_BITS /\ Seen' - (cnt + 1) + i = Seen + 1
            /\ FRAME_BITS \in 1 .. FRAME_BITS
        BY <1>3, <1>4, <2>3, <3>1, BitsPerFrame
      <4> QED BY <2>3, <2>4, <4>1
    <3>2. CASE i # cnt + 1
      <4>1. i \in 1 .. cnt
        BY <1>3, <3>2
      <4>2. /\ FRAME_BITS - (cnt + 1) + i \in 1 .. FRAME_BITS
            /\ FRAME_BITS - (cnt + 1) + i # FRAME_BITS
            /\ (FRAME_BITS - (cnt + 1) + i) + 1 = FRAME_BITS - cnt + i
            /\ Seen' - (cnt + 1) + i = Seen - cnt + i
        BY <1>3, <1>4, <2>3, <4>1, BitsPerFrame
      <4> QED BY <2>2, <2>4, <4>1, <4>2
    <3> QED BY <3>1, <3>2
  <2>6. CASE cnt # FRAME_BITS - 1
    <3>1. cnt' = cnt + 1 /\ rx_frame_valid' = FALSE
      <4>1. (cnt + 1) % FRAME_BITS = cnt + 1
        BY <1>3, <2>6, NextCount
      <4> QED BY <2>1, <2>6, <4>1, Zenon
    <3>2. cnt' <= Seen'
      BY <1>3, <1>4, <2>2, <2>3, <3>1
    <3>3. \A i \in 1 .. cnt' : rx_sr'[FRAME_BITS - cnt' + i] = out'[Seen' - cnt' + i]
      BY <1>1, <2>5, <3>1
    <3> QED BY <1>1, <1>6, <3>1, <3>2, <3>3 DEF ReceiveOK
  <2>7. CASE cnt = FRAME_BITS - 1
    <3>1. cnt' = 0 /\ rx_frame_valid' /\ rx_frame' = rx_sr'
      <4>1. (cnt + 1) % FRAME_BITS = 0
        BY <1>3, <2>7, NextCount
      <4> QED BY <2>1, <2>7, <4>1, Zenon
    <3>2. Seen + 1 = FRAME_BITS
      BY <1>3, <1>4, <2>2, <2>3, <2>7, BitsPerFrame
    <3>3. \A i \in 1 .. FRAME_BITS : rx_sr'[i] = out[i]
      <4>1. cnt + 1 = FRAME_BITS /\ Seen' - (cnt + 1) = 0 /\ FRAME_BITS - (cnt + 1) = 0
        BY <1>3, <1>4, <2>3, <2>7, <3>2, BitsPerFrame
      <4> SUFFICES ASSUME NEW i \in 1 .. FRAME_BITS PROVE rx_sr'[i] = out[i]
        OBVIOUS
      <4>2. FRAME_BITS - (cnt + 1) + i = i /\ Seen' - (cnt + 1) + i = i /\ i \in 1 .. cnt + 1
        BY <4>1
      <4> QED BY <2>5, <4>2
    <3>4. rx_sr' \in Frame
      BY <2>1, ShiftTyped DEF LinkTypeOK, Wires
    <3>5. rx_sr' = out
      BY <1>3, <3>3, <3>4, SameBits
    <3>6. phase' # "idle" /\ (phase' = "tail" => held' <= 1) /\ Len(inp)' = FRAME_BITS
      BY <1>1, <1>4, <1>8, <2>3, <3>2, HeldStep
    <3>7. cnt' <= Seen' /\ \A i \in 1 .. cnt' :
             rx_sr'[FRAME_BITS - cnt' + i] = out'[Seen' - cnt' + i]
      BY <1>4, <1>5, <2>3, <3>1
    <3> QED BY <1>1, <1>6, <3>1, <3>5, <3>6, <3>7 DEF ReceiveOK
  <2> QED BY <2>6, <2>7
<1> QED BY <1>7, <1>8

\* The board has shifted the answer fewer times than it has bits.
LEMMA ShiftsTyped ==
    ASSUME LinkTypeOK, Loaded, phase # "tail", phase # "idle"
    PROVE  Shifts \in 0 .. FRAME_BITS - 1
<1>1. held \in Nat /\ Len(inp) \in Nat /\ Len(inp) <= FRAME_BITS
  BY BitsPerFrame DEF LinkTypeOK
<1>2. \/ phase = "low" /\ Len(inp) < FRAME_BITS
      \/ phase = "high" /\ Len(inp) > 0
  BY DEF LinkTypeOK
<1>3. phase = "low" => Len(inp) > 0 \/ held >= 3
  BY DEF Loaded
<1>4. CASE phase = "high"
  BY <1>1, <1>2, <1>4, BitsPerFrame DEF Shifts
<1>5. CASE phase = "low" /\ held >= 3
  BY <1>1, <1>2, <1>5, BitsPerFrame DEF Shifts
<1>6. CASE phase = "low" /\ ~(held >= 3)
  BY <1>1, <1>2, <1>3, <1>6, BitsPerFrame DEF Shifts
<1> QED BY <1>2, <1>4, <1>5, <1>6

\* What the board answers to an edge of a transfer nothing got into.
LEMMA ClkAnswer ==
    ASSUME LinkInv, Clk, phase # "idle", ~dirty, half >= 3
    PROVE  AnswerOK'
<1> USE DEF LinkInv
<1>1. UNCHANGED <<line, phase, half, inp, out, dirty, rst, wiring>>
  BY ClkFrames
<1>2. /\ Receive /\ Transmit /\ Echo
      /\ s0' = line /\ s1' = s0 /\ q'.cs_n = s1.cs_n
      /\ was' = IF rst THEN ZeroFrame ELSE was
  BY DEF Clk
<1>3. ~rst /\ was' = was
  BY <1>2 DEF ReceiveOK
<1>4. /\ half >= 3 /\ half >= ENOUGH /\ line.cs_n = 0
      /\ ~Loaded => BeforeLoad
      /\ Loaded => AfterLoad
      /\ wiring = "echo" => \A j \in 1 .. Len(inp) : inp[j] = was[j]
  BY DEF AnswerOK
<1>5. held \in Nat /\ held' = held + 1 /\ Len(inp) \in Nat /\ Len(inp) <= FRAME_BITS
      /\ half \in Nat
  BY HeldStep DEF LinkTypeOK
<1>6. /\ sclk_rise => /\ phase # "idle" /\ Pending /\ Seen' = Seen + 1 /\ Seen' = Len(inp)
                      /\ s1.mosi = out[Len(inp)] /\ Len(inp) > 0
                      /\ phase = "tail" => held = 0
      /\ ~sclk_rise => Seen' = Seen
      /\ Seen \in Int
  BY SeenStep
<1>7. /\ half' >= ENOUGH /\ line'.cs_n = 0
      /\ wiring' = "echo" => \A j \in 1 .. Len(inp') : inp'[j] = was'[j]
  BY <1>1, <1>3, <1>4
<1>8. CASE ~Loaded /\ held <= 1
  <2>1. BeforeLoad /\ phase = "low" /\ Len(inp) = 0
    BY <1>4, <1>5, <1>8 DEF Loaded
  <2>2. held = 0 \/ held = 1
    BY <1>5, <1>8
  <2>3. s1.cs_n = 1
    BY <2>1, <2>2 DEF BeforeLoad
  <2>4. cnt' = 0 /\ rx_frame_valid' = FALSE
    BY <1>2, <2>3 DEF Receive, cs_active
  <2>5. echo_reg' = was'
    BY <1>2, <1>3, <2>1 DEF BeforeLoad, Echo
  <2>6. /\ held' = 1 => s0'.cs_n = 0 /\ s1'.cs_n = 1 /\ q'.cs_n = 1
        /\ held' = 2 => s0'.cs_n = 0 /\ s1'.cs_n = 0 /\ q'.cs_n = 1
    BY <1>2, <1>4, <1>5, <2>1, <2>2, <2>3 DEF BeforeLoad
  <2>7. ~Loaded' /\ BeforeLoad'
    BY <1>1, <1>5, <2>1, <2>2, <2>4, <2>5, <2>6 DEF BeforeLoad, Loaded
  <2> QED BY <1>7, <2>7 DEF AnswerOK
<1>9. CASE ~Loaded /\ held = 2
  <2>1. BeforeLoad /\ phase = "low" /\ Len(inp) = 0
    BY <1>4, <1>5, <1>9 DEF Loaded
  <2>2. /\ s0.cs_n = 0 /\ s1.cs_n = 0 /\ q.cs_n = 1 /\ cnt = 0
        /\ echo_reg = was /\ ~rx_frame_valid
    BY <1>9, <2>1 DEF BeforeLoad
  <2>3. ~sclk_rise
    BY <1>6, <2>1
  <2>4. cnt' = 0 /\ rx_frame_valid' = FALSE
    BY <1>2, <2>2, <2>3 DEF Receive
  <2>5. echo_reg' = was'
    BY <1>2, <1>3, <2>2 DEF Echo
  <2>6. tx_sr' = was' /\ miso' = was'[1]
    <3>1. cs_fall
      BY <2>2 DEF cs_fall
    <3>2. cs_active
      BY <2>2 DEF cs_active
    <3>3. tx_sr' = echo_reg /\ miso' = echo_reg[1]
      BY <1>2, <1>3, <3>1, <3>2 DEF Transmit
    <3> QED BY <1>3, <2>2, <3>3
  <2>7. s0'.cs_n = 0 /\ s1'.cs_n = 0 /\ q'.cs_n = 0
    BY <1>2, <1>4, <2>2
  <2>8. Seen' = 0 /\ Shifts' = 0 /\ Loaded'
    BY <1>1, <1>5, <1>9, <2>1 DEF Seen, Pending, Shifts, Loaded
  <2>9. AfterLoad'
    BY <1>1, <2>1, <2>4, <2>5, <2>6, <2>7, <2>8, BitsPerFrame DEF AfterLoad
  <2> QED BY <1>7, <2>8, <2>9 DEF AnswerOK
<1>10. CASE Loaded
  <2>1. AfterLoad /\ Loaded'
    BY <1>1, <1>4, <1>5, <1>10 DEF Loaded
  <2>2. s0.cs_n = 0 /\ s1.cs_n = 0 /\ q.cs_n = 0
    BY <2>1 DEF AfterLoad
  <2>3. s0'.cs_n = 0 /\ s1'.cs_n = 0 /\ q'.cs_n = 0
    BY <1>2, <1>4, <2>2
  <2>4. phase = "tail" => ~Pending /\ ~sclk_rise /\ Seen = FRAME_BITS
    <3> SUFFICES ASSUME phase = "tail" PROVE ~Pending /\ ~sclk_rise /\ Seen = FRAME_BITS
      OBVIOUS
    <3>1. Len(inp) = FRAME_BITS /\ Before = 1
      BY BitsPerFrame DEF LinkTypeOK, Before
    <3>2. ~Pending
      BY <1>4, <3>1 DEF Pending, SyncOK
    <3> QED BY <1>6, <3>1, <3>2 DEF Seen
  <2>5. /\ Seen' < FRAME_BITS => cnt' = Seen' /\ ~rx_frame_valid' /\ echo_reg' = was'
        /\ Seen' = FRAME_BITS => rx_frame_valid' \/ echo_reg' = out'
        /\ phase' = "tail" /\ held' >= 1 => echo_reg' = out'
    <3>1. CASE sclk_rise
      <4>1. Seen < FRAME_BITS /\ phase # "tail"
        BY <1>5, <1>6, <2>4, <3>1, BitsPerFrame
      <4>2. cnt = Seen /\ ~rx_frame_valid /\ echo_reg = was
        BY <2>1, <4>1 DEF AfterLoad
      <4>3. echo_reg' = was'
        BY <1>2, <1>3, <4>2 DEF Echo
      <4>4. cnt' = (cnt + 1) % FRAME_BITS /\ rx_frame_valid' = (cnt = FRAME_BITS - 1)
        BY <1>2, <1>3, <2>2, <3>1 DEF Receive, cs_active
      <4>5. cnt \in Nat /\ cnt < FRAME_BITS
        BY BitsPerFrame DEF LinkTypeOK
      <4>6. CASE cnt = FRAME_BITS - 1
        <5>1. Seen' = FRAME_BITS
          BY <1>6, <3>1, <4>2, <4>5, <4>6, BitsPerFrame
        <5>2. rx_frame_valid'
          BY <4>4, <4>6, Zenon
        <5> QED BY <1>1, <4>1, <5>1, <5>2, BitsPerFrame
      <4>7. CASE cnt # FRAME_BITS - 1
        <5>1. cnt' = cnt + 1
          BY <4>4, <4>5, <4>7, NextCount
        <5>2. Seen' = cnt' /\ Seen' # FRAME_BITS
          BY <1>6, <3>1, <4>2, <4>5, <4>7, <5>1, BitsPerFrame
        <5>3. ~rx_frame_valid'
          BY <4>4, <4>7, Zenon
        <5> QED BY <1>1, <4>1, <4>3, <5>2, <5>3
      <4> QED BY <4>6, <4>7
    <3>2. CASE ~sclk_rise
      <4>1. Seen' = Seen /\ cnt' = cnt /\ ~rx_frame_valid'
        BY <1>2, <1>3, <1>6, <2>2, <3>2 DEF Receive, cs_active
      <4>2. Seen < FRAME_BITS => cnt' = Seen' /\ ~rx_frame_valid' /\ echo_reg' = was'
        BY <1>2, <1>3, <2>1, <4>1 DEF AfterLoad, Echo
      <4>3. Seen = FRAME_BITS => echo_reg' = out'
        BY <1>1, <1>2, <1>3, <2>1 DEF AfterLoad, Echo, ReceiveOK
      <4> QED BY <1>1, <2>4, <4>1, <4>2, <4>3
    <3> QED BY <3>1, <3>2
  <2>6. ASSUME phase # "tail"
        PROVE  /\ \A i \in 1 .. FRAME_BITS - Shifts' : tx_sr'[i] = was'[i + Shifts']
               /\ miso' = was'[Shifts' + 1]
    <3>1. /\ \A i \in 1 .. FRAME_BITS - Shifts : tx_sr[i] = was[i + Shifts]
          /\ miso = was[Shifts + 1]
      BY <2>1, <2>6 DEF AfterLoad
    <3>2. Shifts \in 0 .. FRAME_BITS - 1
      BY <1>10, <2>6, ShiftsTyped
    <3>3. \/ phase = "low" /\ Len(inp) < FRAME_BITS
          \/ phase = "high" /\ Len(inp) > 0
      BY <2>6 DEF LinkTypeOK
    <3>4. phase = "low" => Len(inp) > 0 \/ held >= 3
      BY <1>10 DEF Loaded
    <3>5. sclk_fall <=> phase = "low" /\ held = 2
      <4>1. s1.sclk \in Bit /\ q.sclk \in Bit
        BY DEF LinkTypeOK, Wires
      <4>2. CASE phase = "high"
        <5>1. Before = 0 /\ line.sclk = 1
          BY <4>2 DEF Before, LineOK
        <5> QED BY <1>4, <1>5, <4>1, <4>2, <5>1 DEF SyncOK, sclk_fall, Bit
      <4>3. CASE phase = "low"
        <5>1. line.sclk = 0 /\ (held < 3 => Before = 1)
          BY <1>5, <3>4, <4>3 DEF Before, LineOK
        <5> QED BY <1>4, <1>5, <4>1, <4>3, <5>1 DEF SyncOK, sclk_fall, Bit
      <4> QED BY <3>3, <4>2, <4>3
    <3>6. CASE sclk_fall
      <4>1. tx_sr' = Shifted(tx_sr, 0) /\ miso' = tx_sr[2]
        BY <1>2, <1>3, <2>2, <3>6 DEF Transmit, cs_fall, cs_active
      <4>2. Shifts' = Shifts + 1 /\ Shifts = Len(inp) - 1 /\ Shifts' < FRAME_BITS
        BY <1>1, <1>5, <3>3, <3>5, <3>6 DEF Shifts
      <4>3. miso' = was'[Shifts' + 1]
        <5>1. 2 \in 1 .. FRAME_BITS - Shifts /\ 2 + Shifts = Shifts' + 1
          BY <3>2, <4>2, BitsPerFrame
        <5> QED BY <1>3, <3>1, <4>1, <5>1
      <4>4. ASSUME NEW i \in 1 .. FRAME_BITS - Shifts'
            PROVE  tx_sr'[i] = was'[i + Shifts']
        <5>1. /\ i \in 1 .. FRAME_BITS /\ i # FRAME_BITS /\ i + 1 \in 1 .. FRAME_BITS - Shifts
              /\ (i + 1) + Shifts = i + Shifts'
          BY <3>2, <4>2, BitsPerFrame
        <5>2. tx_sr'[i] = tx_sr[i + 1]
          BY <4>1, <5>1 DEF Shifted
        <5> QED BY <1>3, <3>1, <5>1, <5>2
      <4> QED BY <4>3, <4>4
    <3>7. CASE ~sclk_fall
      <4>1. tx_sr' = tx_sr /\ miso' = miso
        BY <1>2, <1>3, <2>2, <3>7 DEF Transmit, cs_fall, cs_active
      <4>2. Shifts' = Shifts
        BY <1>1, <1>5, <3>3, <3>5, <3>7 DEF Shifts
      <4> QED BY <1>3, <3>1, <4>1, <4>2
    <3> QED BY <3>6, <3>7
  <2>7. AfterLoad'
    BY <1>1, <2>3, <2>5, <2>6 DEF AfterLoad
  <2> QED BY <1>7, <2>1, <2>7 DEF AnswerOK
<1>11. ~Loaded => held <= 2
  BY <1>5 DEF Loaded
<1> QED BY <1>5, <1>8, <1>9, <1>10, <1>11

\* An edge of clk keeps the invariant of the link.
LEMMA ClkStep == ASSUME LinkInv, Clk PROVE LinkInv'
<1>1. UNCHANGED <<line, phase, half, out, inp, dirty>>
  BY ClkFrames
<1>2. LinkTypeOK' /\ SyncOK' /\ ReceiveOK'
  BY ClkTyped, ClkSync, ClkReceive DEF LinkInv
<1>3. LineOK'
  BY <1>1 DEF LinkInv, LineOK
<1>4. AnswerOK'
  <2>1. CASE phase = "idle" \/ dirty \/ ~(half >= 3)
    BY <1>1, <2>1 DEF AnswerOK, LinkInv
  <2>2. CASE phase # "idle" /\ ~dirty /\ half >= 3
    BY <2>2, ClkAnswer
  <2> QED BY <2>1, <2>2
<1> QED BY <1>2, <1>3, <1>4 DEF LinkInv

(***************************************************************************)
(* The master, and the noise                                                *)
(***************************************************************************)
\* What appending a bit leaves alone.
LEMMA BitAdded ==
    ASSUME NEW s \in Seq(Bit), NEW b \in Bit
    PROVE  /\ Append(s, b) \in Seq(Bit) /\ Len(Append(s, b)) = Len(s) + 1
           /\ \A j \in 1 .. Len(s) : Append(s, b)[j] = s[j]
           /\ Append(s, b)[Len(s) + 1] = b
  BY AppendProperties

\* FRAME_BITS bits are a frame.
LEMMA WholeFrame ==
    ASSUME NEW s \in Seq(Bit), Len(s) = FRAME_BITS
    PROVE  s \in Frame
  BY BitsPerFrame DEF Frame, Bit

\* The master lowers CS: the board still has the levels of the idle line.
LEMMA BeginStep ==
    ASSUME LinkInv, NEW f \in Frame, Begin(f)
    PROVE  LinkInv'
<1> USE DEF LinkInv
<1>1. /\ phase = "idle" /\ held >= GAP
      /\ line' = [line EXCEPT !.cs_n = 0, !.mosi = f[1]] /\ phase' = "low" /\ held' = 0
      /\ UNCHANGED <<half, rst, noise, wiring, reply>>
      /\ out' = f /\ inp' = <<>> /\ was' = echo_reg
      /\ dirty' = (rst \/ half < ENOUGH)
  BY DEF Begin, Drives
<1>2. UNCHANGED <<s0, s1, q, cnt, rx_sr, rx_frame, rx_frame_valid, tx_sr, miso, echo_reg>>
  BY DEF Begin, Drives, slaveVars
<1>3. held \in Nat /\ held >= 2 /\ half \in Nat /\ ENOUGH \in Nat
  BY <1>1, BitsPerFrame, EchoAssumption DEF LinkTypeOK
<1>4. f[1] \in Bit /\ Len(inp') = 0 /\ inp' \in Seq(Bit)
  BY <1>1, BitsPerFrame DEF Frame, Bit
<1>5. /\ line'.sclk = 0 /\ line'.cs_n = 0 /\ line'.mosi = f[1] /\ line' \in Wires
  BY <1>1, <1>4 DEF LinkTypeOK, LineOK, Wires, Bit
<1>6. LinkTypeOK'
  BY <1>1, <1>2, <1>3, <1>4, <1>5, BitsPerFrame DEF LinkTypeOK
<1>7. LineOK'
  BY <1>1, <1>4, <1>5 DEF LineOK
<1>8. SyncOK'
  <2>1. Before' = 0
    BY <1>4 DEF Before
  <2> QED BY <1>1, <1>2, <1>3, <2>1 DEF SyncOK
<1>9. s0.cs_n = 1 /\ s1.cs_n = 1 /\ ~rx_frame_valid
  BY <1>1, <1>3 DEF SyncOK, ReceiveOK
<1>10. ReceiveOK'
  BY <1>1, <1>2, <1>9 DEF ReceiveOK
<1>11. AnswerOK'
  <2>1. ~dirty' => half' >= ENOUGH
    <3>1. ~dirty' => ~(half < ENOUGH)
      BY <1>1, Zenon
    <3> QED BY <1>1, <1>3, <3>1
  <2>2. ~Loaded' /\ BeforeLoad'
    BY <1>1, <1>2, <1>4, <1>9 DEF Loaded, BeforeLoad
  <2> QED BY <1>4, <1>5, <2>1, <2>2 DEF AnswerOK
<1> QED BY <1>6, <1>7, <1>8, <1>10, <1>11

\* The master raises SCLK and samples MISO: the rise is pending, and the bit
\* sampled is the one the board shifted out after the last fall.
LEMMA RiseStep == ASSUME LinkInv, Rise PROVE LinkInv' /\ Seen' = Seen
<1> USE DEF LinkInv
<1> DEFINE b == IF wiring = "jumper" THEN line.mosi ELSE miso
<1>1. /\ phase = "low" /\ held >= half
      /\ line' = [line EXCEPT !.sclk = 1] /\ phase' = "high" /\ held' = 0
      /\ UNCHANGED <<half, rst, noise, wiring, reply, out, dirty, was>>
      /\ inp' = Append(inp, b)
  BY DEF Rise, Drives
<1>2. UNCHANGED <<s0, s1, q, cnt, rx_sr, rx_frame, rx_frame_valid, tx_sr, miso, echo_reg>>
  BY DEF Rise, Drives, slaveVars
<1>3. /\ held \in Nat /\ held >= 2 /\ half \in Nat /\ Len(inp) \in Nat
      /\ Len(inp) < FRAME_BITS /\ inp \in Seq(Bit)
  BY <1>1 DEF LinkTypeOK
<1>4. b \in Bit
  BY DEF LinkTypeOK, Wires
<1> HIDE DEF b
<1>5. /\ inp' \in Seq(Bit) /\ Len(inp') = Len(inp) + 1
      /\ \A j \in 1 .. Len(inp) : inp'[j] = inp[j]
      /\ inp'[Len(inp) + 1] = b
  BY <1>1, <1>3, <1>4, BitAdded
<1>6. /\ line'.sclk = 1 /\ line'.cs_n = line.cs_n /\ line'.mosi = line.mosi /\ line' \in Wires
  BY <1>1 DEF LinkTypeOK, Wires, Bit
<1>7. LinkTypeOK'
  BY <1>1, <1>2, <1>3, <1>5, <1>6, BitsPerFrame DEF LinkTypeOK
<1>8. LineOK'
  BY <1>1, <1>5, <1>6 DEF LineOK
<1>9. line.sclk = 0 /\ s0.sclk = 0 /\ s1.sclk = 0 /\ (half >= 3 => q.sclk = 0)
  BY <1>1, <1>3 DEF SyncOK, LineOK
<1>10. SyncOK'
  <2>1. Before' = 0
    BY <1>1 DEF Before
  <2> QED BY <1>1, <1>2, <1>9, <2>1 DEF SyncOK
<1>11. Seen = Len(inp) /\ Seen' = Len(inp)
  <2>1. ~Pending
    BY <1>1, <1>3 DEF Pending
  <2>2. Pending'
    BY <1>1 DEF Pending
  <2> QED BY <1>3, <1>5, <2>1, <2>2 DEF Seen
<1>12. ReceiveOK'
  BY <1>1, <1>2, <1>3, <1>11 DEF ReceiveOK
<1>13. AnswerOK'
  <2> SUFFICES ASSUME ~dirty, half >= 3 PROVE AnswerOK'
    BY <1>1 DEF AnswerOK
  <2>1. half >= ENOUGH /\ line.cs_n = 0 /\ held >= 3
    BY <1>1, <1>3 DEF AnswerOK
  <2>2. Loaded /\ AfterLoad /\ Shifts = Len(inp)
    BY <1>1, <2>1 DEF AnswerOK, Loaded, Shifts
  <2>3. Loaded' /\ Shifts' = Len(inp)
    BY <1>1, <1>3, <1>5 DEF Loaded, Shifts
  <2>4. AfterLoad'
    BY <1>1, <1>2, <1>11, <2>2, <2>3 DEF AfterLoad
  <2>5. wiring' = "echo" => \A j \in 1 .. Len(inp') : inp'[j] = was'[j]
    <3> SUFFICES ASSUME wiring = "echo", NEW j \in 1 .. Len(inp) + 1
                 PROVE  inp'[j] = was[j]
      BY <1>1, <1>5
    <3>1. CASE j = Len(inp) + 1
      <4>1. b = was[Len(inp) + 1]
        BY <1>1, <2>2 DEF b, AfterLoad
      <4> QED BY <1>5, <3>1, <4>1
    <3>2. CASE j # Len(inp) + 1
      <4>1. j \in 1 .. Len(inp)
        BY <1>3, <3>2
      <4>2. inp[j] = was[j]
        BY <1>1, <4>1 DEF AnswerOK
      <4> QED BY <1>5, <4>1, <4>2
    <3> QED BY <3>1, <3>2
  <2> QED BY <1>1, <1>6, <2>1, <2>3, <2>4, <2>5 DEF AnswerOK
<1> QED BY <1>7, <1>8, <1>10, <1>12, <1>13, <1>11

\* The master lowers SCLK: the rise before it is seen, or is on its way still.
LEMMA FallStep == ASSUME LinkInv, Fall PROVE LinkInv' /\ Seen' = Seen
<1> USE DEF LinkInv
<1> DEFINE last == Len(inp) = FRAME_BITS
<1>1. /\ phase = "high" /\ held >= half
      /\ line' = [line EXCEPT !.sclk = 0, !.mosi = IF last THEN 0 ELSE out[Len(inp) + 1]]
      /\ phase' = (IF last THEN "tail" ELSE "low") /\ held' = 0
      /\ UNCHANGED <<half, rst, noise, wiring, reply, out, inp, dirty, was>>
  BY DEF Fall, Drives
<1>2. UNCHANGED <<s0, s1, q, cnt, rx_sr, rx_frame, rx_frame_valid, tx_sr, miso, echo_reg>>
  BY DEF Fall, Drives, slaveVars
<1>3. /\ held \in Nat /\ held >= 2 /\ half \in Nat /\ Len(inp) \in Nat
      /\ Len(inp) <= FRAME_BITS /\ Len(inp) > 0 /\ out \in Frame
  BY <1>1 DEF LinkTypeOK
<1>4. ~last => Len(inp) < FRAME_BITS /\ out[Len(inp) + 1] \in Bit
  BY <1>3, BitsPerFrame DEF Frame, Bit
<1> HIDE DEF last
<1>5. /\ line'.sclk = 0 /\ line'.cs_n = line.cs_n /\ line' \in Wires
      /\ line'.mosi = IF last THEN 0 ELSE out[Len(inp) + 1]
  BY <1>1, <1>4 DEF LinkTypeOK, Wires, Bit
<1>6. LinkTypeOK'
  BY <1>1, <1>2, <1>4, <1>5 DEF LinkTypeOK, last
<1>7. LineOK'
  BY <1>1, <1>5 DEF LineOK
<1>8. /\ line.sclk = 1 /\ s0.sclk = 1 /\ s1.sclk = 1
      /\ held >= 3 => q.sclk = 1
      /\ held < 3 => q.sclk = 0
  <2>1. Before = 0 /\ line.sclk = 1
    BY <1>1 DEF Before, LineOK
  <2> QED BY <1>1, <1>3, <2>1 DEF SyncOK
<1>9. SyncOK'
  <2>1. Before' = 1
    BY <1>1, <1>3 DEF Before
  <2> QED BY <1>1, <1>2, <1>3, <1>8, <2>1 DEF SyncOK
<1>10. Seen' = Seen /\ (held >= 3 => Seen = Len(inp))
  <2>1. Pending <=> held < 3
    BY <1>1, <1>3 DEF Pending
  <2>2. Pending' <=> held < 3
    BY <1>1, <1>2, <1>3, <1>8 DEF Pending
  <2> QED BY <1>1, <1>3, <2>1, <2>2 DEF Seen
<1>11. ReceiveOK'
  BY <1>1, <1>2, <1>10 DEF ReceiveOK
<1>12. AnswerOK'
  <2> SUFFICES ASSUME ~dirty, half >= 3 PROVE AnswerOK'
    BY <1>1 DEF AnswerOK
  <2>1. half >= ENOUGH /\ line.cs_n = 0 /\ held >= 3
    BY <1>1, <1>3 DEF AnswerOK
  <2>2. Loaded /\ AfterLoad /\ Shifts = Len(inp) - 1
    BY <1>1 DEF AnswerOK, Loaded, Shifts
  <2>3. Loaded' /\ Shifts' = Len(inp) - 1
    BY <1>1, <1>3 DEF Loaded, Shifts
  <2>4. AfterLoad'
    BY <1>1, <1>2, <1>10, <2>2, <2>3 DEF AfterLoad
  <2> QED BY <1>1, <1>5, <2>1, <2>3, <2>4 DEF AnswerOK
<1> QED BY <1>6, <1>7, <1>9, <1>11, <1>12, <1>10

\* The master raises CS after the last bit.
LEMMA EndStep == ASSUME LinkInv, End PROVE LinkInv'
<1> USE DEF LinkInv
<1>1. /\ phase = "tail" /\ held >= half
      /\ line' = [line EXCEPT !.cs_n = 1] /\ phase' = "idle" /\ held' = 0
      /\ UNCHANGED <<half, rst, noise, wiring, out, inp, dirty, was>>
      /\ reply' = inp
  BY DEF End, Drives
<1>2. UNCHANGED <<s0, s1, q, cnt, rx_sr, rx_frame, rx_frame_valid, tx_sr, miso, echo_reg>>
  BY DEF End, Drives, slaveVars
<1>3. held \in Nat /\ held >= 2 /\ half \in Nat /\ inp \in Seq(Bit) /\ Len(inp) = FRAME_BITS
  BY <1>1 DEF LinkTypeOK
<1>4. line'.sclk = line.sclk /\ line'.cs_n = 1 /\ line' \in Wires
  BY <1>1 DEF LinkTypeOK, Wires, Bit
<1>5. LinkTypeOK'
  BY <1>1, <1>2, <1>3, <1>4, WholeFrame DEF LinkTypeOK
<1>6. LineOK'
  BY <1>1, <1>4 DEF LineOK
<1>7. s0.sclk = 0 /\ s1.sclk = 0
  BY <1>1, <1>3 DEF SyncOK, LineOK
<1>8. SyncOK'
  BY <1>1, <1>2, <1>7 DEF SyncOK
<1>9. Seen' = Seen
  BY <1>1, <1>3 DEF Seen, Pending
<1>10. ReceiveOK'
  BY <1>1, <1>2, <1>3, <1>9 DEF ReceiveOK
<1>11. AnswerOK'
  BY <1>1 DEF AnswerOK
<1> QED BY <1>5, <1>6, <1>8, <1>10, <1>11

\* A glitch touches CS, never SCLK and MOSI.
LEMMA GlitchStep == ASSUME LinkInv, Glitch PROVE LinkInv' /\ Seen' = Seen
<1> USE DEF LinkInv
<1>1. /\ phase # "idle" /\ line' = [line EXCEPT !.cs_n = 1 - @] /\ dirty' = TRUE
      /\ noise' = IF line.cs_n = 0 THEN noise + 1 ELSE noise
      /\ UNCHANGED <<phase, half, held, out, inp, reply, rst, was, wiring>>
  BY DEF Glitch
<1>2. UNCHANGED <<s0, s1, q, cnt, rx_sr, rx_frame, rx_frame_valid, tx_sr, miso, echo_reg>>
  BY DEF Glitch, slaveVars
<1>3. line'.sclk = line.sclk /\ line'.mosi = line.mosi /\ line' \in Wires /\ noise' \in Nat
  BY <1>1 DEF LinkTypeOK, Wires, Bit
<1>4. Seen' = Seen /\ Before' = Before
  BY <1>1, <1>2 DEF Seen, Pending, Before
<1>5. LinkTypeOK'
  BY <1>1, <1>2, <1>3 DEF LinkTypeOK
<1>6. LineOK' /\ SyncOK'
  BY <1>1, <1>2, <1>3, <1>4 DEF LineOK, SyncOK
<1>7. ReceiveOK' /\ AnswerOK'
  BY <1>1, <1>2, <1>4 DEF ReceiveOK, AnswerOK
<1> QED BY <1>5, <1>6, <1>7, <1>4

\* btnC: the frame under way is dirty until its end.
LEMMA PressStep == ASSUME LinkInv, Press PROVE LinkInv' /\ Seen' = Seen
<1> USE DEF LinkInv
<1>1. /\ rst' = ~rst /\ dirty' = TRUE /\ noise' = IF rst THEN noise ELSE noise + 1
      /\ UNCHANGED <<line, phase, half, held, out, inp, reply, was, wiring>>
  BY DEF Press, masterVars
<1>2. UNCHANGED <<s0, s1, q, cnt, rx_sr, rx_frame, rx_frame_valid, tx_sr, miso, echo_reg>>
  BY DEF Press, slaveVars
<1>3. Seen' = Seen /\ Before' = Before
  BY <1>1, <1>2 DEF Seen, Pending, Before
<1>4. LinkTypeOK'
  <2>1. rst' \in BOOLEAN /\ dirty' \in BOOLEAN /\ noise' \in Nat
    BY <1>1 DEF LinkTypeOK
  <2> QED BY <1>1, <1>2, <2>1 DEF LinkTypeOK
<1>5. LineOK' /\ SyncOK'
  BY <1>1, <1>2, <1>3 DEF LineOK, SyncOK
<1>6. ReceiveOK' /\ AnswerOK'
  BY <1>1, <1>2, <1>3 DEF ReceiveOK, AnswerOK
<1> QED BY <1>4, <1>5, <1>6, <1>3

\* Between two transfers the master may take another clock.
LEMMA ClockStep ==
    ASSUME LinkInv, phase = "idle", half' \in Nat \ {0, 1}, UNCHANGED slaveVars,
           UNCHANGED <<line, phase, held, out, inp, reply, noiseVars, was, wiring>>
    PROVE  LinkInv'
<1> USE DEF LinkInv, slaveVars, noiseVars
<1>1. Seen' = Seen
  BY DEF Seen, Pending
<1> QED BY <1>1 DEF LinkTypeOK, LineOK, SyncOK, ReceiveOK, AnswerOK

\* What is not of the link leaves its invariant alone.
LEMMA StillStep == ASSUME LinkInv, UNCHANGED echoVars PROVE LinkInv'
<1>1. UNCHANGED slaveVars /\ UNCHANGED masterVars /\ UNCHANGED noiseVars
      /\ UNCHANGED <<was, wiring>>
  BY DEF echoVars
<1> USE <1>1 DEF LinkInv, slaveVars, masterVars, noiseVars
<1>2. Seen' = Seen
  BY DEF Seen, Pending
<1>3. LinkTypeOK'
  BY DEF LinkTypeOK
<1>4. LineOK' /\ SyncOK'
  BY DEF LineOK, SyncOK, Before
<1>5. ReceiveOK'
  BY <1>2 DEF ReceiveOK
<1>6. Loaded' = Loaded /\ Shifts' = Shifts /\ BeforeLoad' = BeforeLoad
  BY DEF Loaded, Shifts, BeforeLoad
<1>7. AfterLoad' = AfterLoad
  BY <1>2, <1>6 DEF AfterLoad
<1>8. AnswerOK'
  BY <1>6, <1>7 DEF AnswerOK
<1> QED BY <1>3, <1>4, <1>5, <1>8

\* The invariant holds before the first transfer.
LEMMA LinkInit == ASSUME EchoInit, half \in Nat \ {0, 1} PROVE LinkInv
<1>1. FRAME_BITS - 1 \in Nat /\ GAP \in Nat /\ GAP >= 2 /\ ZeroFrame \in Frame
  BY BitsPerFrame, ZeroTyped
<1>2. /\ line = [sclk |-> 0, cs_n |-> 1, mosi |-> 0] /\ s0 = line /\ s1 = line
      /\ q = [sclk |-> 0, cs_n |-> 1]
      /\ cnt = 0 /\ rx_sr = ZeroFrame /\ rx_frame = ZeroFrame /\ rx_frame_valid = FALSE
      /\ tx_sr = ZeroFrame /\ miso = 0 /\ echo_reg = ZeroFrame
      /\ rst = FALSE /\ wiring \in {"echo", "jumper"}
      /\ phase = "idle" /\ held = GAP
      /\ out = ZeroFrame /\ inp = <<>> /\ reply = ZeroFrame
      /\ noise = 0 /\ dirty = FALSE /\ was = ZeroFrame
  BY DEF EchoInit
<1>3. Len(inp) = 0 /\ inp \in Seq(Bit)
  BY <1>2
<1>4. line \in Wires /\ q \in [sclk : Bit, cs_n : Bit]
  BY <1>2 DEF Wires, Bit
<1>5. LinkTypeOK
  <2>1. cnt \in 0 .. FRAME_BITS - 1
    BY <1>1, <1>2
  <2>2. half \in Nat \ {0, 1} /\ held \in Nat /\ noise \in Nat /\ Len(inp) <= FRAME_BITS
        /\ miso \in Bit
    BY <1>1, <1>2, <1>3, BitsPerFrame DEF Bit
  <2> QED BY <1>1, <1>2, <1>3, <1>4, <2>1, <2>2 DEF LinkTypeOK
<1>6. LineOK /\ SyncOK
  BY <1>1, <1>2 DEF LineOK, SyncOK
<1>7. Seen = 0
  BY <1>2, <1>3 DEF Seen, Pending
<1> QED BY <1>2, <1>5, <1>6, <1>7 DEF LinkInv, ReceiveOK, AnswerOK

(***************************************************************************)
(* The bus of frames                                                        *)
(***************************************************************************)
Promised == IF wiring = "jumper" THEN ZeroFrame
            ELSE IF phase = "idle" THEN echo_reg ELSE was
Returned == IF wiring = "jumper" THEN ZeroFrame ELSE reply

\* The steps of EchoBus by what they change.
LEMMA BusSteps ==
    ASSUME \/ \E f \in Frame : /\ out' = f /\ dirty' \in BOOLEAN
                               /\ Promised' = Promised /\ Returned' = Returned
           \/ /\ dirty' = TRUE
              /\ out' = out /\ Promised' = Promised /\ Returned' = Returned
           \/ /\ ~dirty /\ Returned' = Promised /\ Promised' = out
              /\ out' = out /\ dirty' = dirty
           \/ /\ dirty /\ Returned' \in Frame /\ Promised' \in {Promised, out}
              /\ out' = out /\ dirty' = dirty
           \/ /\ dirty /\ Promised' = ZeroFrame
              /\ out' = out /\ Returned' = Returned /\ dirty' = dirty
           \/ /\ out' = out /\ Promised' = Promised /\ Returned' = Returned
              /\ dirty' = dirty
    PROVE  [Bus!Next]_(Bus!busVars)
  BY DEF Bus!Next, Bus!busVars, Bus!Begin, Bus!Disturb, Bus!Transfer, Bus!Disturbed,
         Bus!Reset, Promised, Returned

\* The initial states map to those of EchoBus.
LEMMA BusInit == ASSUME EchoInit PROVE Bus!Init
  BY DEF EchoInit, Bus!Init

\* An edge of clk is a stutter, or the board drops what it owed to btnC.
LEMMA ClkOnBus == ASSUME LinkInv, Clk PROVE [Bus!Next]_(Bus!busVars)
<1>1. UNCHANGED <<phase, out, reply, dirty, rst, wiring>> /\ Returned' = Returned
  BY ClkFrames DEF Returned
<1>2. /\ Echo /\ was' = IF rst THEN ZeroFrame ELSE was
  BY DEF Clk
<1>3. CASE rst
  <2>1. dirty /\ (Promised' = ZeroFrame)
    BY <1>1, <1>2, <1>3 DEF LinkInv, ReceiveOK, Echo, Promised
  <2> QED BY <1>1, <2>1, BusSteps
<1>4. CASE ~rst
  <2>1. Promised' = Promised
    BY <1>1, <1>2, <1>4 DEF LinkInv, ReceiveOK, Echo, Promised
  <2> QED BY <1>1, <2>1, BusSteps
<1> QED BY <1>3, <1>4

\* The fall of CS is the request of EchoBus.
LEMMA BeginOnBus ==
    ASSUME LinkInv, NEW f \in Frame, Begin(f)
    PROVE  [Bus!Next]_(Bus!busVars)
<1>1. /\ phase = "idle" /\ phase' = "low" /\ wiring' = wiring /\ reply' = reply
      /\ out' = f /\ was' = echo_reg /\ dirty' = (rst \/ half < ENOUGH)
  BY DEF Begin, Drives
<1>2. dirty' \in BOOLEAN
  BY <1>1
<1>3. Promised' = Promised /\ Returned' = Returned
  BY <1>1 DEF Promised, Returned
<1> QED BY <1>1, <1>2, <1>3, BusSteps

\* The rise of CS is the answer: a transfer nothing got into returns the frame
\* before it and leaves its own to be returned; any other returns anything.
LEMMA EndOnBus == ASSUME LinkInv, ENOUGH >= 3, End PROVE [Bus!Next]_(Bus!busVars)
<1>1. /\ phase = "tail" /\ held >= half /\ phase' = "idle"
      /\ UNCHANGED <<wiring, out, dirty, was, echo_reg>> /\ reply' = inp
  BY DEF End, Drives, slaveVars
<1>2. /\ inp \in Seq(Bit) /\ Len(inp) = FRAME_BITS /\ held >= 1 /\ was \in Frame
      /\ dirty \in BOOLEAN
  BY <1>1 DEF LinkInv, LinkTypeOK
<1>3. inp \in Frame
  BY <1>2, WholeFrame
<1>4. CASE wiring = "jumper"
  <2>1. Promised' = Promised /\ Returned' = Returned
    BY <1>1, <1>4 DEF Promised, Returned
  <2> QED BY <1>1, <2>1, BusSteps
<1>5. CASE wiring # "jumper"
  <2>1. Promised = was /\ Promised' = echo_reg /\ Returned' = inp
    BY <1>1, <1>5 DEF Promised, Returned
  <2>2. CASE dirty
    <3>1. echo_reg \in {was, out}
      BY <1>1 DEF LinkInv, ReceiveOK
    <3> QED BY <1>1, <1>3, <2>1, <2>2, <3>1, BusSteps
  <2>3. CASE ~dirty
    <3>1. wiring = "echo"
      BY <1>5 DEF LinkInv, LinkTypeOK
    <3>2. echo_reg = out /\ \A j \in 1 .. Len(inp) : inp[j] = was[j]
      <4>1. half \in Nat /\ half >= ENOUGH /\ ENOUGH \in Nat
        BY <1>1, <2>3, EchoAssumption DEF LinkInv, LinkTypeOK, AnswerOK
      <4>2. half >= 3
        BY <4>1
      <4> QED BY <1>1, <1>2, <2>3, <3>1, <4>2 DEF LinkInv, AnswerOK, AfterLoad, Loaded
    <3>3. inp = was
      BY <1>2, <1>3, <3>2, SameBits
    <3> QED BY <1>1, <2>1, <2>3, <3>2, <3>3, BusSteps
  <2> QED BY <2>2, <2>3
<1> QED BY <1>4, <1>5

\* A glitch or a press spoils the transfer under way; the edges of SCLK are
\* stutters.
LEMMA RestOnBus ==
    ASSUME LinkInv, Rise \/ Fall \/ Glitch \/ Press
    PROVE  [Bus!Next]_(Bus!busVars)
<1>1. UNCHANGED <<out, reply, wiring, was, echo_reg>> /\ (phase' = "idle" <=> phase = "idle")
  BY DEF Rise, Fall, Glitch, Press, Drives, slaveVars, masterVars
<1>2. dirty' = dirty \/ dirty' = TRUE
  BY DEF Rise, Fall, Glitch, Press, Drives
<1>3. Promised' = Promised /\ Returned' = Returned
  BY <1>1 DEF Promised, Returned
<1> QED BY <1>1, <1>2, <1>3, BusSteps

(***************************************************************************)
(* The scripts                                                              *)
(***************************************************************************)
\* The list a script sends is one of frames.
LEMMA PlanTyped ==
    ASSUME delay \in {0, 1}
    PROVE  /\ Sent \in Seq(Frame) /\ Len(Sent) \in Nat
           /\ \A k \in 1 .. Len(Sent) : Sent[k] \in Frame
<1>1. RANDOM \in Seq(Frame) /\ FRAMES \in Seq(Frame)
  BY ToolAssumption
<1>2. Append(RANDOM, ZeroFrame) \in Seq(Frame)
  BY <1>1, ZeroTyped
<1>3. Repeat(ZeroFrame, delay) \in Seq(Frame)
  BY ZeroTyped DEF Repeat
<1>4. FRAMES \o Repeat(ZeroFrame, delay) \in Seq(Frame)
  BY <1>1, <1>3
<1>5. Sent \in Seq(Frame)
  BY <1>2, <1>4 DEF Sent
<1> QED BY <1>5

\* Half a period of a clock under test is at least two edges of clk.
LEMMA ClocksTyped ==
    /\ Len(CLOCKS) \in Nat /\ Len(CLOCKS) > 0
    /\ \A i \in 1 .. Len(CLOCKS) : CLOCKS[i] \in Nat \ {0, 1}
  BY ToolAssumption, EmptySeq

\* The invariant holds before a script begins.
LEMMA ToolsInitOK == ASSUME ToolsInit PROVE ToolInv
<1>0. 1 \in 1 .. Len(CLOCKS)
  BY ClocksTyped
<1>1. half \in Nat \ {0, 1}
  BY <1>0, ClocksTyped DEF ToolsInit
<1>2. LinkInv
  BY <1>1, LinkInit DEF ToolsInit
<1>3. phase = "idle"
  BY DEF ToolsInit, EchoInit
<1>4. delay \in {0, 1} /\ step = 1 /\ received = <<>>
  BY DEF ToolsInit
<1>5. received \in Seq(Frame)
  BY <1>4
<1> QED BY <1>0, <1>2, <1>3, <1>4, <1>5 DEF ToolInv, ScriptOK

\* What a script sends is a frame of its list.
LEMMA SendsFrame == ASSUME ScriptOK, Send PROVE Sent[Len(received) + 1] \in Frame
<1>1. delay \in {0, 1} /\ received \in Seq(Frame)
  BY DEF ScriptOK
<1>2. Len(received) \in Nat
  BY <1>1
<1>3. Len(received) < Len(Sent)
  BY DEF Send
<1>4. Len(received) + 1 \in 1 .. Len(Sent)
  BY <1>1, <1>2, <1>3, PlanTyped
<1> QED BY <1>1, <1>4, PlanTyped

\* Between two clocks the line is idle.
LEMMA JudgeTyped ==
    ASSUME LinkInv, ScriptOK, JudgeClock
    PROVE  phase = "idle" /\ half' \in Nat \ {0, 1} /\ step' \in 1 .. Len(CLOCKS)
<1>1. Len(received) = Len(Sent) /\ Len(Sent) \in Nat
  BY PlanTyped DEF JudgeClock, ScriptOK
<1>2. phase = "idle"
  BY <1>1 DEF ScriptOK
<1>3. IF step = Len(CLOCKS) THEN step' = step /\ half' = half
      ELSE step' = step + 1 /\ half' = CLOCKS[step + 1]
  BY DEF JudgeClock
<1>4. step \in 1 .. Len(CLOCKS) /\ half \in Nat \ {0, 1}
  BY DEF ScriptOK, LinkInv, LinkTypeOK
<1>5. step # Len(CLOCKS) => step + 1 \in 1 .. Len(CLOCKS)
  BY <1>4, ClocksTyped
<1> QED BY <1>2, <1>3, <1>4, <1>5, ClocksTyped

\* What ScriptOK speaks of.
LEMMA SameScript ==
    ASSUME ScriptOK, UNCHANGED <<script, delay, step, received>>, phase # "idle" \/ phase' = "idle"
    PROVE  ScriptOK'
  BY DEF ScriptOK, Sent

\* Every step of the scripts and the link keeps the invariant.
LEMMA ToolsStep == ASSUME ToolInv, [ToolsNext]_toolsVars PROVE ToolInv'
<1> USE DEF ToolInv
<1>1. CASE Send
  <2>1. PICK f \in Frame : Begin(f)
    BY <1>1, SendsFrame DEF Send
  <2>2. LinkInv'
    BY <2>1, BeginStep
  <2>3. ScriptOK'
    BY <1>1 DEF Send, toolVars, ScriptOK, Sent
  <2> QED BY <2>2, <2>3
<1>2. CASE Receives
  <2>1. LinkInv'
    BY <1>2, EndStep DEF Receives
  <2>2. phase' = "idle" /\ inp \in Frame
    BY <1>2, WholeFrame DEF Receives, End, Drives, LinkInv, LinkTypeOK
  <2>3. ScriptOK'
    BY <1>2, <2>2 DEF Receives, ScriptOK
  <2> QED BY <2>1, <2>3
<1>3. CASE JudgeClock
  <2>1. /\ phase = "idle" /\ half' \in Nat \ {0, 1} /\ step' \in 1 .. Len(CLOCKS)
    BY <1>3, JudgeTyped
  <2>2. /\ UNCHANGED slaveVars
        /\ UNCHANGED <<line, phase, held, out, inp, reply, noiseVars, was, wiring>>
        /\ received' = <<>> /\ delay' = delay
    BY <1>3 DEF JudgeClock
  <2>3. LinkInv'
    BY <2>1, <2>2, ClockStep
  <2>4. ScriptOK'
    BY <2>1, <2>2 DEF ScriptOK
  <2> QED BY <2>3, <2>4
<1>4. CASE JudgeLists \/ UNCHANGED toolsVars
  <2>1. UNCHANGED echoVars /\ UNCHANGED <<script, delay, step, received>>
    BY <1>4 DEF JudgeLists, toolsVars, toolVars
  <2>2. UNCHANGED phase
    BY <2>1 DEF echoVars, masterVars
  <2>3. LinkInv'
    BY <2>1, StillStep
  <2>4. ScriptOK'
    BY <2>1, <2>2, SameScript
  <2> QED BY <2>3, <2>4
<1>5. CASE Edge
  <2>1. LinkInv'
    BY <1>5, ClkStep DEF Edge
  <2>2. phase' = phase
    BY <1>5, ClkFrames DEF Edge
  <2>3. ScriptOK'
    BY <1>5, <2>2, SameScript DEF Edge
  <2> QED BY <2>1, <2>3
<1>6. CASE Rest
  <2>1. LinkInv'
    BY <1>6, RiseStep, FallStep, GlitchStep, PressStep DEF Rest
  <2>2. UNCHANGED toolVars /\ (phase # "idle" \/ phase' = "idle")
    BY <1>6 DEF Rest, Rise, Fall, Glitch, Press, masterVars
  <2>3. ScriptOK'
    BY <2>2, SameScript DEF toolVars
  <2> QED BY <2>1, <2>3
<1> QED BY <1>1, <1>2, <1>3, <1>4, <1>5, <1>6 DEF ToolsNext

\* Every step of the scripts and the link is a step of EchoBus or a stutter.
LEMMA ToolsOnBus ==
    ASSUME ToolInv, ENOUGH >= 3, [ToolsNext]_toolsVars
    PROVE  [Bus!Next]_(Bus!busVars)
<1> USE DEF ToolInv
<1>1. CASE Send
  <2>1. PICK f \in Frame : Begin(f)
    BY <1>1, SendsFrame DEF Send
  <2> QED BY <2>1, BeginOnBus
<1>2. CASE Receives
  BY <1>2, EndOnBus DEF Receives
<1>3. CASE JudgeClock \/ JudgeLists \/ UNCHANGED toolsVars
  <2>1. UNCHANGED <<slaveVars, out, reply, noiseVars, was, wiring, phase>>
    BY <1>3 DEF JudgeClock, JudgeLists, toolsVars, echoVars, masterVars
  <2> QED BY <2>1, BusSteps DEF Promised, Returned, slaveVars, noiseVars
<1>4. CASE Edge
  BY <1>4, ClkOnBus DEF Edge
<1>5. CASE Rest
  BY <1>5, RestOnBus DEF Rest
<1> QED BY <1>1, <1>2, <1>3, <1>4, <1>5 DEF ToolsNext

\* The invariant holds throughout.
LEMMA ToolsInvariant == ToolsSpec => []ToolInv
<1>1. ToolsInit => ToolInv
  BY ToolsInitOK
<1>2. ToolInv /\ [ToolsNext]_toolsVars => ToolInv'
  BY ToolsStep
<1> QED BY <1>1, <1>2, PTL DEF ToolsSpec

\* SpiEcho under the scripts implements EchoBus (ImplementsBus): at clocks whose
\* half period is ENOUGH edges of clk, a transfer without glitch or press
\* returns the frame before it, wherever the edges of the two clocks fall.  Two
\* synchroniser flops and the edge detector take three edges, so ENOUGH >= 3.
THEOREM BusImplemented == ASSUME ENOUGH >= 3 PROVE ToolsSpec => ImplementsBus
<1>1. ToolsInit => Bus!Init
  BY BusInit DEF ToolsInit
<1>2. ToolInv /\ [ToolsNext]_toolsVars => [Bus!Next]_(Bus!busVars)
  BY ToolsOnBus
<1> QED BY <1>1, <1>2, ToolsInvariant, PTL DEF ToolsSpec, ImplementsBus, Bus!Spec

(***************************************************************************)
(* What the scripts conclude                                                *)
(***************************************************************************)
\* Steps that are neither the scripts' own nor a transfer's first or last.
LEMMA Between ==
    ASSUME ToolInv, Edge \/ Rest \/ UNCHANGED toolsVars
    PROVE  /\ UNCHANGED <<script, delay, step, received, status, result, half, out, wiring>>
           /\ phase' = "idle" <=> phase = "idle"
<1>1. CASE Edge
  BY <1>1, ClkFrames DEF Edge
<1>2. CASE Rest
  BY <1>2 DEF Rest, Rise, Fall, Glitch, Press, Drives, toolVars, masterVars
<1>3. CASE UNCHANGED toolsVars
  BY <1>3 DEF toolsVars, toolVars, echoVars, masterVars
<1> QED BY <1>1, <1>2, <1>3

\* What a transfer adds to the list of answers.
LEMMA Received ==
    ASSUME ToolInv, Receives
    PROVE  /\ received' = Append(received, inp) /\ received' \in Seq(Frame)
           /\ Len(received) \in Nat /\ Len(received') = Len(received) + 1
           /\ \A k \in 1 .. Len(received) : received'[k] = received[k]
           /\ received'[Len(received) + 1] = inp
           /\ inp \in Frame /\ Len(inp) = FRAME_BITS /\ phase = "tail" /\ phase' = "idle"
           /\ Len(received) # Len(Sent)
           /\ UNCHANGED <<script, delay, step, status, result, half, out, wiring, inp, was>>
           /\ Sent' = Sent
<1>1. phase = "tail" /\ phase' = "idle" /\ received' = Append(received, inp)
      /\ UNCHANGED <<script, delay, step, status, result, half, out, wiring, inp, was>>
  BY DEF Receives, End, Drives
<1>2. inp \in Frame /\ Len(inp) = FRAME_BITS
  BY <1>1, WholeFrame DEF ToolInv, LinkInv, LinkTypeOK
<1>3. received \in Seq(Frame) /\ Len(received) < Len(Sent)
  BY <1>1 DEF ToolInv, ScriptOK
<1>4. Len(received) # Len(Sent)
  BY <1>3, PlanTyped DEF ToolInv, ScriptOK
<1>5. Sent' = Sent
  BY <1>1 DEF Sent
<1>6. /\ received' \in Seq(Frame) /\ Len(received) \in Nat
      /\ Len(received') = Len(received) + 1
      /\ \A k \in 1 .. Len(received) : received'[k] = received[k]
      /\ received'[Len(received) + 1] = inp
  BY <1>1, <1>2, <1>3, AppendProperties
<1> QED BY <1>1, <1>2, <1>4, <1>5, <1>6

\* There are three verdicts, and PASS is that every frame matched.
LEMMA VerdictIs ==
    \A r : /\ Verdict(r) \in {"PASS", "all zero", "FAIL"}
           /\ Verdict(r) = "PASS" <=> Matched(r) = DOMAIN FRAMES
  BY DEF Verdict

\* The transfers follow the list of the script.
LEMMA SendingStep ==
    ASSUME ToolInv, SendingOK, [ToolsNext]_toolsVars
    PROVE  SendingOK'
<1>1. CASE Edge \/ Rest \/ UNCHANGED toolsVars
  <2>1. /\ UNCHANGED <<script, delay, step, received, status, result, half, out>>
        /\ phase' = "idle" <=> phase = "idle"
    BY <1>1, Between
  <2> QED BY <2>1 DEF SendingOK, Sent, Matched
<1>2. CASE Send
  <2>1. /\ UNCHANGED <<script, delay, step, received, status, result, half>>
        /\ out' = Sent[Len(received) + 1]
    BY <1>2 DEF Send, Begin, Drives, toolVars
  <2> QED BY <2>1 DEF SendingOK, Sent, Matched
<1>3. CASE Receives
  <2>1. /\ Len(received) # Len(Sent) /\ phase' = "idle"
        /\ UNCHANGED <<script, delay, step, status, result, half>>
    BY <1>3, Received
  <2>2. script # "ramp" => result = ""
    BY <2>1 DEF SendingOK
  <2> QED BY <2>1, <2>2 DEF SendingOK
<1>4. CASE JudgeClock
  <2>1. /\ script = "ramp" /\ result = "" /\ script' = script /\ phase' = phase
        /\ IF step = Len(CLOCKS)
           THEN result' = "ramped" /\ step' = step /\ half' = half
           ELSE result' = result /\ step' = step + 1 /\ half' = CLOCKS[step + 1]
    BY <1>4 DEF JudgeClock
  <2>2. phase = "idle"
    BY <1>4, JudgeTyped DEF ToolInv
  <2> QED BY <2>1, <2>2 DEF SendingOK
<1>5. CASE JudgeLists
  <2>1. /\ script # "ramp" /\ Len(received) = Len(Sent) /\ result' = Verdict(received)
        /\ UNCHANGED <<script, delay, step, received, status, half, out, phase>>
    BY <1>5 DEF JudgeLists, echoVars, masterVars
  <2>2. Matched(received)' = Matched(received) /\ Sent' = Sent
    BY <2>1 DEF Matched, Sent
  <2> QED BY <2>1, <2>2, VerdictIs DEF SendingOK
<1> QED BY <1>1, <1>2, <1>3, <1>4, <1>5 DEF ToolsNext

\* The jumper goes on returning what is sent.
LEMMA JumperStep ==
    ASSUME ToolInv, SendingOK, JumperOK, [ToolsNext]_toolsVars
    PROVE  JumperOK'
<1> SUFFICES ASSUME wiring' = "jumper" PROVE JumperOK'
  BY DEF JumperOK
<1>0. wiring = "jumper"
  BY DEF ToolsNext, Send, Receives, JudgeClock, JudgeLists, Edge, Rest, Clk, Begin, End,
         Rise, Fall, Glitch, Press, Drives, toolsVars, echoVars
<1>1. /\ \A k \in 1 .. Len(received) : received[k] = Sent[k]
      /\ phase # "idle" => \A j \in 1 .. Len(inp) : inp[j] = out[j]
  BY <1>0 DEF JumperOK
<1>2. CASE Rest /\ Rise
  <2>1. /\ phase = "low" /\ inp' = Append(inp, line.mosi)
    BY <1>0, <1>2 DEF Rise
  <2>2. inp \in Seq(Bit) /\ line.mosi \in Bit /\ line.mosi = out[Len(inp) + 1]
    BY <2>1 DEF ToolInv, LinkInv, LinkTypeOK, Wires, LineOK
  <2>3. \A j \in 1 .. Len(inp') : inp'[j] = out[j]
    <3>1. /\ Len(inp') = Len(inp) + 1 /\ \A j \in 1 .. Len(inp) : inp'[j] = inp[j]
          /\ inp'[Len(inp) + 1] = line.mosi /\ Len(inp) \in Nat
      BY <2>1, <2>2, BitAdded
    <3>2. \A j \in 1 .. Len(inp) + 1 : j = Len(inp) + 1 \/ j \in 1 .. Len(inp)
      BY <3>1
    <3> QED BY <1>1, <2>1, <2>2, <3>1, <3>2
  <2>4. UNCHANGED <<script, delay, received, out>>
    BY <1>2, Between
  <2> QED BY <1>1, <2>3, <2>4 DEF JumperOK, Sent
<1>3. CASE Edge \/ (Rest /\ ~Rise) \/ UNCHANGED toolsVars
  <2>1. UNCHANGED <<script, delay, received, out>> /\ (phase' = "idle" <=> phase = "idle")
    BY <1>3, Between
  <2>2. inp' = inp
    BY <1>3, ClkFrames DEF Edge, Rest, Fall, Glitch, Press, masterVars, toolsVars, echoVars
  <2> QED BY <1>1, <2>1, <2>2 DEF JumperOK, Sent
<1>4. CASE Send
  <2>1. UNCHANGED <<script, delay, received>> /\ Len(inp') = 0
    BY <1>4 DEF Send, Begin, toolVars
  <2>2. \A j \in 1 .. Len(inp') : inp'[j] = out'[j]
    BY <2>1
  <2> QED BY <1>1, <2>1, <2>2 DEF JumperOK, Sent
<1>5. CASE Receives
  <2>1. inp = out
    <3>1. inp \in Frame /\ Len(inp) = FRAME_BITS /\ phase # "idle"
      BY <1>5, Received
    <3>2. out \in Frame
      BY DEF ToolInv, LinkInv, LinkTypeOK
    <3> QED BY <1>1, <3>1, <3>2, SameBits
  <2>2. inp = Sent[Len(received) + 1]
    BY <1>5, <2>1, Received DEF SendingOK
  <2>3. \A k \in 1 .. Len(received) + 1 : k \in 1 .. Len(received) \/ k = Len(received) + 1
    BY <1>5, Received
  <2> QED BY <1>1, <1>5, <2>2, <2>3, Received DEF JumperOK
<1>6. CASE JudgeClock
  <2>1. received' = <<>> /\ phase' = phase
    BY <1>6 DEF JudgeClock
  <2>2. phase = "idle"
    BY <1>6, JudgeTyped DEF ToolInv
  <2> QED BY <2>1, <2>2 DEF JumperOK
<1>7. CASE JudgeLists
  <2>1. UNCHANGED <<script, delay, received, out, inp, phase>>
    BY <1>7 DEF JudgeLists, echoVars, masterVars
  <2> QED BY <1>1, <2>1 DEF JumperOK, Sent
<1> QED BY <1>2, <1>3, <1>4, <1>5, <1>6, <1>7 DEF ToolsNext

\* Wiring and script do not change.
LEMMA Steady ==
    ASSUME [ToolsNext]_toolsVars
    PROVE  wiring' = wiring /\ script' = script /\ delay' = delay /\ Sent' = Sent
<1>1. wiring' = wiring
  BY DEF ToolsNext, Send, Receives, JudgeClock, JudgeLists, Edge, Rest, Clk, Begin, End,
         Rise, Fall, Glitch, Press, Drives, toolsVars, echoVars
<1>2. script' = script /\ delay' = delay
  BY DEF ToolsNext, Send, Receives, JudgeClock, JudgeLists, Edge, Rest, toolsVars, toolVars
<1> QED BY <1>1, <1>2 DEF Sent

\* An edge of clk while the board has nothing to echo.
LEMMA NothingYet ==
    ASSUME ToolInv, Clk, Seen' < FRAME_BITS,
           Seen < FRAME_BITS => /\ ~rx_frame_valid /\ echo_reg = ZeroFrame
                                /\ tx_sr = ZeroFrame /\ miso = 0
    PROVE  /\ ~rx_frame_valid' /\ echo_reg' = ZeroFrame
           /\ tx_sr' = ZeroFrame /\ miso' = 0
<1> USE DEF ToolInv
<1>1. /\ sclk_rise => Seen' = Seen + 1 /\ Seen' = Len(inp)
      /\ ~sclk_rise => Seen' = Seen
      /\ Seen \in Int
  BY SeenStep DEF LinkInv
<1>2. Seen < FRAME_BITS
  BY <1>1, BitsPerFrame
<1>3. ~rx_frame_valid /\ echo_reg = ZeroFrame /\ tx_sr = ZeroFrame /\ miso = 0
  BY <1>2
<1>4. echo_reg' = ZeroFrame
  BY <1>3 DEF Clk, Echo
<1>5. Shifted(ZeroFrame, 0) = ZeroFrame /\ ZeroFrame[1] = 0 /\ ZeroFrame[2] = 0
  <2>1. \A i \in 1 .. FRAME_BITS : i # FRAME_BITS => i + 1 \in 1 .. FRAME_BITS
    BY BitsPerFrame
  <2>2. \A i \in 1 .. FRAME_BITS : Shifted(ZeroFrame, 0)[i] = 0
    BY <2>1 DEF Shifted, ZeroFrame
  <2>3. Shifted(ZeroFrame, 0) \in Frame
    BY ZeroTyped, ShiftTyped DEF Bit
  <2>4. Shifted(ZeroFrame, 0) = ZeroFrame
    BY <2>2, <2>3, ZeroTyped, SameBits DEF ZeroFrame
  <2> QED BY <2>4, BitsPerFrame DEF ZeroFrame
<1>6. tx_sr' = ZeroFrame /\ miso' = 0
  BY <1>3, <1>5 DEF Clk, Transmit
<1>7. ~rx_frame_valid'
  <2> SUFFICES ASSUME rx_frame_valid' PROVE FALSE
    OBVIOUS
  <2>1. sclk_rise
    BY DEF Clk, Receive
  <2>2. Len(inp)' = FRAME_BITS /\ inp' = inp
    BY ClkReceive, ClkFrames DEF LinkInv, ReceiveOK
  <2> QED BY <1>1, <2>1, <2>2, BitsPerFrame
<1> QED BY <1>4, <1>6, <1>7

\* The answer of the first transfer is zero, whatever gets into it.
LEMMA FirstStep ==
    ASSUME ToolInv, SendingOK, FirstOK, [ToolsNext]_toolsVars
    PROVE  FirstOK'
<1> SUFFICES ASSUME wiring = "echo", script # "ramp" PROVE FirstOK'
  BY Steady DEF FirstOK
<1> DEFINE Nothing == /\ ~rx_frame_valid /\ echo_reg = ZeroFrame
                      /\ tx_sr = ZeroFrame /\ miso = 0
<1>1. /\ received = <<>> => /\ Seen < FRAME_BITS => Nothing
                            /\ \A j \in 1 .. Len(inp) : inp[j] = 0
                            /\ phase = "idle" => inp = <<>>
      /\ received # <<>> => received[1] = ZeroFrame
  BY DEF FirstOK
<1>2. SUFFICES /\ received' = <<>> => /\ Seen' < FRAME_BITS => Nothing'
                                      /\ \A j \in 1 .. Len(inp') : inp'[j] = 0
                                      /\ phase' = "idle" => inp' = <<>>
               /\ received' # <<>> => received'[1] = ZeroFrame
  BY DEF FirstOK
<1>3. CASE Edge
  <2>1. received' = received /\ inp' = inp /\ phase' = phase
    BY <1>3, ClkFrames DEF Edge
  <2>2. (Seen < FRAME_BITS => Nothing) /\ Seen' < FRAME_BITS => Nothing'
    BY <1>3, NothingYet DEF Edge
  <2> QED BY <1>1, <2>1, <2>2
<1>4. CASE Rest /\ Rise
  <2>1. UNCHANGED <<received, rx_frame_valid, echo_reg, tx_sr, miso>> /\ phase = "low"
        /\ phase' = "high" /\ inp' = Append(inp, miso) /\ Seen' = Seen
    BY <1>4, RiseStep DEF Rest, Rise, Drives, slaveVars, toolVars, ToolInv
  <2>2. inp \in Seq(Bit) /\ miso \in Bit /\ Len(inp) \in Nat /\ Len(inp) < FRAME_BITS
    BY <2>1 DEF ToolInv, LinkInv, LinkTypeOK
  <2>3. Seen < FRAME_BITS
    BY <2>2, BitsPerFrame DEF Seen
  <2>4. received = <<>> => \A j \in 1 .. Len(inp') : inp'[j] = 0
    <3>1. /\ Len(inp') = Len(inp) + 1 /\ \A j \in 1 .. Len(inp) : inp'[j] = inp[j]
          /\ inp'[Len(inp) + 1] = miso
      BY <2>1, <2>2, BitAdded
    <3>2. \A j \in 1 .. Len(inp) + 1 : j = Len(inp) + 1 \/ j \in 1 .. Len(inp)
      BY <2>2
    <3> QED BY <1>1, <2>3, <3>1, <3>2
  <2> QED BY <1>1, <2>1, <2>4
<1>5. CASE Rest /\ ~Rise
  <2>1. UNCHANGED <<received, rx_frame_valid, echo_reg, tx_sr, miso, inp>>
    BY <1>5 DEF Rest, Fall, Glitch, Press, Drives, slaveVars, masterVars, toolVars
  <2>2. Seen' = Seen /\ (phase' = "idle" <=> phase = "idle")
    BY <1>5, FallStep, GlitchStep, PressStep, Between DEF Rest, ToolInv
  <2> QED BY <1>1, <2>1, <2>2
<1>6. CASE Send
  <2>1. UNCHANGED <<received, rx_frame_valid, echo_reg, tx_sr, miso>> /\ phase = "idle"
        /\ phase' = "low" /\ inp' = <<>>
    BY <1>6 DEF Send, Begin, Drives, slaveVars, toolVars
  <2>2. inp = <<>> => Seen < FRAME_BITS
    BY <2>1, BitsPerFrame DEF Seen, Pending
  <2>3. \A j \in 1 .. Len(inp') : inp'[j] = 0
    BY <2>1
  <2> QED BY <1>1, <2>1, <2>2, <2>3
<1>7. CASE Receives
  <2>1. received' # <<>>
    BY <1>7, Received, EmptySeq
  <2>2. CASE received = <<>>
    <3>1. inp = ZeroFrame
      BY <1>1, <1>7, <2>2, Received, ZeroTyped, SameBits DEF ZeroFrame
    <3> QED BY <1>7, <2>1, <2>2, <3>1, Received
  <2>3. CASE received # <<>>
    <3>1. 1 \in 1 .. Len(received)
      BY <2>3, EmptySeq DEF ToolInv, ScriptOK
    <3> QED BY <1>1, <1>7, <2>1, <2>3, <3>1, Received
  <2> QED BY <2>2, <2>3
<1>8. CASE JudgeClock
  BY <1>8 DEF JudgeClock
<1>9. CASE JudgeLists \/ UNCHANGED toolsVars
  <2>1. UNCHANGED <<received, rx_frame_valid, echo_reg, tx_sr, miso, inp, phase, s1, q, held>>
    BY <1>9 DEF JudgeLists, toolsVars, toolVars, echoVars, slaveVars, masterVars
  <2>2. Seen' = Seen
    BY <2>1 DEF Seen, Pending
  <2> QED BY <1>1, <2>1, <2>2
<1> QED BY <1>3, <1>4, <1>5, <1>6, <1>7, <1>8, <1>9 DEF ToolsNext

\* The list of the bring-up and of the loopback test.
LEMMA ListSent ==
    ASSUME ScriptOK, script # "ramp"
    PROVE  /\ Len(FRAMES) \in Nat \ {0} /\ DOMAIN FRAMES = 1 .. Len(FRAMES)
           /\ Len(Sent) = Len(FRAMES) + delay /\ delay \in {0, 1}
           /\ \A i \in DOMAIN FRAMES : Sent[i] = FRAMES[i]
           /\ delay = 1 => Sent[Len(FRAMES) + 1] = ZeroFrame
<1>1. FRAMES \in Seq(Frame) /\ FRAMES # <<>> /\ delay \in {0, 1}
  BY ToolAssumption DEF ScriptOK
<1>2. Len(FRAMES) \in Nat \ {0} /\ DOMAIN FRAMES = 1 .. Len(FRAMES)
  BY <1>1, EmptySeq
<1>3. PICK z : z = Repeat(ZeroFrame, delay)
  OBVIOUS
<1>4. z \in Seq(Frame) /\ Len(z) = delay /\ (delay = 1 => z[1] = ZeroFrame)
  BY <1>1, <1>3, ZeroTyped DEF Repeat
<1>5. Sent = FRAMES \o z
  BY <1>3 DEF Sent
<1>6. /\ Len(Sent) = Len(FRAMES) + Len(z)
      /\ \A i \in 1 .. Len(FRAMES) : Sent[i] = FRAMES[i]
      /\ \A i \in 1 .. Len(z) : Sent[Len(FRAMES) + i] = z[i]
  BY <1>1, <1>4, <1>5, ConcatProperties
<1> QED BY <1>1, <1>2, <1>4, <1>6

\* What the scripts conclude by holds before they begin.
LEMMA PassInit == ASSUME ToolsInit PROVE PassInv
<1>1. ToolInv
  BY ToolsInitOK
<1>2. /\ phase = "idle" /\ inp = <<>> /\ received = <<>> /\ status = <<>> /\ result = ""
      /\ half = CLOCKS[1] /\ step = 1 /\ script \in {"ramp", "bringup", "loopback"}
      /\ ~rx_frame_valid /\ echo_reg = ZeroFrame /\ tx_sr = ZeroFrame /\ miso = 0
  BY DEF ToolsInit, EchoInit
<1>3. SendingOK
  BY <1>2 DEF SendingOK
<1>4. JumperOK
  <2>0. Len(received) = 0
    BY <1>2
  <2>1. \A k \in 1 .. Len(received) : FALSE
    BY <2>0
  <2> QED BY <1>2, <2>1 DEF JumperOK
<1>5. \A j \in 1 .. Len(inp) : inp[j] = 0
  <2>0. Len(inp) = 0
    BY <1>2
  <2>1. \A j \in 1 .. Len(inp) : FALSE
    BY <2>0
  <2> QED BY <2>1
<1> QED BY <1>1, <1>2, <1>3, <1>4, <1>5 DEF PassInv, FirstOK

\* And throughout.
LEMMA PassInvariant == ToolsSpec => []PassInv
<1>1. ToolsInit => PassInv
  BY PassInit
<1>2. PassInv /\ [ToolsNext]_toolsVars => PassInv'
  BY ToolsStep, SendingStep, JumperStep, FirstStep DEF PassInv
<1> QED BY <1>1, <1>2, PTL DEF ToolsSpec

\* A PASS takes a first frame that is no zero, so an echo is one behind; and
\* two neighbours that differ, so a jumper is not.
LEMMA PassMeans == ASSUME PassInv PROVE PassNamesTheWiring
<1> SUFFICES ASSUME result = "PASS" PROVE wiring = IF delay = 1 THEN "echo" ELSE "jumper"
  BY DEF PassNamesTheWiring
<1>1. /\ script # "ramp" /\ Len(received) = Len(Sent) /\ Matched(received) = DOMAIN FRAMES
      /\ wiring \in {"echo", "jumper"} /\ ScriptOK
  BY DEF PassInv, SendingOK, ToolInv, LinkInv, LinkTypeOK
<1>2. /\ Len(FRAMES) \in Nat \ {0} /\ DOMAIN FRAMES = 1 .. Len(FRAMES)
      /\ Len(Sent) = Len(FRAMES) + delay /\ delay \in {0, 1}
      /\ \A i \in DOMAIN FRAMES : Sent[i] = FRAMES[i]
      /\ delay = 1 => Sent[Len(FRAMES) + 1] = ZeroFrame
  BY <1>1, ListSent
<1>3. \A i \in DOMAIN FRAMES : received[i + delay] = FRAMES[i]
  BY <1>1 DEF Matched
<1>4. CASE delay = 1 /\ wiring = "jumper"
  <2>1. Len(FRAMES) + 1 \in 1 .. Len(received) /\ Len(FRAMES) \in DOMAIN FRAMES
    BY <1>1, <1>2, <1>4
  <2>2. received[Len(FRAMES) + 1] = ZeroFrame
    BY <1>2, <1>4, <2>1 DEF PassInv, JumperOK
  <2>3. FRAMES[Len(FRAMES)] = ZeroFrame
    BY <1>3, <1>4, <2>1, <2>2
  <2> QED BY <2>3, ToolAssumption
<1>5. CASE delay = 0 /\ wiring = "echo"
  <2>1. 1 \in DOMAIN FRAMES /\ 1 + delay = 1 /\ Len(received) > 0
    BY <1>1, <1>2, <1>5
  <2>2. received[1] = FRAMES[1] /\ received # <<>>
    BY <1>3, <2>1
  <2>3. received[1] = ZeroFrame
    BY <1>1, <1>5, <2>2 DEF PassInv, FirstOK
  <2> QED BY <2>2, <2>3, ToolAssumption
<1> QED BY <1>1, <1>2, <1>4, <1>5

\* PASS of spi_fpga_bringup.py and spi_loopback_test.py names the wiring, at any
\* clock, with any amount of noise on CS and whenever btnC is pressed
\* (PassNamesTheWiring).
THEOREM PassNames == ToolsSpec => []PassNamesTheWiring
  BY PassInvariant, PassMeans, PTL

\* What appending a judgement leaves alone.
LEMMA JudgementAdded ==
    ASSUME NEW T, NEW s \in Seq(T), NEW b \in T
    PROVE  /\ Append(s, b) \in Seq(T) /\ Len(Append(s, b)) = Len(s) + 1
           /\ Len(s) \in Nat
           /\ \A j \in 1 .. Len(s) : Append(s, b)[j] = s[j]
           /\ Append(s, b)[Len(s) + 1] = b
<1>1. Len(s) \in Nat
  BY LenProperties, Zenon
<1> QED BY <1>1, AppendProperties

\* A clock whose every answer is the frame before is CLEAN.
LEMMA CleanInOrder ==
    ASSUME ToolInv, script = "ramp", Len(received) = Len(Sent),
           \A k \in 2 .. Len(received) : received[k] = Sent[k - 1]
    PROVE  Clean(received)
<1> DEFINE n == Len(Sent) - 1
           a == SubSeq(Sent, 1, n)
           r == SubSeq(received, 1, n)
<1>1. Sent \in Seq(Frame) /\ Len(Sent) \in Nat /\ received \in Seq(Frame)
  BY PlanTyped DEF ToolInv, ScriptOK
<1>2. Len(Sent) > 0
  <2>1. RANDOM \in Seq(Frame)
    BY ToolAssumption
  <2>2. Len(Append(RANDOM, ZeroFrame)) = Len(RANDOM) + 1 /\ Len(RANDOM) \in Nat
    BY <2>1, ZeroTyped, AppendProperties
  <2> QED BY <2>2 DEF Sent
<1>3. n \in Nat /\ n <= Len(Sent) /\ n <= Len(received)
  BY <1>1, <1>2
<1>4. /\ Len(a) = n /\ \A k \in 1 .. n : a[k] = Sent[k]
      /\ Len(r) = n /\ \A k \in 1 .. n : r[k] = received[k]
  BY <1>1, <1>3
<1>5. \A k \in 1 + 1 .. Len(a) : r[k] = a[k - 1]
  <2> SUFFICES ASSUME NEW k \in 1 + 1 .. Len(a) PROVE r[k] = a[k - 1]
    OBVIOUS
  <2>1. k \in 1 .. n /\ k - 1 \in 1 .. n /\ k \in 2 .. Len(received)
    BY <1>3, <1>4
  <2> QED BY <1>4, <2>1
<1> HIDE DEF a, r
<1>6. WrongAt(a, r, 1) = {}
  BY <1>5 DEF WrongAt
<1> QED BY <1>6 DEF Clean, a, r

\* On a quiet line every transfer at a safe clock returns the frame before.
LEMMA QuietStep ==
    ASSUME PassInv, QuietOK, ENOUGH >= 3, [ToolsNext]_toolsVars
    PROVE  QuietOK'
<1> USE DEF PassInv, ToolInv
<1>0. noise \in Nat /\ noise' \in Nat /\ half \in Nat /\ ENOUGH \in Nat
  BY ToolsStep, EchoAssumption DEF LinkInv, LinkTypeOK
<1>1. Sent' = Sent /\ wiring' = wiring
  BY Steady
<1>2. CASE Edge
  <2>1. UNCHANGED <<phase, half, rst, noise, dirty, received>> /\ Echo
        /\ was' = IF rst THEN ZeroFrame ELSE was
    BY <1>2, ClkFrames DEF Edge, Clk
  <2>2. phase = "idle" => ~rx_frame_valid
    BY DEF LinkInv, ReceiveOK
  <2> QED BY <1>1, <2>1, <2>2 DEF QuietOK, Echo
<1>3. CASE Rest /\ (Rise \/ Fall)
  <2>1. UNCHANGED <<half, rst, noise, dirty, received, was, echo_reg>>
        /\ phase # "idle" /\ phase' # "idle"
    BY <1>3 DEF Rest, Rise, Fall, Drives, slaveVars, toolVars
  <2> QED BY <1>1, <2>1 DEF QuietOK
<1>4. CASE Rest /\ Glitch
  <2>1. UNCHANGED <<half, rst, received, was, echo_reg, phase>> /\ phase # "idle"
        /\ noise' = IF line.cs_n = 0 THEN noise + 1 ELSE noise
    BY <1>4 DEF Rest, Glitch, slaveVars, toolVars
  <2> SUFFICES ASSUME noise' = 0 PROVE QuietOK'
    BY DEF QuietOK
  <2>2. noise = 0 /\ line.cs_n # 0
    BY <1>0, <2>1
  <2>3. ~(half >= ENOUGH)
    BY <1>0, <2>1, <2>2 DEF QuietOK, LinkInv, AnswerOK
  <2> QED BY <1>1, <2>1, <2>2, <2>3 DEF QuietOK
<1>5. CASE Rest /\ Press
  <2>1. noise' = IF rst THEN noise ELSE noise + 1
    BY <1>5 DEF Press
  <2>2. noise' # 0
    BY <1>0, <2>1 DEF QuietOK
  <2> QED BY <2>2 DEF QuietOK
<1>6. CASE Send
  <2>1. UNCHANGED <<half, rst, noise, received>> /\ phase = "idle" /\ phase' = "low"
        /\ was' = echo_reg /\ dirty' = (rst \/ half < ENOUGH)
    BY <1>6 DEF Send, Begin, Drives, toolVars
  <2>2. ~rst /\ half >= ENOUGH => ~dirty'
    <3>1. half >= ENOUGH => ~(half < ENOUGH)
      BY <1>0
    <3>2. dirty' = (rst \/ half < ENOUGH)
      BY <2>1
    <3> QED BY <3>1, <3>2, Zenon
  <2> QED BY <1>1, <2>1, <2>2 DEF QuietOK
<1>7. CASE Receives
  <2>1. UNCHANGED <<half, rst, noise, echo_reg>>
    BY <1>7 DEF Receives, End, Drives, slaveVars
  <2> SUFFICES ASSUME noise = 0, wiring = "echo", half >= ENOUGH
               PROVE  /\ \A k \in 2 .. Len(received') : received'[k] = Sent[k - 1]
                      /\ Len(received') > 0 => echo_reg = Sent[Len(received')]
    BY <1>1, <1>7, <2>1, Received DEF QuietOK
  <2>2. /\ phase = "tail" /\ phase # "idle" /\ phase # "low" /\ ~dirty /\ held >= 1 /\ half >= 3
    BY <1>0, <1>7, Received DEF QuietOK, Receives, End, LinkInv, LinkTypeOK
  <2>3. echo_reg = out /\ \A j \in 1 .. Len(inp) : inp[j] = was[j]
    BY <2>2 DEF LinkInv, AnswerOK, AfterLoad, Loaded
  <2>4. inp = was
    BY <1>7, <2>3, Received, SameBits DEF LinkInv, LinkTypeOK
  <2>5. echo_reg = Sent[Len(received) + 1]
    BY <2>2, <2>3 DEF SendingOK
  <2>6. ASSUME NEW k \in 2 .. Len(received) + 1
        PROVE  received'[k] = Sent[k - 1]
    <3>1. CASE k = Len(received) + 1
      <4>1. Len(received) > 0 /\ k - 1 = Len(received)
        BY <1>7, <3>1, Received
      <4>2. was = Sent[Len(received)]
        BY <2>2, <4>1 DEF QuietOK
      <4> QED BY <1>7, <2>4, <3>1, <4>1, <4>2, Received
    <3>2. CASE k # Len(received) + 1
      <4>1. k \in 2 .. Len(received) /\ k \in 1 .. Len(received)
        BY <1>7, <3>2, Received
      <4> QED BY <1>7, <4>1, Received DEF QuietOK
    <3> QED BY <3>1, <3>2
  <2> QED BY <1>7, <2>5, <2>6, Received
<1>8. CASE JudgeClock
  <2>1. received' = <<>> /\ UNCHANGED <<noise, rst, phase>>
    BY <1>8 DEF JudgeClock, noiseVars
  <2>2. phase = "idle" /\ Len(received') = 0
    BY <1>8, <2>1, JudgeTyped
  <2>3. \A k \in 2 .. Len(received') : FALSE
    BY <2>2
  <2> QED BY <2>1, <2>2, <2>3 DEF QuietOK
<1>9. CASE JudgeLists \/ UNCHANGED toolsVars
  <2>1. UNCHANGED <<half, rst, noise, dirty, received, was, echo_reg, phase>>
    BY <1>9 DEF JudgeLists, toolsVars, toolVars, echoVars, slaveVars, masterVars, noiseVars
  <2> QED BY <1>1, <2>1 DEF QuietOK
<1> QED BY <1>2, <1>3, <1>4, <1>5, <1>6, <1>7, <1>8, <1>9 DEF ToolsNext, Rest

\* So every judgement of a safe clock is CLEAN.
LEMMA StatusStep ==
    ASSUME PassInv, QuietOK, StatusOK, [ToolsNext]_toolsVars
    PROVE  StatusOK'
<1> USE DEF PassInv, ToolInv
<1>0. noise \in Nat /\ noise' \in Nat
  BY ToolsStep DEF LinkInv, LinkTypeOK
<1>1. wiring' = wiring /\ script' = script
  BY Steady
<1>2. noise' = 0 => noise = 0
  <2>1. noise' = noise \/ noise' = noise + 1
    BY DEF ToolsNext, Send, Receives, JudgeClock, JudgeLists, Edge, Rest, Clk, Begin, End,
           Rise, Fall, Glitch, Press, Drives, toolsVars, echoVars, noiseVars
  <2> QED BY <1>0, <2>1
<1>3. CASE ~JudgeClock
  <2>1. status' = status /\ step' = step /\ (result' = result \/ script # "ramp")
    BY <1>3 DEF ToolsNext, Send, Receives, JudgeLists, Edge, Rest, toolsVars, toolVars
  <2> QED BY <1>1, <1>2, <2>1 DEF StatusOK
<1>4. CASE JudgeClock
  <2>1. /\ script = "ramp" /\ result = "" /\ Len(received) = Len(Sent)
        /\ status' = Append(status, Clean(received))
        /\ IF step = Len(CLOCKS) THEN result' = "ramped" ELSE step' = step + 1
    BY <1>4 DEF JudgeClock
  <2>2. /\ status \in Seq(BOOLEAN) /\ Clean(received) \in BOOLEAN /\ step \in Nat
        /\ Len(status) = step - 1
    <3>1. status \in Seq(BOOLEAN) /\ Len(status) = step - 1
      BY <2>1 DEF StatusOK
    <3>2. Clean(received) \in BOOLEAN
      BY DEF Clean
    <3>3. step \in Nat
      BY ClocksTyped DEF ScriptOK
    <3> QED BY <3>1, <3>2, <3>3
  <2>3. /\ status' \in Seq(BOOLEAN) /\ Len(status') = Len(status) + 1 /\ Len(status) \in Nat
        /\ \A i \in 1 .. Len(status) : status'[i] = status[i]
        /\ status'[Len(status) + 1] = Clean(received)
    <3>0. PICK T : T = BOOLEAN
      OBVIOUS
    <3>1. PICK c \in T : c = Clean(received)
      BY <2>2, <3>0, Zenon
    <3>2. status' = Append(status, c)
      BY <2>1, <3>1, Zenon
    <3>3. status \in Seq(T)
      BY <2>2, <3>0, Zenon
    <3>4. /\ Append(status, c) \in Seq(T)
          /\ Len(Append(status, c)) = Len(status) + 1 /\ Len(status) \in Nat
          /\ \A j \in 1 .. Len(status) : Append(status, c)[j] = status[j]
          /\ Append(status, c)[Len(status) + 1] = c
      BY <3>1, <3>3, JudgementAdded
    <3> QED BY <3>0, <3>1, <3>2, <3>4, Zenon
  <2>4. ASSUME noise' = 0, wiring = "echo", NEW i \in 1 .. Len(status'), CLOCKS[i] >= ENOUGH
        PROVE  status'[i]
    <3>1. CASE i = Len(status) + 1
      <4>0. i = step /\ half = CLOCKS[step]
        <5>1. half = CLOCKS[step]
          BY DEF SendingOK
        <5>2. i = step
          BY <2>2, <2>3, <3>1
        <5> QED BY <5>1, <5>2
      <4>1. half >= ENOUGH
        BY <2>4, <4>0
      <4>2. \A k \in 2 .. Len(received) : received[k] = Sent[k - 1]
        BY <1>2, <2>4, <4>1 DEF QuietOK
      <4> QED BY <2>1, <2>3, <3>1, <4>2, CleanInOrder
    <3>2. CASE i # Len(status) + 1
      <4>1. i \in 1 .. Len(status)
        BY <2>3, <3>2
      <4> QED BY <1>2, <2>3, <2>4, <4>1 DEF StatusOK
    <3> QED BY <3>1, <3>2
  <2>5. script' = "ramp" /\ result' = "" => Len(status') = step' - 1
    <3>1. CASE step = Len(CLOCKS)
      <4>1. result' = "ramped"
        BY <2>1, <3>1
      <4>2. result' # ""
        BY <4>1
      <4> QED BY <4>2
    <3>2. CASE step # Len(CLOCKS)
      <4>1. step' = step + 1
        BY <2>1, <3>2
      <4>2. Len(status') = Len(status) + 1 /\ Len(status) = step - 1 /\ step \in Nat
        BY <2>2, <2>3, Zenon
      <4>3. Len(status') = step' - 1
        BY <4>1, <4>2
      <4> QED BY <4>3, Zenon
    <3> QED BY <3>1, <3>2
  <2> QED BY <1>1, <2>3, <2>4, <2>5 DEF StatusOK
<1> QED BY <1>3, <1>4

\* Both hold throughout.
LEMMA QuietInvariant == ASSUME ENOUGH >= 3 PROVE ToolsSpec => []QuietInv
<1>1. ToolsInit => QuietInv
  <2> SUFFICES ASSUME ToolsInit PROVE QuietInv
    OBVIOUS
  <2>1. /\ ~rst /\ phase = "idle" /\ received = <<>> /\ Len(received) = 0
        /\ status = <<>> /\ Len(status) = 0 /\ step = 1
    BY DEF ToolsInit, EchoInit
  <2>2. QuietOK
    BY <2>1 DEF QuietOK
  <2>3. StatusOK
    BY <2>1 DEF StatusOK
  <2> QED BY <2>2, <2>3, PassInit DEF QuietInv
<1>2. QuietInv /\ [ToolsNext]_toolsVars => QuietInv'
  BY ToolsStep, SendingStep, JumperStep, FirstStep, QuietStep, StatusStep DEF QuietInv, PassInv
<1> QED BY <1>1, <1>2, PTL DEF ToolsSpec

\* With the answers in order each check passes on its wiring.
LEMMA QuietMeans == ASSUME QuietInv PROVE QuietLinkPasses
<1> USE DEF QuietInv, PassInv
<1> SUFFICES ASSUME noise = 0
             PROVE  /\ wiring = "echo" =>
                          \A i \in DOMAIN status : CLOCKS[i] >= ENOUGH => status[i]
                    /\ /\ result \in {"FAIL", "all zero"}
                       /\ CLOCKS[1] >= ENOUGH
                       => wiring # IF delay = 1 THEN "echo" ELSE "jumper"
  BY DEF QuietLinkPasses
<1>1. wiring = "echo" => \A i \in DOMAIN status : CLOCKS[i] >= ENOUGH => status[i]
  <2>1. status \in Seq(BOOLEAN)
    BY DEF StatusOK
  <2>2. DOMAIN status = 1 .. Len(status)
    BY <2>1
  <2> QED BY <2>2 DEF StatusOK
<1>2. ASSUME result \in {"FAIL", "all zero"}, CLOCKS[1] >= ENOUGH,
             wiring = IF delay = 1 THEN "echo" ELSE "jumper"
      PROVE  FALSE
  <2>1. /\ script # "ramp" /\ Len(received) = Len(Sent) /\ half = CLOCKS[1]
        /\ Matched(received) # DOMAIN FRAMES /\ ScriptOK
    BY <1>2 DEF SendingOK, ToolInv
  <2>2. /\ Len(FRAMES) \in Nat \ {0} /\ DOMAIN FRAMES = 1 .. Len(FRAMES)
        /\ Len(Sent) = Len(FRAMES) + delay /\ delay \in {0, 1}
        /\ \A i \in DOMAIN FRAMES : Sent[i] = FRAMES[i]
    BY <2>1, ListSent
  <2>3. ASSUME NEW i \in DOMAIN FRAMES PROVE received[i + delay] = FRAMES[i]
    <3>1. CASE delay = 1
      <4>1. i + 1 \in 2 .. Len(received) /\ (i + 1) - 1 = i
        BY <2>1, <2>2, <3>1
      <4>2. received[i + 1] = Sent[i]
        BY <1>2, <2>1, <3>1, <4>1 DEF QuietOK
      <4> QED BY <2>2, <3>1, <4>2
    <3>2. CASE delay = 0
      <4>1. i \in 1 .. Len(received) /\ i + delay = i
        BY <2>1, <2>2, <3>2
      <4>0. ~(delay = 1)
        BY <3>2
      <4>2. wiring = "jumper"
        BY <1>2, <4>0, Zenon
      <4>3. received[i] = Sent[i]
        BY <4>1, <4>2 DEF JumperOK
      <4> QED BY <2>2, <4>1, <4>3
    <3> QED BY <2>2, <3>1, <3>2
  <2> QED BY <2>1, <2>3 DEF Matched
<1> QED BY <1>1, <1>2

\* On a line without noise no script turns down a sound link: every clock slow
\* enough is CLEAN, and the check for the wiring passes (QuietLinkPasses).
THEOREM QuietPasses == ASSUME ENOUGH >= 3 PROVE ToolsSpec => []QuietLinkPasses
  BY QuietInvariant, QuietMeans, PTL

=============================================================================
