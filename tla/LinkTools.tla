------------------------------ MODULE LinkTools ------------------------------
(***************************************************************************)
(* The scripts that check the link: spi_ber_ramp.py with ber.py,            *)
(* spi_fpga_bringup.py and spi_loopback_test.py.  Each sends a list of      *)
(* frames, keeps what comes back, and judges the two lists at the end.      *)
(***************************************************************************)
EXTENDS SpiEcho

CONSTANTS
    FRAMES,     \* of spi_fpga_bringup.py, PATTERNS of spi_loopback_test.py
    RANDOM,     \* the random frames of a seed: every clock gets the same
    CLOCKS      \* --clocks-mhz, each as edges of clk in half a period

ASSUME ToolAssumption ==
    /\ {FRAMES, RANDOM} \subseteq Seq(Frame) \ {<<>>}
    /\ CLOCKS \in Seq(Nat \ {0, 1}) \ {<<>>}
    /\ \A i \in 1 .. Len(FRAMES) - 1 : FRAMES[i] # FRAMES[i + 1]
    /\ FRAMES[Len(FRAMES)] # ZeroFrame /\ FRAMES[1] # ZeroFrame

VARIABLES
    script,     \* "ramp", "bringup" or "loopback"
    delay,      \* --delay
    step,       \* the clock under test
    received,   \* what came back of the frames so far
    status,     \* per clock judged: CLEAN or not
    ceiling,    \* the ramp's answer, 0 for None
    result,     \* the exit: "" for none yet
    taken       \* history: the frames the board took since the script began,
                \* at this clock

toolVars == <<script, delay, step, received, status, ceiling, result, taken>>
toolsVars == <<echoVars, toolVars>>

Repeat(f, k) == [i \in 1 .. k |-> f]

Sent == IF script = "ramp" THEN Append(RANDOM, ZeroFrame)
        ELSE FRAMES \o Repeat(ZeroFrame, delay)

(***************************************************************************)
(* The judgements                                                           *)
(***************************************************************************)
\* ramp_errors: the frame errors.  The bit errors in them are only printed.
WrongAt(sent, rcvd, lag) ==
    {k \in lag + 1 .. Len(sent) : rcvd[k] # sent[k - lag]}

\* Mutant of Clean: the first frame compared is the second with an echo.
CleanLate(rcvd) ==
    LET n == Len(Sent) - 1
    IN  WrongAt(SubSeq(Sent, 1, n), SubSeq(rcvd, 1, n), 1) \ {2} = {}

\* run_one: without the flush frame and what came back with it.
Clean(rcvd) ==
    LET n == Len(Sent) - 1
    IN  WrongAt(SubSeq(Sent, 1, n), SubSeq(rcvd, 1, n), 1) = {}

\* Mutant of Matched: the lag is not added.
MatchedUnlagged(rcvd) == {i \in DOMAIN FRAMES : rcvd[i] = FRAMES[i]}

\* The echoes of the bring-up; the patterns of the loopback test, whose lag
\* is 0.
Matched(rcvd) == {i \in DOMAIN FRAMES : rcvd[i + delay] = FRAMES[i]}

Verdict(rcvd) ==
    IF Matched(rcvd) = DOMAIN FRAMES THEN "PASS"
    ELSE IF \A k \in DOMAIN rcvd : rcvd[k] = ZeroFrame THEN "all zero"
    ELSE "FAIL"

(***************************************************************************)
(* Steps                                                                    *)
(***************************************************************************)
Send ==
    /\ result = "" /\ Len(received) < Len(Sent)
    /\ Begin(Sent[Len(received) + 1])
    /\ UNCHANGED toolVars

Receives ==
    /\ End
    /\ received' = Append(received, inp)
    /\ UNCHANGED <<script, delay, step, status, ceiling, result, taken>>

JudgeClock ==
    /\ script = "ramp" /\ result = "" /\ Len(received) = Len(Sent)
    /\ LET clean == Clean(received)
       IN  /\ status' = Append(status, clean)
           /\ ceiling' = IF clean THEN step ELSE ceiling
    /\ IF step = Len(CLOCKS)
       THEN result' = "ramped" /\ UNCHANGED <<step, half>>
       ELSE /\ step' = step + 1 /\ half' = CLOCKS[step + 1]
            /\ UNCHANGED result
    /\ received' = <<>> /\ taken' = <<>>
    /\ UNCHANGED <<slaveVars, line, phase, held, out, inp, reply, noiseVars,
                   was, wiring, script, delay>>

JudgeLists ==
    /\ script # "ramp" /\ result = "" /\ Len(received) = Len(Sent)
    /\ result' = Verdict(received)
    /\ UNCHANGED <<echoVars, script, delay, step, received, status, ceiling, taken>>

\* The board goes on while the script waits for nothing.
Edge ==
    /\ Clk
    /\ taken' = IF rx_frame_valid THEN Append(taken, rx_frame) ELSE taken
    /\ UNCHANGED <<script, delay, step, received, status, ceiling, result>>

Rest == (Rise \/ Fall \/ Glitch \/ Press) /\ UNCHANGED toolVars

ToolsInit ==
    /\ EchoInit
    /\ \/ script = "ramp" /\ delay = 1
       \/ script = "bringup" /\ delay \in {0, 1}
       \/ script = "loopback" /\ delay = 0
    /\ step = 1 /\ half = CLOCKS[1]
    /\ received = <<>> /\ status = <<>> /\ ceiling = 0 /\ result = ""
    /\ taken = <<>>

ToolsNext == Send \/ Receives \/ JudgeClock \/ JudgeLists \/ Edge \/ Rest

ToolsSpec == ToolsInit /\ [][ToolsNext]_toolsVars

(***************************************************************************)
(* Properties                                                               *)
(***************************************************************************)
\* spi_fpga_bringup.py and spi_loopback_test.py: PASS names the wiring.  A
\* board that echoes does not pass for the jumper, nor the jumper for a
\* board, with noise on the line or without.
PassNamesTheWiring ==
    result = "PASS" => wiring = IF delay = 1 THEN "echo" ELSE "jumper"

\* spi_ber_ramp.py: one disturbance does not hide another's loss.  A clock
\* slow enough is CLEAN only if the board took every random frame but the
\* last, whose echo is not compared, as it was sent and in order.  Three can
\* hide one: the first costs a frame its last bit, and the other two shift the
\* answer of the next transfer into the bits of the lost frame.
CleanMeansTaken ==
    [][JudgeClock /\ wiring = "echo" /\ half >= ENOUGH /\ Clean(received)
        => LET compared == Len(RANDOM) - 1
           IN  /\ Len(taken) >= compared
               /\ SubSeq(taken, 1, compared) = SubSeq(RANDOM, 1, compared)]_toolsVars

\* On a line without noise every clock slow enough is judged CLEAN, and each
\* check passes on the wiring it is for.
QuietLinkPasses ==
    noise = 0 =>
        /\ wiring = "echo" =>
            \A i \in DOMAIN status : CLOCKS[i] >= ENOUGH => status[i]
        /\ /\ result \in {"FAIL", "all zero"}
           /\ CLOCKS[1] >= ENOUGH
           => wiring # IF delay = 1 THEN "echo" ELSE "jumper"

=============================================================================
