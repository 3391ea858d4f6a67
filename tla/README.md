# A TLA+ model of the FPGA + Pi network intrusion detector

This directory holds a formal model of the program in this repository: an
intrusion detector in Verilog (`fpga/src`) on a Basys 3 board that classifies
packet headers, and the Python scripts on a Raspberry Pi that feed it over SPI
and read it out. TLC checks small instances of the model; TLAPS proves the
central facts for every value of the constants.

## The system

| Part | Source | State | Operations | Correct when |
|---|---|---|---|---|
| SPI slave | `spi_slave_rx.v` | synchronisers, bit and byte counters, shift registers | CS fall (latch the response), bit in, bit out, frame complete | one frame per 256 bits, the response constant during a transfer |
| Dispatch and response mux | `nids_top.v`, `header_parser.v`, `verdict_encoder.v` | `inflight_op`, `frame_count`, `frame_idx`, `seq_reg`, `ctrl_pipe1/2`, `tx_reg` | opcodes 0x00 to 0x03, 0x10 to 0x15 | the transfer of frame N returns the answer to frame N-1, with its `seq` |
| Bloom filter | `bloom_filter.v` | 4096 x 16 bit RAM, six-phase FSM | query, Pi write, Pi read | hit iff both bits of src or of dst are set |
| Flow table | `flow_table.v` | 4096 x 114 bit RAM, four-phase FSM | read, modify, write, compare | twin of `flow_table_model.py` |
| Rules and thresholds | `rule_store.v`, `rule_lookup.v`, `thresholds.v` | 512 rules, two-phase FSM, four registers | lookup, Pi write, Pi read | twins of `rule_lookup_model.py`, `rule_store_model.py`, `thresholds_model.py` |
| Combiner | `classifiers.v` | done flags, latched results | collect, combine | the three results it combines are those of one packet |
| Telemetry | `cms.v`, `hll.v`, `telemetry.v` | sketches with lazy 4-bit epochs, window timer, snapshot, top-1 | update, point query, window tick | twin of `telemetry_model.py` |
| CPU twins | `*_model.py`, `bloom.py`, `classifier.py`, `cms.py`, `hll.py` | the same state, a packet at a time | `update`, `write`, `read`, `window_tick` | they are the specification the RTL claims to equal |
| Closed loop, orchestrator | `closed_loop.py`, `demo/orchestrator.py` | seen set or pushed rules, rule epoch, recent verdicts | poll snapshot, push rule, send frame, record verdict | a heavy source is blocked, and stays blocked |
| Demo schedule | `run_demo.py`, `demo/scenarios.py` | the step, its generator, two clocks | `frames`, `active_name`, pacing in `run_loop` | it ends when it is over, no burst, the right label |
| Hot load | `hot_load_bloom.py` | none | write 4096 words, read back | no member of both sets is missed meanwhile, PASS misses none |
| Silicon checks | `silicon_*.py`, `spi_verdict_check.py`, `gen_*_golden.py`, `scenarios.py` | the answers so far | send a plan of frames, judge the answers | PASS means what it says; a sound board passes |
| Link tools | `spi_ber_ramp.py`, `ber.py`, `spi_fpga_bringup.py`, `spi_loopback_test.py`, `echo_top.v` | the frames sent and received | send, compare with a lag | the verdict on the link is right |
| Live view, reader | `viz.py`, `viz_core.py`, `packet_capture.py`, `read_telemetry.py` | counts | a transfer per packet or query | each answer is shown with the frame it answers |
| Dashboards, benchmark, sizing | rest | none the board depends on | | |

The parts interact in three ways. Within the board, modules hand each other
one-cycle valid pulses and read each other's registers; everything moves on the
same clock edge. The Pi calls `send_frame`, which is full duplex: 32 bytes go
out while the 32 bytes that `tx_reg` held when CS fell come back. And the
window timer and the reset button act at any cycle.

What is hard about it: three stages of different latency over one packet, block
RAMs with a cycle of latency and no write-through, a shared read port, a
response that lags by one frame, a reset that clears some registers and no
memory, and a timer that fires regardless of the frame in the pipeline; two
clocks on one wire, with frames torn by noise and answers cut by the reset;
scripts that judge a device by answers that come one transfer late, some of
which may be another script's.
`PROJECT.json` lists each such place under `hazards`.

## Modules

Names of definitions follow the Verilog where they can: `ft` is the set of
registers of `flow_table.v`, `rl` of `rule_lookup.v`, `bf` of `bloom_filter.v`,
`cl` of `classifiers.v`. One TLA+ step is one rising edge of `clk`; each
component has a `...Clock` operator that gives its registers after the edge
from all registers before it, with one disjunct per FSM phase, and a
`...Default` operator for what the always block does ahead of its case
statement (valid pulses back to 0, the synchronous RAM read). An assignment
that comes later in a Verilog block wins over an earlier one; the models keep
that order.

| Module | Models |
|---|---|
| `NidsTypes` | addresses, opcodes, packets and rules that all parts share |
| `BloomFilter` | `bloom_filter.v`; a RAM word is the set of its one bits |
| `FlowTable` | `flow_table.v`; a fingerprint register is a set of bits |
| `RuleLookup` | `rule_store.v`, `rule_lookup.v`, `thresholds.v` |
| `Classifiers` | `classifiers.v`, which contains the three above |
| `Telemetry` | `cms.v`, `hll.v`, `telemetry.v` |
| `NidsTop` | `nids_top.v` with `header_parser.v` and `verdict_encoder.v`, all of the above, the SPI edges the board can see, and btnC |
| `Board` | what PROTOCOL.md and the Python twins promise of the whole board: one step per transfer |
| `TelemetryTwin` | `telemetry_model.py` over `cms.py` and `hll.py`: one step per packet, query or tick; silent after a tick within an update (`lost`) until the next tick |
| `TelemetryStream` | `Telemetry` alone, fed as `nids_top` feeds it, with the timer free to meet a frame |
| `PiDevice` | the board as the Pi's scripts use it: a transfer at a time, with the rules and the window telemetry they decide by |
| `Orchestrator` | `demo/orchestrator.py`: one step per transfer and the code up to the next |
| `DemoClock` | `run_demo.py`, the schedule of `demo/scenarios.py` and the clock of `run_loop`: one step per look at the clock, time free to pass between any two |
| `ClosedLoop` | `closed_loop.py`: its steps on a bus that others may use |
| `PiBus` | that bus: `ClosedLoop` with one other script at a time (`packet_capture.py`, `silicon_telemetry_check.py`, `read_telemetry.py`), and `silicon_loop_demo.py`, the check or `viz.py` alone |
| `GoldenStream` | `scenarios.py`, `gen_verdict_golden.py`, and what `classifier.py` over `scan_rate.py` expects of the stream |
| `BoardTools` | `hot_load_bloom.py`, `silicon_runtime_check.py`, `silicon_flow_check.py`, `spi_verdict_check.py` with `silicon_check.py`: plans of transfers against `Board`, and judgements |
| `EchoBus` | what PROTOCOL.md promises of a link with the echo bitstream, a frame at a time |
| `SpiEcho` | `spi_slave_rx.v` in `echo_top.v` edge by edge, and the spidev master on a clock of its own |
| `LinkTools` | `spi_ber_ramp.py` with `ber.py`, `spi_fpga_bringup.py`, `spi_loopback_test.py` over `SpiEcho` |
| `MC...` | the values TLC uses |
| `Telemetry_proofs`, `PiDevice_proofs` | lemmas: the sketch's steps, what a transfer does to the device |
| `NidsTop_proofs` | types, the schedule, the settled response; the verdict is exact; registered reads are fresh; `NidsTop` implements `Board` |
| `TelemetryStream_proofs` | types; an estimate never undercounts; `TelemetryStream` implements `TelemetryTwin` |
| `Demo_proofs` | the orchestrator and the schedule |
| `PiBus_proofs` | `closed_loop.py` and the checks on the shared bus |
| `BoardTools_proofs` | what a PASS of the hot load and of the silicon checks is worth, and that a sound board passes |
| `LinkTools_proofs` | `SpiEcho` implements `EchoBus`; what a PASS or CLEAN of the link scripts is worth |

Hashes are constants of the form `[Ip -> index]`, so a theorem holds for any
hash and TLC gets the collisions it needs. Memory depths, counter widths and
the gap between frames are constants too.

`Board`, `TelemetryTwin` and `EchoBus` are the abstract specifications. `NidsTop`
implements `Board` under a refinement mapping that looks at the board when CS
falls (`view` records the memories at that edge, `link.got` the response); the
step between two CS falls is one `Transfer`, or `AfterReset` if btnC was
pressed. `TelemetryStream` implements `TelemetryTwin` seen whenever the
pipelines are idle, and is its twin in every window that no tick within a frame
opened (`synced`). `SpiEcho` implements `EchoBus`: the fifty-odd edges of a
transfer are a stutter, but for the two at which the frame arrives and the
answer is complete.

`PiDevice` is coarser than `Board`: the answer of the last frame is its
variable `answer`, which the next transfer returns, and the Count-Min sketch is
computed from `sent`, the packets of each source in the open window. What the
run `telemetry` shows of races with the tick and of old epochs is not repeated
there. `pc` names the transfer a script does next; the decisions it takes
between two transfers belong to the step of the first. `everHot` records the
estimates of completed windows for the properties.

A transfer that btnC is pressed in loses its frame and, as
`spi_slave_rx.v` clears what it is sending, brings back the beginning of the
answer and then zeros. `Receive(f, rx)` is a transfer whose answer the script
looks at, `Torn` says what a cut leaves of each answer: the fields before the
cut, the leading bits of the one that is cut, zeros; all of it if the press
comes after the last bit that means anything. In a snapshot the count precedes
the key, so a cut key comes with a whole count. Numbers are cut at their bits
(`CutNumber`); which addresses the leading bits of an address make is the
constant `CutIp`, of which the theorems assume no more than that the address
itself and 0.0.0.0 are among them. `Transfer(f)` is a transfer whose answer
nobody looks at.

A check of `BoardTools` is data: `plan`, the frames the script sends, and a
predicate over `rx`, what came back. Its steps are the transfer, the frame that
is lost and the button. The scenarios of `GoldenStream` have the lengths
`scenarios.py` derives from the thresholds and the window (`DefaultPort` SYNs
for a scan, one frame more than a window for the boundary case), so that they
shrink with the instance, and its addresses have buckets of their own, which
`scenarios.py` says and verifies of its own.

In `PiBus` the two sides of the bus see each other only through `answer`. Every
telemetry or control response has magic 0x5A; `closed_loop.py` looks at nothing
else before it decodes a snapshot. `DecodedSnapshot` gives what
`decode_snapshot` then finds: in the responses of the other opcodes the bytes
of key and count are zero.

## Properties and runs

| Run | Properties | Shows |
|---|---|---|
| `board_transfers` | `TypeOK`, `Schedule`, `VerdictExact`, `ReadsAreFresh`, `TopCreditsTheCounted`, `ImplementsBoard`, `SettledInTransfer` | all sequences of four transfers over all opcodes, unknown ones included, and eleven transfers of two sources that evict each other: window end, epoch and counter wrap, saturation; at the shortest gap, with a window tick that meets a packet in the pipeline |
| `board_reset` | `Schedule`, `Progress`, `ImplementsBoard` | btnC at any edge of three transfers, with jitter in the gap |
| `telemetry` | `TelTypeOK`, `NeverUndercounts`, `ImplementsTwin` | ticks at any phase of a frame: an estimate is never below the packets of the open window; telemetry equals its twin in each window that no tick within a frame opened, and again from the next tick between frames on |
| `loop` | `LoopTypeOK`, `RaisedOnlyAfterReset`, `OnlyHotSourcesPushed`, `PushedRulesStay`, `PersistentTopIsBlocked` | the orchestrator with window ticks between any two transfers, a press of btnC at any time, the frame it loses and the answer it cuts, two sources one of which the sketch overestimates; nobody below the trigger is blocked, but an address a cut answer makes of a hot one |
| `shared_bus` | `OnlyHotSourcesPushed`, `PushedRulesStay`, `CalmCheckPasses`, `DemoPassMeansBlocked`, `RowsLagByOne`, `PersistentTopIsBlocked` | `closed_loop.py` with another script's frames between its transfers, and the scripts that have the bus for themselves; one press of btnC, with the answer it cuts |
| `board_tools` | `KeptMembersAlwaysHit`, `PassedLoadMissesNone`, `PassedRoundTripHolds`, `PassedFlowMeansEvicted`, `PassedStreamIsWhole`, `SoundBoardPasses` | the hot load and the silicon checks, with up to two packets of another process and one fault, a lost frame or btnC, at any place |
| `spi_echo` | `PassNamesTheWiring`, `QuietLinkPasses`, `CleanMeansTaken`, `ImplementsBus` | all relative phases of the two clocks, two disturbances (a glitch of CS within a transfer, or a press of btnC at any edge), a clock that is slow enough and one that is not, the board and the jumper |
| `demo_clock` | `AtMostTwoPerInterval`, `LabelNotBehind`, `EndsOnlyWhenOver`, `RunEnds` | the script and a pinned scenario, with no duration, 0, a short one and a long one; nothing ends early, and what is given an end comes to it |

Four runs are expected to find a violation; each is a disagreement between the
code and what the repository says of it, listed in `PROJECT.json` under
`findings`:

| Run | Property | The repository says | The code does |
|---|---|---|---|
| `byte_count_wraps` | `ImplementsBoard` | bit-exact twin, saturating | the 24-bit sum wraps before the test |
| `rule_lost_to_reset` | `PushedRulesMatch` | True iff a rule was pushed | a rule frame the board never handled is listed as pushed |
| `torn_answer` | `OnlyTopTalkersBlocked` | a rule is pushed when a top talker emerges | a press of btnC within the key of the poll's answer leaves a whole count and the key's leading bits, and that address is blocked |
| `pinned_scenario_ends` | `PinnedRunsForever` | a pinned scenario runs forever | its schedule is one step of 60 s, after which the frames run out |

`closed_loop.py` takes a cut answer in the same way (`ReadSnapshot` of
`ClosedLoop`), so `OnlyHotSourcesPushed`, which both loops keep, is stated with
the exception: a blocked source was at the trigger when some window ended, or,
once btnC was pressed, is made of the leading bits of one that was.

The model shows more such places, which have no run of their own because they
follow from a definition a reader can look at:

* a blank rule cell matches 0.0.0.0 (`BlankRule`), the source of every flush
  frame of the Pi, so its verdicts can carry the rule bit while no rule was
  ever written;
* every frame advances `top.count`, whatever its opcode, and with it the window
  of the flow table (`FlowEpoch`);
* an HLL write on the edge of a tick wins over the tick's reset of `zeros`
  (`HllDefault` and phase 4), so the new window starts from the old count;
* sketch cells left alone until the epoch comes back count again (`Eff`),
  in the twin as on the board;
* with two sources in one rule index the second push takes the cell of the
  first, and neither script pushes the first again; that is why `loop`
  and `PushedStayBlocked` assume indexes that differ;
* the scripts' own flush frames are packets of 0.0.0.0 to the telemetry
  (`FlushFrame`); when they are the top talker, `Orchestrator` pushes nothing
  and `ClosedLoop`, which has no test of key 0, pushes a rule for 0.0.0.0;
* a packet whose `upd_done` comes after the tick is the top talker of a window
  it is not counted in (`WindowBoundary`, `WindowOpen`): like the write on the
  edge of a tick, this is why `ImplementsTwin` lets such a window go its own way
  and asks that it ends with the window;
* after each poll or push the orchestrator records the verdict of its own flush
  frame, and never sees that of the packet before (`Recorded`, whose input is
  `answer`);
* a PASS of `silicon_flow_check.py` does not tell an eviction from the end of a
  window, which empties the cell as well, nor from a last packet that was lost
  (`PassedFlowMeansEvicted` says that the cell counts from the source's return,
  and assumes that nothing was lost);
* `silicon_runtime_check.py` prints `3 - errs` of 3 correct with up to six
  errors, and `hot_load_bloom.py` the sample minus the errors, when what it read
  back are all nonzero words;
* `spi_ber_ramp.py` clocks out the last echo with a flush frame and then drops
  it (`received[:-1]`), so the last random frame is not compared, and with
  `--frames 1` every clock is CLEAN (`Clean`); its ceiling is the last clean
  clock in the order of the list, not the highest;
* `silicon_loop_demo.py` writes epoch 0 whatever the register holds; on a board
  with another epoch it reports FAIL (`DemoPushes`);
* `read_rule_epoch` of `closed_loop.py` takes any response for the register, so
  a telemetry script that queries at that very moment would give it an epoch
  that no rule matches. The plans start the loop first; so does `PiBus`
  (`LoopRuns`).

### Bounds, and why they are enough

* Addresses: 0.0.0.0 and two sources (`MCIp`). They share a flow bucket with
  different fingerprints (eviction) and a rule cell with the blank address, and
  a sketch column in one bank of two (collision) but not in the other.
* Two bloom words of two bits: every hash lands in the other word of its
  partner, so both reads matter.
* Widths are cut to where the wrap happens within the run: `SeqMod` 4,
  `CountMod` 8, `PktMax` 3, two flow epochs, two to four sketch epochs.
* `Gap` 11 is the least gap for which the design works: with `Gap` 10 the
  verdict is not yet in `tx_reg` at CS fall (the assumption `Gap >= Drained`).
  On the bus a transfer takes 256 SCLK periods and CS high time on top, over
  3000 cycles of `clk`, so the model is far less generous than the hardware.
  `Slack` adds jitter in `board_reset`.
* `MaxFrames` and `MaxResets` end a behaviour, hence `CHECK_DEADLOCK FALSE` in
  the `NidsTop` runs. Four transfers see a write, the packet it affects, a read
  and its answer; eleven see each counter wrap.
* `WindowCycles` 29 or 31 puts a tick into a packet's pipeline in
  `board_transfers` and between packets elsewhere. What the Pi sends in
  `board_transfers` is one of two `Menus`: any frames, four of them, or eleven
  of the stream's.
* In `telemetry` frames are at least `TelGap` 6 cycles apart, one more than the
  pipeline, so that a frame can follow at once or wait; with `WindowCycles` 13
  the tick meets each phase of a frame, or none. Frames come in `MaxWindows` 4
  windows, because the history `exact` would make the state space too large
  otherwise, and time goes on after that: four windows see a parted frame, the
  window after it, its end, and the epoch (`TelEpochs` 2) come back twice.
* The scripts' runs have 0.0.0.0 and two sources, a trigger of 2 and counts
  that saturate at 2. In `loop` source 2 shares its column with the other source
  in one bank and with the flush frames in the other; `SnapEvery` 2 stands for
  50: what matters is that packets come between polls. Frames and windows are
  unbounded in `loop`; `MaxResets` 1 is its only bound: what an answer cut by a press leads to
  takes one press, and `OnlyHotPushed` is proved for any number of them. The sources are 2 and 3, the leading bit of 3
  making 2 (`MCCutIp`), so a cut answer can name a source, and not only 0.0.0.0,
  that was never hot. Nothing deadlocks: the window timer runs on.
* In `shared_bus` flush frames share no column. With the hashes of the scripts
  0.0.0.0 has columns of its own among the addresses they use; a check whose
  keys shared one would have to expect the flush frames in its counts.
  The sender sends packets of source 3 only (`Others`), the stream of the
  telemetry check has three packets and two queries, the flood has two packets,
  and the viewer shows `MaxRows` 4 packets. `MaxResets` is 1.
* `board_tools`: windows of four frames, so that the golden stream of the six
  scenarios is one of 32 frames over eight windows, two of which the
  boundary scenario needs; four Bloom words with an address that is in both C2 sets, one only in
  the old and one only in the new; `MaxOthers` 2, `MaxFaults` 1: that two lost
  frames can cancel out is a question of its own, asked in `spi_echo`. `Sample`
  is at most the number of words: with more, `random.sample` raises. A plan
  ends, hence `CHECK_DEADLOCK FALSE`.
* `spi_echo`: frames of `FRAME_BITS` 3, enough for a first, an inner and a last
  bit; levels of SCLK of 3 or 4 edges (safe) and of 2 or 3 (not safe), which the
  model requires to be at least 2: at one edge per level, near the 30 MHz of
  `--clocks-mhz`, edges of SCLK get lost in the synchroniser. `MaxNoise` 2 is
  the least at which one disturbance can hide another's. Three frames give each
  script one that is neither first nor last.
* `demo_clock`: three steps with a generator that runs dry within its step and
  ones that do not, a tick of two units, and `Horizon` 9, two units after the
  schedule of 7 is over; beyond it time only passes while the process sleeps.
  The run ends, hence `CHECK_DEADLOCK FALSE`.

## Fairness

The board's runs check safety and refinement of specifications without
liveness; the board would only need weak fairness of its clock. The liveness
property, `PersistentTopIsBlocked`, is the scripts':

* `Orchestrator` assumes weak fairness of `Step`: one process that never waits
  for anything but its own pacing. The schedule may still end at any packet
  (`Stop`), and the property says nothing of a loop that has ended.
* `PiBus` assumes weak fairness of `LoopStep` and strong fairness of
  `PollUndisturbed`: the two transfers of a poll are back-to-back calls of one
  process, so of infinitely many polls one is not torn apart by the other
  script. Without that assumption TLC shows the property to fail: the two
  processes share the bus with nothing to arbitrate. Window ticks and the other
  script need no fairness.
* `DemoClock` assumes that the process is not starved (`Process`) and that the
  clock goes on (`TimePasses`): `RunEnds` needs both, as every loop of the
  script waits for a moment to come. It speaks of the runs that are given an
  end, by the script of 60 s or by `--duration`; that of a pinned scenario
  without one should have none (`pinned_scenario_ends`).

`PersistentTopIsBlocked` says: if from some time on every completed window has a
top talker at the trigger, whichever source it is, then again and again the top
talker of the moment is one the board blocks. It is no leads-to for one source,
because a source that shares the top with another may be polled for never.

## What is proved

All theorems hold for every value of the constants under the assumptions the
modules name (`IpAssumption`, `BloomAssumption`, `FlowAssumption`,
`RuleAssumption`, `TelAssumption`, `TopAssumption`, `BootAssumption`,
`DeviceAssumption`, `LoopAssumption`, `ClockAssumption`, `PairAssumption`,
`ToolsAssumption`, `PlansAssumption`, `StreamAssumption`, `WeightAssumption`, `EchoAssumption`, `ToolAssumption` and those of `PiBus`) and
those a theorem states of its own: hashes are functions into their index sets, depths and
widths are positive, frames are well formed for their opcode, the fingerprint
bits and registers are finite sets, and the gap is at least the depth of the
classify pipeline. The last one is the only assumption about the Pi.

The board (`NidsTop_proofs`, `TelemetryStream_proofs`):

1. `Typing`, `Scheduling`, `Settling`. The inductive
   invariant is `TypeOK /\ Schedule`, and neither half is inductive alone: that
   a write has the right type depends on the opcode register belonging to the
   frame that is decoded, which is the schedule's doing, and the schedule needs
   the ranges of the phases. `Schedule` ties each FSM's phase to the age of the
   frame; a reset may take the three classifier stages to `Idle` at any age but
   never leave one of them running alone. `SettledInTransfer` follows: with CS
   low the age is at least `Gap`, so nothing that writes a memory or `tx_reg`
   is active.
2. `Progressing`, `ExactVerdict`. `VerdictExact` speaks of
   one edge; to prove it one needs to know what each stage has read so far.
   `Progress` says so, phase by phase, in terms of the memories as they are
   now: what is read early stays true because, by `Schedule`, no write can
   happen while a packet is in flight. `VerdictExact` is then the combination
   of three finished stages.
3. `FreshReads`, `CreditsTheCounted`. `ReadsAreFresh` and
   `TopCreditsTheCounted` speak of the cycle a word is acted on; the invariant
   adds what the cycle before has latched (`ReadLatched`) and that the key held
   for the top-1 is that of the running update (`KeyHeld`). That no write and no
   second packet comes between is `Schedule` again.
4. `BoardImplemented`: `NidsTop` implements `Board`, under the refinement
   mapping that looks at CS falls. Its invariant `RefInv` has three modes.
   While `Waiting` (the request is not in yet, or there was none) the memories
   are `view` and the pipelines are at rest. While `Handling`, each register
   and memory is what `view` and the request make of it by that age: `Front`
   the decoding, `Stored` the memories, `Judged` the verdict, `Controlled` the
   readbacks and acks, `Asked` the telemetry. `Forgotten` is what a press of
   btnC leaves: no response, default registers, and memories with or without
   the request. A CS fall is one `Transfer` from the first two modes and one
   `AfterReset` from the third; every other edge leaves the mapping alone.
   There are two hypotheses. btnC is held for at least three edges
   (`ResetCycles >= 3`: a control frame two stages deep would otherwise answer
   after the reset; a finger and the clock are six orders apart). And
   `[]NoByteWrap`: no packet takes the byte counter of its cell past 24 bits,
   where the RTL does not saturate as the twin does. That this cannot be
   dropped is what the run `byte_count_wraps` shows.
5. `TelemetryTyped`, `NothingUndercounted`. A frame is in the history `exact`
   at the edge it arrives and in the banks two edges later, and a tick may fall
   in between. `SketchInv` says what every bank owes every source meanwhile:
   each share covers the exact count, or is one short while an update of that
   source is in the walk (`CellsCover`), whose words are still those of the
   memory (`ReadIsCurrent`).
6. `TwinImplemented`: `TelemetryStream` implements `TelemetryTwin`, under the
   mapping that looks at the state while the pipelines are drained. `TwinInv`
   is `SketchInv` and, while `synced`, how far the frame under way has got
   beyond `drained`: `InPipeline` phase by phase, `Drained` at rest. The timer is
   free to fire at any edge. A tick that meets a frame ends `synced` (the twin's
   `LosesTrack`) and nothing more is said of that window; the next tick that
   meets none is the twin's `WindowTick` from whatever the window has come to,
   after which `TwinInv` holds afresh, since a tick clears all it speaks of. That
   a tick between frames finds the pipelines at rest is `Idle` and `PulseAge`. The three
   pipelines of a frame end at edges of their own; the one at which the gap is
   full is the twin's step, all others stutter. The RTL keeps the harmonic sum
   by increments and truncates it to its width, the twin adds and subtracts
   weights without bound; they agree because the sum never goes below the
   weight that is taken off it. This is a fact about a sum over all registers,
   which would take induction over data; `HllOK` says it without a sum: there
   are shares `F`, one number for each set of registers, with `F[Register]` the
   sum held and each register adding at least its own weight to any set
   (`Shares`), and a set `Z` of `zeros` registers with every empty one in it
   (`EmptyOnes`). An update takes from `F` what it takes from the sum in the
   sets with the register, a tick starts with `Cardinality(A) * Weight[0]`.
   `WeightAssumption`, that a larger rank weighs no more, is what `2^-rank` is.

The scripts (`Demo_proofs`, `PiBus_proofs`, `BoardTools_proofs`):

7. `EpochReadable`, `PushedStayBlocked`. The first
   needs only that the answer awaited in `"epoch_rx"` is the register's. The
   second is about rule indexes that do not collide (`IndexesApart`, which
   cannot be dropped: with one index for two sources TLC finds the first rule
   displaced) and speaks of a board that was not reset so far; what a reset does
   the run `rule_lost_to_reset` shows. Its invariant `PushInv` carries the epoch
   from the register through the answer into the loop, and the rule on its way
   from the write to the entry in `pushed_rules`; a write for another source
   goes to another cell. As the number of resets only grows, a step that ends
   with none began with none.
8. `LoopTyping`, `OnlyHotPushed`, for any finite set of
   addresses and any sketch with at least one bank. The invariant `HotInv`
   follows a count at the trigger from the sketch of the open window, where the
   estimate confirms it, through snapshot, answer and the loop's copy to the
   pushed rule. An answer that btnC cuts has a count no larger and a key that is
   whole or one of the cuts of a hot one (`HotOrCut`).
   In the open window it is kept because estimates only grow (`EstimateGrows`,
   over `ColumnGrows` and `LeastOf`); `LoopTyped` adds to the
   types which answers a transfer can find, so that the epoch decoded is one.
9. `Pacing`, `LabelsKeepUp`, `NoEarlyEnd`. That of three frames in a row the
   last comes a tick after the first takes an invariant over every place of the
   loop: between two frames `next_tick` is at least the last send, from the next
   pacing on it is a tick after the one before, and it is never put back. For
   the labels `ClockInv` relates the two clocks: the generator's begins no
   later than it is looked at and no earlier than that of `run_loop`
   (`ClocksInOrder`), and the steps before the current one are over
   (`EarlierStepsOver`). The running sum `cum` is a recursive function over a
   finite schedule; that it has a solution, and what the proof needs of it, that
   each end is a natural number, come from the least index at which it would
   fail (`LeastExists` is the same device in `BoardTools_proofs`).
10. `BusHotPushed`, `BusRulesStay`: the two properties of `closed_loop.py` when
   another script's frames come between its own. `NotTheLoop` sums up what the
   others may do to the board (`OthersStep`: read, send packets, push the one
   rule of the demo when the loop does not run); the loop may take any answer of
   magic 0x5A for a snapshot, and the invariant says of every such answer that a
   count at the trigger in it is one a window ended with, or, cut by a press, is
    that of a window with only the leading bits of its key. `BusRulesStay` is
   again about sources whose rule indexes differ.
11. `DemoPassBlocks`, `RowsAreOneBehind`, `CalmCheck`. The scripts that have the
    bus for themselves: what they decide by is the answer to the frame before,
    and the invariants name that frame at every place of the script. `CalmCheck`
    carries the counts of the sketch along the plan as the twin computes them
    and assumes `FlushApart`, that 0.0.0.0 shares no column with the keys
    asked for; with a shared column the flush frames show up in the counts.
12. `KeptHit`, `LoadMissesNone`, `RoundTripHolds`, `FlowEvicted`. A script that
    judges by answers knows what the board held when it answered, not what it
    holds now. What makes the judgement right is the plan: it writes a word, a
    register or a rule before it reads any of its kind (`Sound`, proved of the
    plans of the hot load and the runtime check from the concatenations they
    are). So once an answer has been given, no frame the board still handles is
    a write of that kind (`NoLateWrite`), and what was `Told` stays true
    (`TellsTrue`, kept by every transfer, lost frame, reset and packet of the
    other process). A read value that equals the value written then means that
    the write arrived, although its ack was dropped. `Mixed` (each word of the
    filter is the old or the new one) gives `KeptHit`; `CellTaken` follows the
    one flow cell of the flow check. `ToolsAssumption` has what the sizes of the
    board and the scripts' arguments give: at least two words and rules, hashes
    within the memories, packets only from the other process.
13. `StreamWhole`. What `spi_verdict_check.py` may conclude needs no expected
    verdict: `Unbroken` knows of the answers only that btnC leaves none and that
    after a lost frame the one before it comes again. A PASS excludes both, as
    every transfer but the first has to bring a verdict whose `seq` is one above
    the last; with `SeqMod` 1 it would not.
14. `SoundPasses`. Without a fault the board has handled all frames of the plan
    but the last (`InStep`, `Handled`), so each answer can be said beforehand.
    `WritesStay` has the acks and read-backs, over `Coherent`: every read has a
    write before it and one place is written one value. `NoScanYet` has the flow
    check, over `CellTaken`. `BothTables` has the golden stream: the flow table
    of the board and the coarser one of `scan_rate.py`, which has no fingerprint,
    hold the same counts of each source of the open window (`Matched`,
    `Agree`), and what else they hold is of an earlier window (`FlowTouched`,
    `SrTouched`). So the next packet of a source seen in this window finds the
    same counts in both, and that of another finds none in either (`SameStart`).
    The counters saturate at different numbers, both at or above the rate
    threshold, so the verdicts are the same (`SameVerdict`). `table` is a
    recursive function over the stream; that it has a solution comes from
    `LeastExists` again, and the induction over the frames is that of the run.
    `StreamAssumption` is what the locked table rests on: sources of one window
    that share an entry of `scan_rate.py` are one source, no epoch comes back
    within the stream, no source is 0.0.0.0 (a blank rule would match it).
    The 120 frames of `gen_verdict_golden.py` have all this under the hashes of
    the code. `PlansAssumption` says that no frame a script sends is the mark
    of a lost one, and that one SYN is no scan.

The link (`LinkTools_proofs`):

15. `BusImplemented`: `SpiEcho` under the scripts implements `EchoBus`, at CS.
    The invariant `LinkInv` follows a change of the lines through the
    flip-flops: `SyncOK` says by `held`, the edges since the master last moved,
    which of `s0`, `s1` and `q` have the new level. A rise of SCLK the board has
    not seen yet is `Pending`, and `Seen` counts the bits that it has.
    `ReceiveOK` holds with noise too: the bits counted since CS was last high
    are the last of those seen, so a frame that fills up is the one under way,
    never a mixture. `AnswerOK` is about a transfer nothing got into: what is
    left in `tx_sr` is what the master has not sampled yet. The hypothesis is
    `ENOUGH >= 3`: two flops of the synchroniser and one of the edge detector;
    with two edges the first bit is sampled before it is out, which is why the
    second clock of the run, with half a period of 2, is not a safe one.
16. `PassNames`, `QuietPasses`. For the first it is enough that the first
    answer of a board is zero whatever gets into the transfer (`FirstOK`: no
    frame can be complete before the last bit is sampled) and that the jumper
    returns what is sent whatever CS does (`JumperOK`); it needs no hypothesis
    on `ENOUGH` and holds for any `MaxNoise`. The second carries the answers of
    the list so far (`QuietOK`) and the judgements made of them (`StatusOK`).

`IndexesApart` and `FlushApart` hold of the constants of the runs that check
the same properties. Each invariant was checked by TLC as an invariant of a run
before it was proved: `RefInv` and `NoByteWrap` on `board_transfers`
and `board_reset`, `SketchInv` and `TwinInv` on `telemetry`,
`ClockInv` on `demo_clock`, `ToolInv` of `BoardTools_proofs`, `Unbroken` and `SoundInv` on `board_tools`,
`QuietInv` on `spi_echo`.

Only model-checked, and why:

* `PersistentTopIsBlocked` and `RunEnds`: liveness under fairness is out of the
  prover's reach.
* `CleanMeansTaken`: it holds of the frames and of the two disturbances of the
  run, not for all. With `MaxNoise` 3 TLC finds a clock judged CLEAN on which
  the board lost a frame: one disturbance costs it its last bit, the other two
  shift the next answer into its place. With a list that starts with a frame of
  zeros two are enough. So a CLEAN is evidence against a single disturbance, and no
  proof of an intact link.

## Not modelled

* The byte layout of frames: a frame is the record of its fields, or, in
  `SpiEcho`, `FRAME_BITS` bits without bytes. `rx_byte` and `byte_index`, which
  no design uses, are left out of `SpiEcho`.
* `NidsTop` keeps three edges of the SPI slave: the CS fall, the last bit and
  the reset. What a torn or shifted frame does is the matter of `SpiEcho`, whose
  design is `echo_top.v`: the classifier with a torn frame would drop it, and
  the transfer after it returns the answer of the frame before the torn one
  (`LoseFrame` of `BoardTools` and `Reset` of `PiDevice` lose frames like that).
  A reset in the middle of a transfer also clears the shift register, so the
  bytes the Pi receives from it are zeros from there on: `Torn` of `PiDevice`
  has that for the scripts which look at the answer; `link.got` of `NidsTop`
  keeps what CS fall latched.
* A transfer whose reset is over before its first SCLK edge is received whole
  and answered with zeros. For the board it is one whose CS fell when the reset
  was over (`CsFall`), with the answer a reset leaves.
* The value of `wcnt` and `snap_*` before the first press of btnC, of which
  `telemetry.v` says nothing: `TelInit` is the state after one.
* A cut answer in `Board` and `BoardTools`, whose presses are seen at the next CS
  fall: the answer on its way is taken whole. The checks compare a cut answer
  with one value, so it can make a check fail; it can make one pass only if
  another fault lost what was to be written before. For the hot load not even
  then: a word whose leading bits are the expected word has its bits.
* A level of SCLK shorter than two edges of `clk`: close to 30 MHz the
  synchroniser can miss a level altogether, and `SpiEcho` has no such choice.
* The hash functions and `rank21`: constants.
* `total_packets` is a natural number, not 32 bits: a window of one second
  cannot hold 2^32 frames.
* `hll.estimate_from` of the host, the plots of `viz.py --save` and
  `demo/dashboard.py`: they read what the modelled code computed and feed
  nothing back. (`HeadlessDashboard` prints the same threat again for each frame
  of a source, as the records of the orchestrator say.)
* `run_replay` of `viz.py` and `benchmark.py`: no board and no state beyond the
  twins, which `Board` has.
* `docs/sizing.py`: arithmetic on sizes and error bounds.
* `scan_rate.v` and `top.v` (not in the design any more), `extract_header`, the
  stimulus of `hll_golden` and `telemetry_snapshot`, which read no clock and have
  no order to go wrong.
* Timing of the scripts: `--interval`, `fps` and the length of a window relate
  only as any order of ticks and transfers; `DemoClock` has the clock, without
  the frames' contents.
* Sketch cells that survive a reset are in `NidsTop` and `Telemetry`, not in
  `PiDevice`, where btnC starts an empty window.
* More than one other script beside `closed_loop.py` at a time, and other
  scripts that write rules or thresholds while it runs.
* `spi_verdict_check.py` on a board that was used before: its golden stream
  expects the state after btnC, as `BoardTools` has it.

## Plan

1. `PiDevice` as an implementation of `Board` and `TelemetryTwin` seen through
   the fields the scripts read, so that the properties of the scripts rest on
   the RTL without a reader's comparison.
2. The SPI slave of `SpiEcho` composed with `NidsTop` for torn frames with
   their effect on the classifier.
3. Proofs: `PiDevice` over `Board` once the first item is there.
