---------------------------- MODULE Orchestrator ----------------------------
(***************************************************************************)
(* demo/orchestrator.py: one process that owns the SPI link, sends the      *)
(* scenario's packets, records the verdict each transfer returns and every  *)
(* snap_every packets polls the snapshot and may push a rule.  One step is  *)
(* one transfer and the code up to the next; the window timer and btnC act  *)
(* in between.                                                              *)
(***************************************************************************)
EXTENDS PiDevice, Sequences

CONSTANTS
    SnapEvery,      \* snap_every: packets between polls
    Kept            \* VERDICTS_KEPT: length of the deque

ASSUME LoopAssumption == {SnapEvery, Kept} \subseteq Nat \ {0}

VARIABLES
    pc,             \* the transfer to come, or how the loop ended
    rule_epoch,     \* state.rule_epoch, read once
    tick,           \* the loop counter; after a poll it starts at 1 again
    snapshot,       \* state.snapshot; NoTop for None
    pushed,         \* the sources of state.pushed_rules
    recent          \* state.recent_verdicts: the source and rule bit of each

loopVars == <<pc, rule_epoch, tick, snapshot, pushed, recent>>
vars == <<deviceVars, loopVars>>

Scenario == Ip \ {ZeroIp}
Ended == {"raised", "done"}

\* Mutant of AskEpoch: the answer is looked for in the same transfer.
AskEpochAtOnce ==
    /\ pc = "epoch"
    /\ \E rx \in Torn(answer) :
          /\ Receive(EpochFrame, rx)
          /\ pc' = IF IsResponse(rx) THEN "frame" ELSE "raised"
    /\ UNCHANGED <<rule_epoch, tick, snapshot, pushed, recent>>

\* read_rule_epoch; decode_threshold_read raises on any other magic.
AskEpoch ==
    /\ pc = "epoch"
    /\ Transfer(EpochFrame)
    /\ pc' = "epoch_rx"
    /\ UNCHANGED <<rule_epoch, tick, snapshot, pushed, recent>>

ReadEpoch ==
    /\ pc = "epoch_rx"
    /\ \E rx \in Torn(answer) :
          /\ Receive(FlushFrame, rx)
          /\ \/ /\ IsResponse(rx)
                /\ rule_epoch' = DecodedEpoch(rx)
                /\ pc' = "frame"
             \/ /\ ~IsResponse(rx)
                /\ pc' = "raised"
                /\ UNCHANGED rule_epoch
    /\ UNCHANGED <<tick, snapshot, pushed, recent>>

\* Mutant of Recorded: a list without maxlen.
RecordedAll(rx) == Append(recent, [src |-> rx.src, rule |-> rx.rule])

\* record_verdict: the deque forgets its oldest entry.
Recorded(rx) ==
    LET all == Append(recent, [src |-> rx.src, rule |-> rx.rule])
    IN  SubSeq(all, Len(all) - AtMost(Len(all), Kept) + 1, Len(all))

\* Mutant of NextTick: the counter never reaches a poll.
NextTickModulo == (tick + 1) % SnapEvery

NextTick == IF tick = SnapEvery THEN 1 ELSE tick + 1

SendFrame(ip) ==
    /\ pc = "frame"
    /\ \E rx \in Torn(answer) :
          /\ Receive(PacketFrame(ip), rx)
          /\ recent' = IF IsVerdict(rx) THEN Recorded(rx) ELSE recent
    /\ tick' = NextTick
    /\ pc' = IF tick = SnapEvery THEN "poll" ELSE "frame"
    /\ UNCHANGED <<rule_epoch, snapshot, pushed>>

AskSnapshot ==
    /\ pc = "poll"
    /\ Transfer(SnapFrame)
    /\ pc' = "poll_rx"
    /\ UNCHANGED <<rule_epoch, tick, snapshot, pushed, recent>>

\* Mutant of WantsPush: no look at the count.
WantsAnyPush(s) == s.key # ZeroIp /\ s.key \notin pushed

WantsPush(s) ==
    /\ s.count >= Trigger
    /\ s.key # ZeroIp
    /\ s.key \notin pushed

\* poll_snapshot keeps the old snapshot on a wrong magic; maybe_push_rule
\* then decides by whatever snapshot there is.
ReadSnapshot ==
    /\ pc = "poll_rx"
    /\ \E rx \in Torn(answer) :
          /\ Receive(FlushFrame, rx)
          /\ snapshot' = IF IsResponse(rx) THEN DecodedSnapshot(rx) ELSE snapshot
    /\ pc' = IF WantsPush(snapshot') THEN "push" ELSE "frame"
    /\ UNCHANGED <<rule_epoch, tick, pushed, recent>>

\* Mutant of PushRule: the epoch is taken to be 0, as silicon_loop_demo does.
PushEpochZero ==
    /\ pc = "push"
    /\ Transfer(RuleFrame(snapshot.key, 0))
    /\ pc' = "ack"
    /\ UNCHANGED <<rule_epoch, tick, snapshot, pushed, recent>>

PushRule ==
    /\ pc = "push"
    /\ Transfer(RuleFrame(snapshot.key, rule_epoch))
    /\ pc' = "ack"
    /\ UNCHANGED <<rule_epoch, tick, snapshot, pushed, recent>>

\* The ack comes back and nobody looks at it.
ConsumeAck ==
    /\ pc = "ack"
    /\ Transfer(FlushFrame)
    /\ pushed' = pushed \cup {snapshot.key}
    /\ pc' = "frame"
    /\ UNCHANGED <<rule_epoch, tick, snapshot, recent>>

\* duration_s is over or the schedule exhausted.
Stop ==
    /\ pc = "frame"
    /\ pc' = "done"
    /\ UNCHANGED <<deviceVars, rule_epoch, tick, snapshot, pushed, recent>>

Init ==
    /\ DeviceInit
    /\ pc = "epoch" /\ rule_epoch = 0 /\ tick = 0
    /\ snapshot = NoTop /\ pushed = {} /\ recent = <<>>

Step == \/ AskEpoch \/ ReadEpoch
        \/ \E ip \in Scenario : SendFrame(ip)
        \/ AskSnapshot \/ ReadSnapshot \/ PushRule \/ ConsumeAck

Next == Step \/ Stop \/ ((WindowTick \/ Reset) /\ UNCHANGED loopVars)

\* The loop is a process that never blocks: it goes on until it ends.
Spec == Init /\ [][Next]_vars /\ WF_vars(Step)

(***************************************************************************)
(* Properties                                                               *)
(***************************************************************************)
\* Every variable of the board and of DemoState holds a value of its kind.
LoopTypeOK ==
    /\ DeviceTypeOK
    /\ pc \in {"epoch", "epoch_rx", "frame", "poll", "poll_rx", "push", "ack"}
              \cup Ended
    /\ rule_epoch \in Nat /\ tick \in 0 .. SnapEvery
    /\ snapshot \in TopTalker
    /\ pushed \subseteq Scenario
    /\ recent \in Seq([src : Ip, rule : BOOLEAN]) /\ Len(recent) <= Kept

\* Reading the epoch fails only if the board was reset meanwhile: the answer
\* is looked for in the right transfer.
RaisedOnlyAfterReset == pc = "raised" => resets > 0

\* maybe_push_rule: no source is blocked unless some completed window had it
\* at the trigger or above, whatever windows end and resets happen between
\* the poll and the push; or, once btnC was pressed, unless such a source has
\* it as its leading bits: a poll's answer that is cut within the key.
OnlyHotSourcesPushed == \A ip \in pushed : HotOrCut(ip)

\* orchestrator.py: it "pushes a block-rule when a top talker emerges", and
\* against nobody else.
OnlyTopTalkersBlocked == pushed \subseteq everHot

\* demo/scenarios.py: "rule push -> rule_match (bit 3) on subsequent frames".
\* What the dashboard lists as a pushed rule is a rule the board matches.
PushedRulesMatch == \A ip \in pushed : Blocked(ip)

\* The same for a board that keeps running since the loop started.
PushedRulesStay == resets = 0 => PushedRulesMatch

\* While every window has a source at the trigger as its top talker, the top
\* talker is blocked again and again: a source that stays on top for good,
\* and no two sources escape by taking turns.
PersistentTopIsBlocked ==
    <>[](/\ last.count >= Trigger /\ last.key # ZeroIp
         /\ resets = 0 /\ pc \notin Ended)
        => []<>Blocked(last.key)

=============================================================================
