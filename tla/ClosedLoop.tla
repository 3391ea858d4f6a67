----------------------------- MODULE ClosedLoop -----------------------------
(***************************************************************************)
(* closed_loop.py next to a process that sends packets over the same bus    *)
(* (packet_capture.py --spi, a flood), which is how the plan of step 4 runs *)
(* it.  The driver serialises transfers, nothing serialises the two         *)
(* transfers of a poll: what comes back in the second is the answer to      *)
(* whatever frame was last.                                                 *)
(***************************************************************************)
EXTENDS PiDevice

CONSTANT Others     \* sources the other process sends packets of

ASSUME OthersAssumption == Others \subseteq Ip \ {ZeroIp}

VARIABLES
    pc,             \* the transfer to come, "sleep", "raised", or "off"
    rule_epoch,     \* epoch, read once
    seen,           \* seen
    target          \* s.top1_key of the push under way

loopVars == <<pc, rule_epoch, seen, target>>
vars == <<deviceVars, loopVars>>

AskEpoch ==
    /\ pc = "epoch"
    /\ Transfer(EpochFrame)
    /\ pc' = "epoch_rx"
    /\ UNCHANGED <<rule_epoch, seen, target>>

\* A verdict in place of the register makes decode_threshold_read raise.
ReadEpoch ==
    /\ pc = "epoch_rx"
    /\ \E rx \in Torn(answer) :
          /\ Receive(FlushFrame, rx)
          /\ \/ IsResponse(rx) /\ rule_epoch' = DecodedEpoch(rx) /\ pc' = "poll"
             \/ ~IsResponse(rx) /\ pc' = "raised" /\ UNCHANGED rule_epoch
    /\ UNCHANGED <<seen, target>>

AskSnapshot ==
    /\ pc = "poll"
    /\ Transfer(SnapFrame)
    /\ pc' = "poll_rx"
    /\ UNCHANGED <<rule_epoch, seen, target>>

\* Mutant of WantsPush: no look at the count.
WantsAnyPush(s) == s.key \notin seen

WantsPush(s) == s.count >= Trigger /\ s.key \notin seen

\* Another magic: try again after the interval.
ReadSnapshot ==
    /\ pc = "poll_rx"
    /\ \E rx \in Torn(answer) :
          /\ Receive(FlushFrame, rx)
          /\ LET s == DecodedSnapshot(rx)
             IN  \/ /\ IsResponse(rx) /\ WantsPush(s)
                    /\ target' = s.key
                    /\ pc' = "push"
                 \/ /\ ~IsResponse(rx) \/ ~WantsPush(s)
                    /\ pc' = "sleep"
                    /\ UNCHANGED target
    /\ UNCHANGED <<rule_epoch, seen>>

\* Mutant of PushRule: the epoch is taken to be 0, as silicon_loop_demo does.
PushEpochZero ==
    /\ pc = "push"
    /\ Transfer(RuleFrame(target, 0))
    /\ pc' = "ack"
    /\ UNCHANGED <<rule_epoch, seen, target>>

PushRule ==
    /\ pc = "push"
    /\ Transfer(RuleFrame(target, rule_epoch))
    /\ pc' = "ack"
    /\ UNCHANGED <<rule_epoch, seen, target>>

ConsumeAck ==
    /\ pc = "ack"
    /\ Transfer(FlushFrame)
    /\ seen' = seen \cup {target}
    /\ pc' = "sleep"
    /\ UNCHANGED <<rule_epoch, target>>

\* Mutant of WakeUp: the sleep leads back to the read of a poll.
WakeToRead ==
    /\ pc = "sleep"
    /\ pc' = "poll_rx"
    /\ UNCHANGED <<deviceVars, rule_epoch, seen, target>>

WakeUp ==
    /\ pc = "sleep"
    /\ pc' = "poll"
    /\ UNCHANGED <<deviceVars, rule_epoch, seen, target>>

OtherSends(ip) == Transfer(PacketFrame(ip)) /\ UNCHANGED loopVars

Step == \/ AskEpoch \/ ReadEpoch \/ AskSnapshot \/ ReadSnapshot
        \/ PushRule \/ ConsumeAck \/ WakeUp

\* A poll no other process has torn apart: it gets its own answer.
PollUndisturbed ==
    ReadSnapshot /\ IsResponse(answer) /\ answer.op = SnapshotOp

(***************************************************************************)
(* Properties                                                               *)
(***************************************************************************)
\* However the frames of the two processes interleave, no verdict or ack is
\* taken for a snapshot that names a target: a source is pushed only if some
\* window had it at the trigger, or, once btnC was pressed, if it is the
\* beginning of such a source, which a cut answer named.
OnlyHotSourcesPushed ==
    \A ip \in seen \cup (IF pc \in {"push", "ack"} THEN {target} ELSE {}) :
        HotOrCut(ip)

\* closed_loop.py: "The FPGA then flips hit_mask bit 3 on subsequent classify
\* frames for that source"; on a bus it shares, as long as rule indexes
\* differ and the board keeps running.
PushedRulesStay == resets = 0 => \A ip \in seen : Blocked(ip)

\* While every window has a top talker at the trigger, whoever it is, the
\* top talker is blocked again and again: no source escapes by taking turns
\* with another, nor by the frames that tear polls apart.
PersistentTopIsBlocked ==
    <>[](/\ last.count >= Trigger
         /\ resets = 0 /\ pc \notin {"raised", "off"})
        => []<>Blocked(last.key)

=============================================================================
