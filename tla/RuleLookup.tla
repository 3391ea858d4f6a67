----------------------------- MODULE RuleLookup -----------------------------
(***************************************************************************)
(* rule_store.v, rule_lookup.v and thresholds.v: the runtime rules the Pi   *)
(* writes, the two-phase lookup every classify frame makes, and the         *)
(* register file with the three thresholds and the rule epoch.              *)
(***************************************************************************)
EXTENDS NidsTypes

CONSTANTS
    RuleDepth,      \* 512 rules, indexed by the low 9 bits of the address
    RuleHash,       \* [Ip -> RuleIdx]: f_idx, the top 9 bits of ip * A1
    EpochMod,       \* 2^8: the rule_epoch tap is the low byte of its register
    DefaultPort, DefaultHost, DefaultRate    \* power-on thresholds (5, 5, 8)

RuleIdx == 0 .. RuleDepth - 1

ASSUME RuleAssumption ==
    /\ RuleHash \in [Ip -> RuleIdx]
    /\ {RuleDepth, EpochMod} \subseteq Nat \ {0}
    /\ {DefaultPort, DefaultHost, DefaultRate} \subseteq Nat

VARIABLES
    rs_mem,     \* rule_store block RAM
    rs_rule,    \* its registered read port
    rl,         \* rule_lookup: phase, latched source and epoch, result
    thr,        \* thresholds: port, host, rate and epoch registers
    thr_r_val   \* its registered read port

ruleVars == <<rs_mem, rs_rule, rl, thr, thr_r_val>>

LookupPhase == 0 .. 1
LookupState == [phase : LookupPhase, src : Ip, epoch : Nat, match : BOOLEAN,
                action : Action, sev : RuleSev, valid : BOOLEAN]

RuleTypeOK ==
    /\ rs_mem \in [RuleIdx -> Rule]
    /\ rs_rule \in Rule
    /\ rl \in LookupState
    /\ thr \in [port : Nat, host : Nat, rate : Nat, epoch : Nat]
    /\ thr_r_val \in Nat

ThrDefaults == [port |-> DefaultPort, host |-> DefaultHost,
                rate |-> DefaultRate, epoch |-> 0]

RuleInit ==
    /\ rs_mem = [i \in RuleIdx |-> BlankRule]
    /\ rs_rule = BlankRule
    /\ rl = [phase |-> 0, src |-> ZeroIp, epoch |-> 0, match |-> FALSE,
             action |-> {}, sev |-> 0, valid |-> FALSE]
    /\ thr = ThrDefaults
    /\ thr_r_val = 0

\* Threshold ids 0 .. 3; any other id is not a register.
ThrField(id) == CASE id = 0 -> "port" [] id = 1 -> "host"
                  [] id = 2 -> "rate" [] id = 3 -> "epoch"

\* The live tap the lookup compares with: the register's low byte.
RuleEpoch == thr.epoch % EpochMod

\* Mutant of ThrClock: no reset.
StickyThrClock(rst, w_en, id, val) ==
    /\ thr_r_val' = IF id \in 0 .. 3 THEN thr[ThrField(id)] ELSE 0
    /\ thr' = IF w_en /\ id \in 0 .. 3 THEN [thr EXCEPT ![ThrField(id)] = val]
                                       ELSE thr

ThrClock(rst, w_en, id, val) ==
    /\ thr_r_val' = IF id \in 0 .. 3 THEN thr[ThrField(id)] ELSE 0
    /\ \/ rst /\ thr' = ThrDefaults
       \/ ~rst /\ w_en /\ id \in 0 .. 3 /\ thr' = [thr EXCEPT ![ThrField(id)] = val]
       \/ ~rst /\ ~(w_en /\ id \in 0 .. 3) /\ thr' = thr

\* No reset and no write-through: a read in the cycle of a write returns the
\* old rule.
StoreClock(w_en, w_idx, rule, r_idx) ==
    /\ rs_mem' = IF w_en THEN [rs_mem EXCEPT ![w_idx] = rule] ELSE rs_mem
    /\ rs_rule' = rs_mem[r_idx]

LookupHits == rs_rule.src = rl.src /\ rs_rule.epoch = rl.epoch

LookupClock(rst, start, src) ==
    \/ /\ rst
       /\ rl' = [rl EXCEPT !.phase = 0, !.match = FALSE, !.action = {},
                           !.sev = 0, !.valid = FALSE]
    \/ /\ ~rst /\ rl.phase = 0 /\ ~start
       /\ rl' = [rl EXCEPT !.valid = FALSE]
    \/ /\ ~rst /\ rl.phase = 0 /\ start
       /\ rl' = [rl EXCEPT !.valid = FALSE, !.phase = 1, !.src = src,
                           !.epoch = RuleEpoch]
    \/ /\ ~rst /\ rl.phase = 1 /\ LookupHits
       /\ rl' = [rl EXCEPT !.valid = TRUE, !.phase = 0, !.match = TRUE,
                           !.action = rs_rule.action, !.sev = rs_rule.sev]
    \/ /\ ~rst /\ rl.phase = 1 /\ ~LookupHits
       /\ rl' = [rl EXCEPT !.valid = TRUE, !.phase = 0, !.match = FALSE,
                           !.action = {}, !.sev = 0]

=============================================================================
