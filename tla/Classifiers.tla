----------------------------- MODULE Classifiers -----------------------------
(***************************************************************************)
(* classifiers.v: the bloom filter, the flow table and the rule lookup run  *)
(* in parallel on one packet and finish at different cycles; three done     *)
(* flags collect the results, and the edge that sees all three combines     *)
(* them into a verdict and clears the flags.                                *)
(***************************************************************************)
EXTENDS BloomFilter, FlowTable, RuleLookup

VARIABLES
    cl_done,    \* the done flags: those of "bloom", "flow", "rule" that are set
    cl,         \* latched results of the three stages
    cl_out      \* hit mask, severity, escalate, classify_valid

classifierVars == <<bloomVars, flowVars, ruleVars, cl_done, cl, cl_out>>

Stage == {"bloom", "flow", "rule"}

Severity == 0 .. 3
Verdict == [bloom : BOOLEAN, scan : BOOLEAN, rate : BOOLEAN, rule : BOOLEAN,
            sev : Severity, escalate : BOOLEAN]
Results == [bloom : BOOLEAN, scan : BOOLEAN, rate : BOOLEAN, rule : BOOLEAN,
            action : Action, sev : RuleSev]

CombineTypeOK ==
    /\ cl_done \in SUBSET Stage
    /\ cl \in Results
    /\ cl_out \in [verdict : Verdict, valid : BOOLEAN]

CleanVerdict == [bloom |-> FALSE, scan |-> FALSE, rate |-> FALSE,
                 rule |-> FALSE, sev |-> 0, escalate |-> FALSE]

CombineInit ==
    /\ cl_done = {}
    /\ cl = [bloom |-> FALSE, scan |-> FALSE, rate |-> FALSE, rule |-> FALSE,
             action |-> {}, sev |-> 0]
    /\ cl_out = [verdict |-> CleanVerdict, valid |-> FALSE]

\* The mask of the stages that fired, the larger of classifier and rule
\* severity (two low bits of the latter), and the escalation bit.
Combine(l) ==
    LET own  == IF l.bloom THEN 3 ELSE IF l.scan \/ l.rate THEN 2 ELSE 0
        rule == l.sev % 4
    IN  [bloom |-> l.bloom, scan |-> l.scan, rate |-> l.rate, rule |-> l.rule,
         sev |-> IF own > rule THEN own ELSE rule,
         escalate |-> l.bloom \/ l.scan \/ l.rate \/ l.rule \/ 2 \in l.action]

\* Mutant of Arriving: the flow flag is set by the rule lookup's out_valid.
CrossedArriving == {s \in Stage : \/ s = "bloom" /\ bf.valid
                                  \/ s # "bloom" /\ rl.valid}

\* The stages whose out_valid is high in this cycle.
Arriving == {s \in Stage : \/ s = "bloom" /\ bf.valid
                           \/ s = "flow" /\ ft.valid
                           \/ s = "rule" /\ rl.valid}

\* Mutant of LatchResults: the bloom hit is latched with the flow table's
\* out_valid.
EarlyBloomLatch ==
    cl' = [bloom  |-> IF ft.valid THEN bf.hit ELSE cl.bloom,
           scan   |-> IF ft.valid THEN ft.scan ELSE cl.scan,
           rate   |-> IF ft.valid THEN ft.rate ELSE cl.rate,
           rule   |-> IF rl.valid THEN rl.match ELSE cl.rule,
           action |-> IF rl.valid THEN rl.action ELSE cl.action,
           sev    |-> IF rl.valid THEN rl.sev ELSE cl.sev]

\* Results are latched as they arrive, whether or not the packet is done.
LatchResults ==
    cl' = [bloom  |-> IF bf.valid THEN bf.hit ELSE cl.bloom,
           scan   |-> IF ft.valid THEN ft.scan ELSE cl.scan,
           rate   |-> IF ft.valid THEN ft.rate ELSE cl.rate,
           rule   |-> IF rl.valid THEN rl.match ELSE cl.rule,
           action |-> IF rl.valid THEN rl.action ELSE cl.action,
           sev    |-> IF rl.valid THEN rl.sev ELSE cl.sev]

CombineClock(rst, start) ==
    \/ /\ rst
       /\ cl_done' = {}
       /\ cl_out' = [verdict |-> CleanVerdict, valid |-> FALSE]
       /\ UNCHANGED cl
    \/ /\ ~rst /\ cl_done = Stage
       /\ cl_done' = {}
       /\ cl_out' = [verdict |-> Combine(cl), valid |-> TRUE]
       /\ LatchResults
    \/ /\ ~rst /\ cl_done # Stage
       /\ cl_done' = (IF start THEN {} ELSE cl_done) \cup Arriving
       /\ cl_out' = [cl_out EXCEPT !.valid = FALSE]
       /\ LatchResults

=============================================================================
