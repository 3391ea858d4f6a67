--------------------------- MODULE MCOrchestrator ---------------------------
(***************************************************************************)
(* A small instance of Orchestrator: 0.0.0.0 and two sources, with a rule   *)
(* index each.  Source 2 shares its column with the other source in one     *)
(* bank and with the flush frames in the other, so it is overestimated;     *)
(* its bits are the leading bit of the other source's, 2 of 3.              *)
(***************************************************************************)
EXTENDS Orchestrator

MCIp == {0, 2, 3}
MCCmsHash == [b \in {1, 2} |-> [ip \in MCIp |->
                IF b = 1 THEN ip \div 2 ELSE ip \div 3]]
MCApart == [ip \in MCIp |-> ip]
MCCutIp == [ip \in MCIp |-> {k \in MCIp : k <= ip}]

=============================================================================
