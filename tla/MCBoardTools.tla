---------------------------- MODULE MCBoardTools ----------------------------
(***************************************************************************)
(* Small instances of BoardTools: windows of four frames, four bloom words, *)
(* an address kept, one dropped and one added by the hot load.              *)
(***************************************************************************)
EXTENDS BoardTools

MCIp == 0 .. 97
MCHash1 == [ip \in MCIp |-> [word |-> ip % 4, bit |-> (ip \div 4) % 2]]
MCHash2 == [ip \in MCIp |-> [word |-> (ip \div 2) % 4, bit |-> (ip \div 8) % 2]]
MCFlowBucket == [ip \in MCIp |-> IF ip = 97 THEN 96 ELSE ip]
MCFlowFp == [ip \in MCIp |-> ip]
MCPortBit == [p \in 1 .. 3 |-> p]
MCHostBit == [ip \in MCIp |-> ip % 8]
MCRuleHash == [ip \in MCIp |-> ip % 2]
MCOthers == {Syn(SrcA, 1, 2), Udp(22, 24)}

=============================================================================
