------------------------------- MODULE MCPiBus -------------------------------
(***************************************************************************)
(* A small instance of PiBus: 0.0.0.0 and two sources, which share a column *)
(* in one bank; the flush frames share none.  The leading bit of source 3   *)
(* makes source 2, which nobody but the telemetry check sends.              *)
(***************************************************************************)
EXTENDS PiBus

MCIp == {0, 2, 3}
MCCmsHash == [b \in {1, 2} |-> [ip \in MCIp |->
                IF b = 1 THEN ip \div 2 ELSE ip]]
MCApart == [ip \in MCIp |-> ip]
MCCutIp == [ip \in MCIp |-> {k \in MCIp : k <= ip}]
MCStream == <<3, 3, 2>>
MCQueries == <<3, 2>>

=============================================================================
