----------------------------- MODULE MCTelemetry -----------------------------
(***************************************************************************)
(* Small instances of TelemetryStream: two sources that share a column in   *)
(* one bank but not in the other and may share a register.                  *)
(***************************************************************************)
EXTENDS TelemetryStream

MCIp == {0, 1}
MCCmsHash == [b \in {1, 2} |-> [ip \in MCIp |-> IF b = 1 THEN 0 ELSE ip]]
MCHllHash == [ip \in MCIp |-> 0]
MCHllRank == [ip \in MCIp |-> 1 + ip]
MCOneRank == [ip \in MCIp |-> 1]
MCWeight == [r \in 0 .. 2 |-> 2 ^ (2 - r)]
MCOneWeight == [r \in 0 .. 1 |-> 2 ^ (1 - r)]

=============================================================================
