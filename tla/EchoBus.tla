------------------------------ MODULE EchoBus ------------------------------
(***************************************************************************)
(* What PROTOCOL.md promises of the link with the echo bitstream: a transfer *)
(* returns the frame of the transfer before.  Of a transfer that noise got  *)
(* into nothing is known of the reply, but its frame arrives whole or not at *)
(* all.                                                                     *)
(***************************************************************************)
CONSTANTS Frame, ZeroFrame

VARIABLES
    out,        \* the frame under way
    held,       \* the frame the next transfer returns
    reply,      \* what the last transfer returned
    dirty       \* the environment's: noise since the transfer began

busVars == <<out, held, reply, dirty>>

Init ==
    /\ {out, held, reply} = {ZeroFrame}
    /\ dirty = FALSE

Begin(f) == out' = f /\ dirty' \in BOOLEAN /\ UNCHANGED <<held, reply>>

Disturb == dirty' = TRUE /\ UNCHANGED <<out, held, reply>>

Transfer ==
    /\ ~dirty
    /\ reply' = held /\ held' = out
    /\ UNCHANGED <<out, dirty>>

Disturbed ==
    /\ dirty
    /\ reply' \in Frame /\ held' \in {held, out}
    /\ UNCHANGED <<out, dirty>>

Reset == dirty /\ held' = ZeroFrame /\ UNCHANGED <<out, reply, dirty>>

Next == \/ \E f \in Frame : Begin(f)
        \/ Disturb \/ Transfer \/ Disturbed \/ Reset

Spec == Init /\ [][Next]_busVars

=============================================================================
