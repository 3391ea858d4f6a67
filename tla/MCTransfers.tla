----------------------------- MODULE MCTransfers -----------------------------
(***************************************************************************)
(* The board without btnC, fed in two ways: a few transfers of any frames,  *)
(* or a long stream of two sources that evict each other.  No transfer      *)
(* looks at the menu; it only says what the Pi will send.                   *)
(***************************************************************************)
EXTENDS MCNidsTop

VARIABLE menu

Menus == {[frames |-> AllFrames, most |-> 4],
          [frames |-> StreamFrames, most |-> MaxFrames]}

MenuFrames == AllFrames \cup StreamFrames

FromMenu ==
    frames_left' # frames_left =>
        /\ link'.frame \in menu.frames
        /\ MaxFrames - frames_left < menu.most

MenuSpec ==
    /\ Init /\ menu \in Menus
    /\ [][Next /\ FromMenu /\ UNCHANGED menu]_<<vars, menu>>

=============================================================================
