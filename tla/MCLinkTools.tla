----------------------------- MODULE MCLinkTools -----------------------------
(***************************************************************************)
(* Frames of three bits.  The first clock is slow enough, the second is not. *)
(***************************************************************************)
EXTENDS LinkTools

MCFrames == <<<<0, 0, 1>>, <<1, 0, 1>>, <<1, 1, 0>>>>
MCRandom == <<<<1, 0, 1>>, <<0, 1, 1>>, <<1, 1, 0>>>>
MCClocks == <<3, 2>>

=============================================================================
