--------------------------- MODULE MCGuestContext ---------------------------
(***************************************************************************)
(* For TLC: all general registers, as the code has them.                   *)
(***************************************************************************)
EXTENDS GuestContext

AllRegs == 0..30
=============================================================================
