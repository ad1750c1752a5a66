-------------------------------- MODULE MCBff --------------------------------
(***************************************************************************)
(* Small instances of Bff for TLC.                                         *)
(***************************************************************************)
EXTENDS Bff

CONSTANTS r1, r2, r3, r4, key, start, qr
=============================================================================
