--------------------------- MODULE MCPayloadGuard ---------------------------
(***************************************************************************)
(* A small instance of PayloadGuard for TLC.                               *)
(***************************************************************************)
EXTENDS PayloadGuard, TLC

=============================================================================
