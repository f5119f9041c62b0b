----------------------------- MODULE MCIoEvents -----------------------------
(***************************************************************************)
(* Instances of IoEvents for TLC.                                          *)
(***************************************************************************)
EXTENDS IoEvents

Everybody == Users
Nobody == {}
=============================================================================
