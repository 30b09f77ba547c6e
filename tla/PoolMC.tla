------------------------------- MODULE PoolMC -------------------------------
(***************************************************************************)
(* A small instance of Pool for TLC.                                       *)
(***************************************************************************)
EXTENDS Pool

CONSTANTS u1, u2
=============================================================================
