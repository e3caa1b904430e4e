--------------------------- MODULE MCMembership ---------------------------
(***************************************************************************)
(* Membership for TLC.                                                     *)
(***************************************************************************)
EXTENDS Membership
===========================================================================
