-------------------------- MODULE MCNodeObservers --------------------------
(***************************************************************************)
(* NodeObservers for TLC.                                                  *)
(***************************************************************************)
EXTENDS NodeObservers
===========================================================================
