-------------------------- MODULE MCNodeLifecycle --------------------------
(***************************************************************************)
(* NodeLifecycle for TLC.                                                  *)
(***************************************************************************)
EXTENDS NodeLifecycle
===========================================================================
