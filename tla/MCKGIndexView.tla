----------------------------- MODULE MCKGIndexView -----------------------------
(***************************************************************************)
(* An instance of KGIndexView for TLC.                                     *)
(***************************************************************************)
EXTENDS KGIndexView, TLC
================================================================================
