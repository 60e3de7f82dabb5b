------------------------------ MODULE MCUpdater ------------------------------
(***************************************************************************)
(* Updater with one head after the first release, an owner who may deploy  *)
(* that first release again, and one drill.                                *)
(***************************************************************************)
EXTENDS Updater
=============================================================================
