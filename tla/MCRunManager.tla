---------------------------- MODULE MCRunManager ----------------------------
(***************************************************************************)
(* Two runs and two pipelines: a run that is stopped while its pipeline is *)
(* replaced, and the next one.                                             *)
(***************************************************************************)
EXTENDS RunManager

=============================================================================
