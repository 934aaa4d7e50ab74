--------------------------- MODULE MCBuildManager ---------------------------
(***************************************************************************)
(* Two requests and two pipelines: one request waits while the other one   *)
(* runs, and the pipeline is replaced under both.                          *)
(***************************************************************************)
EXTENDS BuildManager

=============================================================================
