---------------------------- MODULE MCDiagnostics ----------------------------
(***************************************************************************)
(* Two files and two providers: one file shows what the provider of the    *)
(* other one has found, and one provider answers while the other is asked. *)
(***************************************************************************)
EXTENDS Diagnostics

=============================================================================
