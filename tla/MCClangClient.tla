---------------------------- MODULE MCClangClient ----------------------------
(***************************************************************************)
(* One file, two queries and two processes: a query is pending or in       *)
(* flight when the server it was meant for is replaced by the other one.   *)
(***************************************************************************)
EXTENDS ClangClient, TLC

=============================================================================
