---------------------------- MODULE MCTaskCache ----------------------------
(***************************************************************************)
(* Two keys and two gets: items replace, expire and evict one another, and *)
(* one get cancels, joins or overtakes what the other one waits for.       *)
(***************************************************************************)
EXTENDS TaskCache

=============================================================================
