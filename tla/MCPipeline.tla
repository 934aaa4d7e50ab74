----------------------------- MODULE MCPipeline -----------------------------
(***************************************************************************)
(* Small pipelines for TLC: a configure stage, a build stage and an        *)
(* install stage in three phases, one stage that is attached for a single  *)
(* execution, and two or three requests.                                   *)
(***************************************************************************)
EXTENDS Pipeline, TLC

CONSTANTS conf, make, inst, extra

MCPhaseOf    == [s \in Stages |-> (conf :> 1 @@ make :> 2 @@ inst :> 3 @@ extra :> 2)[s]]
MCWhenceOf   == [s \in Stages |-> IF s = extra THEN 0 ELSE 1]
MCPriorityOf == [s \in Stages |-> IF s = extra THEN 1 ELSE 0]
MCLoaded     == <<conf, make, inst>>
MCTwo        == <<make, inst>>
MCShort      == <<conf, make>>
MCChains     == {<<make, inst>>}
NoChains     == {}

\* Requests are interchangeable; the symmetry serves safety runs only.
Interchangeable == Permutations(Requests)

=============================================================================
