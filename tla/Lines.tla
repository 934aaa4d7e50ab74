-------------------------------- MODULE Lines --------------------------------
(***************************************************************************)
(* What the queues and the array of stages are filtered with: the loops    *)
(* that unlink the entries of a list that match, and leave the others in   *)
(* their order.  (SelectSeq would do, but it is recursive.)                *)
(***************************************************************************)
EXTENDS Naturals, Sequences, FiniteSets

\* The elements of line that are in S, in the order of line.
Keep(line, S) ==
    LET at      == {i \in DOMAIN line : line[i] \in S}
        Rank(i) == Cardinality({j \in at : j <= i})
    IN  [n \in 1..Cardinality(at) |-> line[CHOOSE i \in at : Rank(i) = n]]

=============================================================================
