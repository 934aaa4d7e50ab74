------------------------------- MODULE MCTask -------------------------------
(***************************************************************************)
(* Small instances of Task for TLC.                                        *)
(***************************************************************************)
EXTENDS Task

CONSTANTS t1, t2, t3

MCTwoTasks == {t1, t2}
MCFirst == {t1}
MCSecond == {t2}
=============================================================================
