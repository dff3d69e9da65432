---------------------------- MODULE MCTaskSending ----------------------------
(* Values for TLC: one extracted task, and one the user may add *)
EXTENDS TaskSending

CONSTANTS a, b, w1, w2

OneTask == <<a>>
=============================================================================
