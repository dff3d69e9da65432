------------------------------- MODULE Inputs -------------------------------
(* What a function without state of its own is given: one state for each      *)
(* input that is looked at, and one in which there is none yet.               *)
VARIABLE input      \* of which function, and its arguments

Idle == input = [of |-> "nothing"]
=============================================================================
