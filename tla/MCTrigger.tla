----------------------------- MODULE MCTrigger -----------------------------
(* Time is in units such that a second is 30: one tooth takes 5 or 6.       *)
EXTENDS Trigger
=============================================================================
