---------------------------- MODULE MCTaskExchange ----------------------------
(* TaskExchange for TLC: model values for tasks and performers come from the cfg. *)
EXTENDS TaskExchange, TLC

\* Performers are interchangeable; tasks are not, by Timed and Events.
PerformerSymmetry == Permutations(Performers)
=============================================================================
