------------------------------ MODULE MCController ------------------------------
(* The Controller on small instances: a few event directories and ticks.   *)
EXTENDS Controller, TLC

\* Event directories are interchangeable (safety runs only).
Symmetry == Permutations(Event)
=============================================================================
