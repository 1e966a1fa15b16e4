----------------------------- MODULE MCEventPipeline -----------------------------
(* The pipeline on small instances.                                        *)
EXTENDS EventPipeline, TLC

\* Recipients are interchangeable (safety runs only).
Symmetry == Permutations(Recipient)
=============================================================================
