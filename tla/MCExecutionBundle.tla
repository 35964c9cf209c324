--------------------------- MODULE MCExecutionBundle ---------------------------
(* Two agents whose bundles interleave; they are interchangeable. *)
EXTENDS ExecutionBundle, TLC

\* A behaviour ends with the first lost change; what is still promised of the other file
\* afterwards is proved.
NothingLost == lost = {}

Symmetry == Permutations(Agents)
================================================================================
