---------------------------- MODULE MCQueueSupervisor ----------------------------
\* QueueSupervisor with two pull requests, the first of which depends on the second.
EXTENDS QueueSupervisor

Depends == (1 :> {2}) @@ (2 :> {})

\* Bound: while a refresh runs, the last mishap can only be its death.
LastIsNotAmidARefresh == mishaps = MaxMishaps => Refreshing("idle")
================================================================================
