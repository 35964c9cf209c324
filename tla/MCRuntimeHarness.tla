---------------------------- MODULE MCRuntimeHarness ----------------------------
\* RuntimeHarness with the processes of different sessions.
EXTENDS RuntimeHarness, TLC

CONSTANTS p, q

Names == p :> "daemon" @@ q :> "operator"
OwnOwner == [x \in Procs |-> Names[x]]
AllOwners == {"daemon", "operator"}

\* What later steps can read: nobody reads the status of a saved or loaded state, and its
\* stopRequested is set anew before a command saves or reports it.
Unread == {"acquire", "status", "stop", "requested", "resume", "refused", "look"}
Saved == IF stateFile \in {None, Torn} THEN stateFile ELSE <<stateFile.cycle, stateFile.activeLane>>
Copies == [x \in Procs |-> <<mem[x].cycle, mem[x].activeLane,
                             pc[x] \notin Unread /\ mem[x].stopRequested>>]
WhatIsRead == <<Saved, stopFile, blockerFile, laneFiles, turnFiles, lease, pc, action, lane,
                Copies, outcome, crashes>>
================================================================================
