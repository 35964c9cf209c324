---------------------------- MODULE MCRuntimeObserver ----------------------------
\* RuntimeObserver with a daemon and an operator.
EXTENDS RuntimeObserver, TLC

CONSTANTS p, q

Names == p :> "daemon" @@ q :> "operator"
OwnOwner == [x \in Procs |-> Names[x]]
AllOwners == {"daemon", "operator"}

\* What the loop and its commands can read again.  Nobody reads the lane, blocker and turn
\* files, the exit codes, or of a saved state more than whether it is torn: RuntimeHarness's own
\* run is about those.  A copy's stopRequested is set anew before a command saves or reports it.
Unread == {"acquire", "status", "stop", "requested", "resume", "refused", "look"}
WhatIsRead ==
  <<stateFile = Torn, stopFile, lease, pc, action, [x \in Procs |-> lane[x] = None],
    [x \in Procs |-> pc[x] \notin Unread /\ mem[x].stopRequested], outcome, crashes,
    opc, [o \in Observers |-> want[o] = None], limit, cycles, drained>>
================================================================================
