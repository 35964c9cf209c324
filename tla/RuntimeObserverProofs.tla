------------------------- MODULE RuntimeObserverProofs -------------------------
(******************************************************************************)
(* What holds of the daemon for every set of observers and operators, every   *)
(* lane and every cycle limit: a stop request drains it within two turns, and *)
(* no exit of the loop leaves the lease behind.  Daemons and commands may     *)
(* fail or be killed at any point.                                            *)
(******************************************************************************)
EXTENDS RuntimeObserver, RuntimeHarnessProofs

LEMMA LoopInitType == LoopInit => LoopTypeOK
<1> SUFFICES ASSUME LoopInit PROVE LoopTypeOK
  OBVIOUS
<1>1. TypeOK
  <2>1. EmptyState \in State /\ None \in Requests
    BY DEF EmptyState, State, Statuses, Requests
  <2> QED BY <2>1, ProcsAssumption DEF LoopInit, Init, TypeOK, Labels, Actions, Outcomes
<1>2. 0 \in 0..MaxCycles /\ None \in Requests
  BY OptionsAssumption DEF Requests
<1> QED BY <1>1, <1>2 DEF LoopInit, LoopTypeOK, LoopLabels

\* Where a daemon is between its steps, its command is over.
LoopFits ==
  \A o \in Observers :
    /\ opc[o] \notin {"stepping", "execute"} => pc[o] = "idle"
    /\ opc[o] = "execute" => pc[o] = "done" /\ outcome[o] \notin {"error", "lease-blocked"}
    /\ opc[o] = "stepping" =>
         action[o] = "step" /\ pc[o] \notin {"status", "stop", "requested", "resume"}

\* What a daemon or an operator does to the files, the lease and its command is a step of
\* RuntimeHarness or leaves all of them alone.
LEMMA HarnessSteps ==
  ASSUME LoopTypeOK, LoopFits, [LoopNext]_allVars
  PROVE  [Next]_vars
<1> USE ObserversAssumption DEF LoopTypeOK
<1>1. ASSUME NEW o \in Observers, Plan(o) \/ PrepareWorker(o) \/ BootstrapWorker(o)
             \/ ActivateWorker(o) \/ Launch(o)
      PROVE  UNCHANGED vars
  BY <1>1 DEF Plan, PrepareWorker, BootstrapWorker, ActivateWorker, Hook, Launch
<1>2. ASSUME NEW o \in Observers, Step(o) PROVE Next
  <2>1. want[o] \in Requests /\ o \in Procs
    OBVIOUS
  <2> QED BY <1>2, <2>1 DEF Step, Next
<1>3. ASSUME NEW o \in Observers, Stepping(o) PROVE Next
  BY <1>3 DEF Stepping, Next
<1>4. ASSUME NEW o \in Observers, pc[o] = "done", Exit(o), UNCHANGED <<files, lease, crashes>>
      PROVE  Next
  BY <1>4 DEF Return, Next
<1>5. ASSUME NEW o \in Observers, StepThrew(o) \/ StepReturned(o) \/ ExecutionFailed(o)
             \/ Executed(o)
      PROVE  [Next]_vars
  BY <1>4, <1>5 DEF StepThrew, StepReturned, ExecutionFailed, Executed, Settle, LoopFits
<1>6. ASSUME NEW p \in Procs \ Observers, Operator(p) PROVE Next
  <2>1. None \in Requests
    BY DEF Requests
  <2> QED BY <1>6, <2>1 DEF Operator, Next, Actions
<1>7. ASSUME NEW o \in Observers, Kill(o) PROVE Next
  BY <1>7 DEF Kill, Crash, Next
<1>8. CASE UNCHANGED allVars
  BY <1>8 DEF allVars, codeVars
<1> QED BY <1>1, <1>2, <1>3, <1>5, <1>6, <1>7, <1>8 DEF LoopNext, LoopStep, ObserverStep

\* What each step does to the loop's own variables.
LEMMA LeaveType ==
  ASSUME LoopTypeOK, NEW o \in Observers, NEW code \in ExitCodes \cup {None}, Leave(o, code)
  PROVE  /\ opc' \in [Observers -> LoopLabels]
         /\ want' \in [Observers -> Requests]
         /\ limit' \in [Observers -> {0, MaxCycles}]
         /\ cycles' \in [Observers -> 0..MaxCycles]
         /\ exitCode' \in [Observers -> ExitCodes \cup {None}]
<1>1. 0 \in 0..MaxCycles /\ None \in Requests
  BY OptionsAssumption DEF Requests
<1> QED BY <1>1 DEF Leave, At, LoopTypeOK, LoopLabels

LEMMA LoopTypeStep ==
  ASSUME LoopTypeOK, LoopFits, [LoopNext]_allVars
  PROVE  LoopTypeOK'
<1> USE OptionsAssumption, ObserversAssumption DEF LoopTypeOK
<1>1. TypeOK' /\ drained' \in [Observers -> 0..3]
  <2>1. drained' = drained \/ CountDrained
    BY DEF LoopNext, allVars
  <2> QED BY <2>1, HarnessSteps, TypeStep DEF CountDrained
<1>2. ASSUME NEW o \in Observers, NEW code \in ExitCodes \cup {None}, Leave(o, code)
      PROVE  LoopTypeOK'
  BY <1>1, <1>2, LeaveType
<1>3. ASSUME NEW o \in Observers, Launch(o) PROVE LoopTypeOK'
  BY <1>1, <1>3 DEF Launch, At, LoopLabels
<1>4. ASSUME NEW o \in Observers, Plan(o) PROVE LoopTypeOK'
  <2>1. None \in Requests
    BY DEF Requests
  <2> QED BY <1>1, <1>2, <1>4, <2>1 DEF Plan, Decide, At, LoopLabels, ExitCodes
<1>5. ASSUME NEW o \in Observers, PrepareWorker(o) \/ BootstrapWorker(o) \/ ActivateWorker(o)
      PROVE  LoopTypeOK'
  BY <1>1, <1>2, <1>5
  DEF PrepareWorker, BootstrapWorker, ActivateWorker, Hook, At, LoopLabels, ExitCodes
<1>6. ASSUME NEW o \in Observers, Step(o) \/ Stepping(o) PROVE LoopTypeOK'
  BY <1>1, <1>6 DEF Step, Stepping, At, LoopLabels, loopVars
<1>7. ASSUME NEW o \in Observers, NEW receipt \in Receipts, NEW completed \in 0..MaxCycles,
             Settle(o, receipt, completed)
      PROVE  LoopTypeOK'
  <2>1. \/ \E code \in ExitCodes : Leave(o, code)
        \/ /\ At(o, "plan")
           /\ want' = [want EXCEPT ![o] = None]
           /\ cycles' = [cycles EXCEPT ![o] = completed]
           /\ UNCHANGED <<limit, exitCode>>
    BY <1>7 DEF Settle, ExitCodes, Receipts
  <2> QED BY <1>1, <1>2, <1>7, <2>1 DEF At, LoopLabels, Requests
<1>8. ASSUME NEW o \in Observers, StepThrew(o) \/ ExecutionFailed(o) \/ Kill(o) PROVE LoopTypeOK'
  BY <1>1, <1>2, <1>8 DEF StepThrew, ExecutionFailed, Kill, ExitCodes
<1>9. ASSUME NEW o \in Observers, StepReturned(o) PROVE LoopTypeOK'
  <2>1. CountCycle(o) \in 0..MaxCycles
    BY DEF CountCycle
  <2> QED BY <1>1, <1>7, <1>9, <2>1 DEF StepReturned, At, LoopLabels, Receipts
<1>10. ASSUME NEW o \in Observers, Executed(o) PROVE LoopTypeOK'
  BY <1>7, <1>10 DEF Executed
<1>11. ASSUME NEW p \in Procs \ Observers, Operator(p) PROVE LoopTypeOK'
  BY <1>1, <1>11 DEF Operator, loopVars
<1>12. CASE UNCHANGED allVars
  BY <1>1, <1>12 DEF allVars, codeVars, loopVars
<1> QED
  BY <1>3, <1>4, <1>5, <1>6, <1>8, <1>9, <1>10, <1>11, <1>12 DEF LoopNext, LoopStep, ObserverStep

LEMMA LoopFitsStep ==
  ASSUME LoopTypeOK, LoopFits, [LoopNext]_allVars
  PROVE  LoopFits'
<1> USE ObserversAssumption DEF LoopTypeOK, LoopFits, TypeOK, At, Goto, Report
<1>1. ASSUME NEW o \in Observers, NEW code, Leave(o, code), Exit(o) \/ UNCHANGED vars,
             opc[o] \notin {"stepping", "execute"} \/ Exit(o)
      PROVE  LoopFits'
  <2>1. opc'[o] = "exited" /\ pc'[o] = "idle"
    BY <1>1 DEF Leave, Exit, vars
  <2>2. \A q \in Observers \ {o} :
          /\ opc'[q] = opc[q] /\ want'[q] = want[q]
          /\ pc'[q] = pc[q] /\ outcome'[q] = outcome[q]
          /\ action'[q] = action[q] /\ lane'[q] = lane[q]
    BY <1>1 DEF Leave, Exit, vars
  <2> QED BY <2>1, <2>2
<1>2. ASSUME NEW o \in Observers, Launch(o) PROVE LoopFits'
  BY <1>2 DEF Launch, vars
<1>3. ASSUME NEW o \in Observers, Plan(o) PROVE LoopFits'
  <2>1. ASSUME NEW request \in Requests, NEW label \in {"prepare", "step"},
               Decide(o, request, label), UNCHANGED vars
        PROVE  LoopFits'
    BY <1>3, <2>1 DEF Plan, Decide, vars
  <2> QED BY <1>1, <1>3, <2>1 DEF Plan
<1>4. ASSUME NEW o \in Observers, PrepareWorker(o) \/ BootstrapWorker(o) \/ ActivateWorker(o)
      PROVE  LoopFits'
  <2>1. UNCHANGED vars /\ opc[o] \in {"prepare", "bootstrap", "activate"}
    BY <1>4 DEF PrepareWorker, BootstrapWorker, ActivateWorker, Hook
  <2>2. \/ \E code : Leave(o, code)
        \/ /\ \E label \in {"bootstrap", "activate", "step"} : At(o, label)
           /\ UNCHANGED want
    BY <1>4 DEF PrepareWorker, BootstrapWorker, ActivateWorker, Hook
  <2> QED BY <1>1, <2>1, <2>2 DEF vars
<1>5. ASSUME NEW o \in Observers, Step(o) PROVE LoopFits'
  BY <1>5 DEF Step, Begin
<1>6. ASSUME NEW o \in Observers, Stepping(o) PROVE LoopFits'
  <2>1. /\ action' = action /\ lane' = lane
        /\ \A q \in Procs \ {o} : pc'[q] = pc[q] /\ outcome'[q] = outcome[q]
    BY <1>6
    DEF Stepping, Command, Load, Status, Stop, Requested, Resume, Acquire, Refused, Look,
        WriteLaneArtifact, WriteLastBlocker, Save, Write, WriteTurn, Release, Fails,
        ReleaseFails, Throw
  <2>2. pc'[o] \notin {"status", "stop", "requested", "resume"}
    BY <1>6
    DEF Stepping, Command, Load, FirstLabel, Status, Stop, Requested, Resume, Acquire, Refused,
        Look, WriteLaneArtifact, WriteLastBlocker, Save, Write, AfterSave, WriteTurn, Release,
        Fails, ReleaseFails, Throw
  <2> QED BY <1>6, <2>1, <2>2 DEF Stepping, loopVars
<1>7. ASSUME NEW o \in Observers, NEW receipt \in Receipts, NEW completed,
             Settle(o, receipt, completed)
      PROVE  LoopFits'
  <2>1. Exit(o)
    BY <1>7 DEF Settle
  <2>2. (\E code : Leave(o, code)) \/ (At(o, "plan") /\ want' = [want EXCEPT ![o] = None])
    BY <1>7 DEF Settle, Receipts
  <2> QED BY <1>1, <2>1, <2>2 DEF Exit
<1>8. ASSUME NEW o \in Observers, StepThrew(o) \/ ExecutionFailed(o) \/ Kill(o) PROVE LoopFits'
  BY <1>1, <1>8 DEF StepThrew, ExecutionFailed, Kill
<1>9. ASSUME NEW o \in Observers, StepReturned(o) PROVE LoopFits'
  <2>1. CASE Executes(o)
    BY <1>9, <2>1 DEF StepReturned, Executes, vars
  <2>2. CASE ~Executes(o)
    BY <1>7, <1>9, <2>2 DEF StepReturned, Receipts
  <2> QED BY <2>1, <2>2
<1>10. ASSUME NEW o \in Observers, Executed(o) PROVE LoopFits'
  BY <1>7, <1>10 DEF Executed
<1>11. ASSUME NEW p \in Procs \ Observers, Operator(p) PROVE LoopFits'
  <2>1. \A q \in Procs \ {p} : /\ pc'[q] = pc[q] /\ outcome'[q] = outcome[q]
                             /\ action'[q] = action[q] /\ lane'[q] = lane[q]
    <3>1. CASE Command(p)
      BY <3>1
      DEF Command, Load, Status, Stop, Requested, Resume, Acquire, Refused, Look,
          WriteLaneArtifact, WriteLastBlocker, Save, Write, WriteTurn, Release, Fails,
          ReleaseFails, Throw
    <3>2. CASE ~Command(p)
      BY <1>11, <3>2 DEF Operator, Begin, Return, Crash, Exit
    <3> QED BY <3>1, <3>2
  <2> QED BY <1>11, <2>1 DEF Operator, loopVars
<1>12. CASE UNCHANGED allVars
  BY <1>12 DEF allVars, codeVars, vars, loopVars
<1> QED
  BY <1>2, <1>3, <1>4, <1>5, <1>6, <1>8, <1>9, <1>10, <1>11, <1>12
  DEF LoopNext, LoopStep, ObserverStep

LEMMA LoopInvariant == LoopSpec => [](LoopTypeOK /\ LoopFits)
<1>1. LoopInit => LoopTypeOK /\ LoopFits
  <2>1. ASSUME LoopInit PROVE LoopFits
    <3>1. \A o \in Observers : opc[o] = "exited" /\ pc[o] = "idle"
      BY <2>1, ObserversAssumption DEF LoopInit, Init
    <3> QED BY <3>1 DEF LoopFits
  <2> QED BY <2>1, LoopInitType
<1>2. LoopTypeOK /\ LoopFits /\ [LoopNext]_allVars => (LoopTypeOK /\ LoopFits)'
  BY LoopTypeStep, LoopFitsStep
<1> QED BY <1>1, <1>2, PTL DEF LoopSpec

\* Every variable of the daemon keeps its type.
THEOREM LoopTypeCorrect == LoopSpec => []LoopTypeOK
BY LoopInvariant, PTL

--------------------------------------------------------------------------------
(******************************************************************************)
(* The daemon and the operators run the commands of RuntimeHarness and do     *)
(* nothing else to the runtime directory or the lease, so what is proved of   *)
(* the commands holds of them.                                                *)
(******************************************************************************)
\* Every behaviour of the loop is one of the supervisor commands: a cycle is a command step,
\* and the planner, the hooks and the execution touch no file and no lease.
THEOREM DaemonRunsCommands == LoopSpec => Spec
<1>1. LoopInit => Init
  BY DEF LoopInit
<1>2. LoopTypeOK /\ LoopFits /\ [LoopNext]_allVars => [Next]_vars
  BY HarnessSteps
<1> QED BY <1>1, <1>2, LoopInvariant, PTL DEF LoopSpec, Spec

\* With distinct owners the turns of daemons and operators exclude each other and keep the
\* promise of the lease, whoever is killed and wherever.
THEOREM DaemonKeepsPromise ==
  DistinctOwners => (LoopSpec => KeepsPromise /\ []TurnsHoldTheLease)
BY DaemonRunsCommands, Refines, TurnsAreExclusive

\* A daemon's turn gives its lease back unless it was killed in it, and lane and blocker files
\* change only under the lease, beside operators that pause, resume and step.
THEOREM DaemonTurnsReleased ==
  DistinctOwners => (LoopSpec => TurnsEndReleased /\ GuardedArtifacts)
BY DaemonRunsCommands, TurnsReleased, ArtifactsAreGuarded

\* A daemon that is launched again finds the lanes of the state file and of the last blocker on
\* file, wherever the one before it was killed.
THEOREM DaemonLanesOnFile == LoopSpec => []LanesAreOnFile
BY DaemonRunsCommands, LanesOnFile

\* Whichever of its exits a daemon takes, and wherever it is between two steps, it holds no
\* lease, provided owners are distinct and nobody was killed.
THEOREM NoLeaseIsLeft == DistinctOwners => (LoopSpec => []LeavesNoLease)
<1> SUFFICES ASSUME DistinctOwners PROVE LoopSpec => []LeavesNoLease
  OBVIOUS
<1>1. LoopTypeOK /\ LoopFits /\ HeldInTurn => LeavesNoLease
  BY ObserversAssumption DEF LoopFits, HeldInTurn, InTurn, LeavesNoLease
<1> QED BY <1>1, DaemonRunsCommands, AlwaysHeldInTurn, LoopInvariant, PTL

--------------------------------------------------------------------------------
(******************************************************************************)
(* The drain.  While a stop request stands, a step that begins sees it, so    *)
(* its turn is the last one that is executed.                                 *)
(******************************************************************************)
DrainFits ==
  \A o \in Observers : drained[o] # 0 =>
    /\ stopFile = "present"
    /\ opc[o] = "stepping" =>
         \/ pc[o] \in {"load", "acquire", "refused", "look"}
         \/ mem[o].stopRequested
         \/ outcome[o] = "error"
    /\ drained[o] # 1 => drained[o] = 2 /\ opc[o] = "execute" /\ mem[o].stopRequested

\* What a daemon does itself.
OwnStep(o) == ObserverStep(o) \/ Launch(o) \/ Kill(o)

\* Nobody else moves a daemon.
LEMMA Bystanders ==
  ASSUME LoopTypeOK, LoopStep, NEW o \in Observers, ~OwnStep(o)
  PROVE  UNCHANGED <<opc[o], pc[o], mem[o], outcome[o]>>
<1> USE ObserversAssumption DEF LoopTypeOK, TypeOK, At, Goto, Report, Exit
<1>1. ASSUME NEW q \in Procs \ {o}, Command(q)
      PROVE  UNCHANGED <<pc[o], mem[o], outcome[o]>>
  BY <1>1
  DEF Command, Load, Status, Stop, Requested, Resume, Acquire, Refused, Look,
      WriteLaneArtifact, WriteLastBlocker, Save, Write, WriteTurn, Release, Fails,
      ReleaseFails, Throw
<1>2. ASSUME NEW q \in Procs \ Observers, Operator(q)
      PROVE  UNCHANGED <<opc[o], pc[o], mem[o], outcome[o]>>
  BY <1>1, <1>2 DEF Operator, Begin, Return, Crash, loopVars
<1>3. ASSUME NEW q \in Observers \ {o}, Settle(q, "none", CountCycle(q)) \/ Executed(q)
      PROVE  UNCHANGED <<opc[o], pc[o], mem[o], outcome[o]>>
  BY <1>3 DEF Settle, Executed, Leave, Receipts
<1>4. ASSUME NEW q \in Observers \ {o}, Stepping(q) \/ Step(q)
      PROVE  UNCHANGED <<opc[o], pc[o], mem[o], outcome[o]>>
  BY <1>1, <1>4 DEF Stepping, Step, Begin, loopVars
<1>5. ASSUME NEW q \in Observers \ {o},
             \/ Plan(q) \/ PrepareWorker(q) \/ BootstrapWorker(q) \/ ActivateWorker(q)
             \/ Launch(q) \/ Kill(q) \/ StepThrew(q) \/ ExecutionFailed(q)
      PROVE  UNCHANGED <<opc[o], pc[o], mem[o], outcome[o]>>
  BY <1>5
  DEF Plan, Decide, PrepareWorker, BootstrapWorker, ActivateWorker, Hook, Launch, Kill,
      StepThrew, ExecutionFailed, Leave, vars
<1>6. ASSUME NEW q \in Observers \ {o}, StepReturned(q)
      PROVE  UNCHANGED <<opc[o], pc[o], mem[o], outcome[o]>>
  BY <1>3, <1>6 DEF StepReturned, vars
<1> QED BY <1>2, <1>3, <1>4, <1>5, <1>6 DEF LoopStep, OwnStep, ObserverStep

\* From its begin a step under a standing request comes to see it.
LEMMA SteppingDrains ==
  ASSUME LoopTypeOK, LoopFits, NEW o \in Observers, Stepping(o), stopFile = "present",
         \/ pc[o] \in {"load", "acquire", "refused", "look"}
         \/ mem[o].stopRequested
         \/ outcome[o] = "error"
  PROVE  \/ pc'[o] \in {"load", "acquire", "refused", "look"}
         \/ mem'[o].stopRequested
         \/ outcome'[o] = "error"
<1> USE ObserversAssumption, NullsAssumption DEF LoopTypeOK, TypeOK, Goto, Report, Throw, Stepping
<1>1. action[o] = "step" /\ stopFile # Torn
  BY DEF LoopFits
<1>2. CASE Load(o)
  BY <1>1, <1>2 DEF Load, FirstLabel
<1>3. CASE Acquire(o)
  BY <1>3 DEF Acquire
<1>4. CASE Refused(o)
  BY <1>1, <1>4 DEF Refused, State
<1>5. CASE Look(o)
  BY <1>1, <1>5 DEF Look, State
<1>6. CASE Fails(o) \/ ReleaseFails(o)
  BY <1>6 DEF Fails, ReleaseFails
<1>7. ~(Status(o) \/ Stop(o) \/ Requested(o) \/ Resume(o))
  BY DEF LoopFits, Status, Stop, Requested, Resume
<1>8. CASE WriteLaneArtifact(o) \/ WriteLastBlocker(o) \/ Save(o) \/ Write(o)
           \/ WriteTurn(o) \/ Release(o)
  BY <1>8 DEF WriteLaneArtifact, WriteLastBlocker, Save, Write, WriteTurn, Release
<1> QED BY <1>2, <1>3, <1>4, <1>5, <1>6, <1>7, <1>8 DEF Command

LEMMA DrainStep ==
  ASSUME LoopTypeOK, LoopFits, DrainFits, LoopNext
  PROVE  DrainFits'
<1> SUFFICES ASSUME NEW o \in Observers, drained'[o] # 0
             PROVE  /\ stopFile' = "present"
                    /\ opc'[o] = "stepping" =>
                         \/ pc'[o] \in {"load", "acquire", "refused", "look"}
                         \/ mem'[o].stopRequested
                         \/ outcome'[o] = "error"
                    /\ drained'[o] # 1 =>
                         drained'[o] = 2 /\ opc'[o] = "execute" /\ mem'[o].stopRequested
  BY DEF DrainFits
<1> USE ObserversAssumption DEF LoopTypeOK, TypeOK, At
<1>1. stopFile' = "present" /\ opc'[o] # "exited"
  BY DEF LoopNext, CountDrained
<1>2. \/ opc[o] # "execute" /\ opc'[o] = "execute" /\ drained'[o] \in {drained[o], drained[o] + 1}
      \/ ~(opc[o] # "execute" /\ opc'[o] = "execute") /\ drained'[o] = drained[o]
  BY DEF LoopNext, CountDrained
<1>3. CASE ~OwnStep(o)
  <2>1. UNCHANGED <<opc[o], pc[o], mem[o], outcome[o]>>
    BY <1>3, Bystanders DEF LoopNext
  <2>2. drained'[o] = drained[o]
    BY <1>2, <2>1
  <2> QED BY <1>1, <2>1, <2>2 DEF DrainFits
<1>4. CASE Plan(o) \/ PrepareWorker(o) \/ BootstrapWorker(o) \/ ActivateWorker(o) \/ Launch(o)
  <2>1. opc[o] \notin {"stepping", "execute"} /\ opc'[o] \notin {"stepping", "execute"}
    BY <1>1, <1>4
    DEF Plan, Decide, PrepareWorker, BootstrapWorker, ActivateWorker, Hook, Launch, Leave
  <2>2. drained'[o] = drained[o]
    BY <1>2, <2>1
  <2> QED BY <1>1, <2>1, <2>2 DEF DrainFits
<1>5. CASE Step(o)
  <2>1. opc[o] = "step" /\ opc'[o] = "stepping" /\ pc'[o] = "load"
    BY <1>5 DEF Step, Begin, Goto
  <2>2. drained'[o] = drained[o]
    BY <1>2, <2>1
  <2> QED BY <1>1, <2>1, <2>2 DEF DrainFits
<1>6. CASE Stepping(o)
  <2>1. opc[o] = "stepping" /\ opc'[o] = "stepping"
    BY <1>6 DEF Stepping, loopVars
  <2>2. drained'[o] = drained[o]
    BY <1>2, <2>1
  <2> QED BY <1>1, <1>6, <2>1, <2>2, SteppingDrains DEF DrainFits
\* The end of a cycle: with the request seen there is no other.
<1>7. ASSUME NEW receipt \in Receipts, NEW completed, Settle(o, receipt, completed)
      PROVE  opc'[o] = "plan" /\ ~mem[o].stopRequested /\ outcome[o] # "lease-blocked"
  BY <1>1, <1>7 DEF Settle, SawStop, Leave, Receipts
<1>8. CASE StepThrew(o) \/ ExecutionFailed(o) \/ Kill(o)
  BY <1>1, <1>8 DEF StepThrew, ExecutionFailed, Kill, Leave
<1>9. CASE StepReturned(o)
  <2>1. opc[o] = "stepping" /\ pc[o] = "done" /\ outcome[o] # "error"
    BY <1>9 DEF StepReturned
  <2>2. CASE Executes(o)
    <3>1. opc'[o] = "execute" /\ mem' = mem
      BY <1>9, <2>2 DEF StepReturned, vars
    <3>2. drained[o] # 0 => drained[o] = 1 /\ mem[o].stopRequested
      BY <2>1 DEF DrainFits
    <3>3. CASE drained[o] = 0
      BY <1>1, <1>2, <3>1, <3>3
    <3>4. CASE drained[o] # 0
      BY <1>1, <1>2, <3>1, <3>2, <3>4
    <3> QED BY <3>3, <3>4
  <2>3. CASE ~Executes(o)
    <3>1. Settle(o, "none", CountCycle(o)) /\ "none" \in Receipts
      BY <1>9, <2>3 DEF StepReturned, Receipts
    <3>2. opc'[o] = "plan"
      BY <1>7, <3>1
    <3>3. drained'[o] = drained[o]
      BY <1>2, <3>2
    <3> QED BY <1>1, <2>1, <3>2, <3>3 DEF DrainFits
  <2> QED BY <2>2, <2>3
<1>10. CASE Executed(o)
  <2>1. opc[o] = "execute" /\ opc'[o] = "plan" /\ ~mem[o].stopRequested
    BY <1>7, <1>10 DEF Executed
  <2>2. drained'[o] = drained[o]
    BY <1>2, <2>1
  <2> QED BY <1>1, <2>1, <2>2 DEF DrainFits
<1> QED BY <1>3, <1>4, <1>5, <1>6, <1>8, <1>9, <1>10 DEF OwnStep, ObserverStep

\* Under a stop request that stands a daemon goes on to execute two turns at most, for any
\* number of daemons and operators and wherever anybody fails or is killed.
THEOREM DaemonsDrain == LoopSpec => []StopDrains
<1>1. LoopInit => DrainFits
  BY DEF LoopInit, DrainFits
<1>2. LoopTypeOK /\ LoopFits /\ DrainFits /\ [LoopNext]_allVars => DrainFits'
  <2>1. ASSUME DrainFits, UNCHANGED allVars PROVE DrainFits'
    BY <2>1 DEF DrainFits, allVars, codeVars, loopVars, vars, files
  <2> QED BY <2>1, DrainStep
<1>3. LoopTypeOK /\ DrainFits => StopDrains
  BY DEF LoopTypeOK, DrainFits, StopDrains
<1> QED BY <1>1, <1>2, <1>3, LoopInvariant, PTL DEF LoopSpec
================================================================================
