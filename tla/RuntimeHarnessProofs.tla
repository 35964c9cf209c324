-------------------------- MODULE RuntimeHarnessProofs --------------------------
(******************************************************************************)
(* What holds of the supervisor commands for every set of processes, lanes    *)
(* and bounds: turns exclude each other and keep the promise of the lease,    *)
(* provided no two processes present the same owner.  Processes may die at    *)
(* any point.                                                                 *)
(******************************************************************************)
EXTENDS RuntimeHarness, TLAPS

\* What the commands do to their copy of the state keeps it a state.
LEMMA StateUpdates ==
  ASSUME NEW m \in State, NEW stop \in BOOLEAN, NEW st \in Statuses
  PROVE  /\ [m EXCEPT !.stopRequested = stop] \in State
         /\ [m EXCEPT !.stopRequested = stop, !.status = st] \in State
         /\ [m EXCEPT !.status = st, !.stopRequested = stop] \in State
BY DEF State

\* Counting a cycle keeps the copy a state, with or without a new lane.
LEMMA CycleUpdates ==
  ASSUME NEW m \in State, NEW stop \in BOOLEAN, NEW st \in Statuses,
         NEW l \in Lanes \cup {None}
  PROVE  /\ [m EXCEPT !.cycle = NextCycle(@), !.stopRequested = stop, !.status = st] \in State
         /\ [m EXCEPT !.cycle = NextCycle(@), !.stopRequested = stop, !.status = st,
                      !.activeLane = l] \in State
<1>1. m.cycle \in Nat
  BY DEF State
<1>2. NextCycle(m.cycle) \in Nat
  BY <1>1, BoundsAssumption DEF NextCycle
<1> QED BY <1>1, <1>2 DEF State

LEMMA TypeStep == TypeOK /\ [Next]_vars => TypeOK'
<1>b. \A n \in Nat : n + 1 \in Nat
  OBVIOUS
<1> USE ProcsAssumption DEF TypeOK, Labels, Actions, Outcomes
<1>a. EmptyState \in State /\ None \in Requests
  BY DEF EmptyState, State, Statuses, Requests
<1>2. TypeOK /\ [Next]_vars => TypeOK'
  <2> SUFFICES ASSUME TypeOK, [Next]_vars PROVE TypeOK'
    OBVIOUS
  <2> USE DEF Goto, Report, Throw, Exit, files
  <2>1. ASSUME NEW p \in Procs, NEW a \in Actions, NEW r \in Requests, Begin(p, a, r)
        PROVE  TypeOK'
    BY <2>1 DEF Begin
  <2>2. ASSUME NEW p \in Procs, Load(p) PROVE TypeOK'
    <3>1. mem' \in [Procs -> State]
      BY <2>2, <1>a DEF Load
    <3>2. pc' \in [Procs -> Labels]
      BY <2>2 DEF Load, FirstLabel
    <3>3. outcome' \in [Procs -> Outcomes]
      BY <2>2 DEF Load
    <3>4. \A q \in Procs : pc'[q] = "lane" => lane'[q] # None
      BY <2>2 DEF Load, FirstLabel
    <3> QED BY <2>2, <3>1, <3>2, <3>3, <3>4 DEF Load
  <2>3. ASSUME NEW p \in Procs, Status(p) PROVE TypeOK'
    <3>1. [mem[p] EXCEPT !.stopRequested = (stopFile = "present")] \in State
      BY StateUpdates DEF Statuses
    <3>2. mem' \in [Procs -> State]
      BY <2>3, <3>1 DEF Status
    <3>3. pc' \in [Procs -> Labels] /\ outcome' \in [Procs -> Outcomes]
      BY <2>3 DEF Status
    <3> QED BY <2>3, <3>2, <3>3 DEF Status
  <2>4. ASSUME NEW p \in Procs, Stop(p) PROVE TypeOK'
    BY <2>4 DEF Stop
  <2>5. ASSUME NEW p \in Procs, Requested(p) PROVE TypeOK'
    <3>1. [mem[p] EXCEPT !.stopRequested = TRUE, !.status = "paused"] \in State
      BY DEF State, Statuses
    <3> QED BY <2>5, <3>1 DEF Requested
  <2>6. ASSUME NEW p \in Procs, Resume(p) PROVE TypeOK'
    <3>1. [mem[p] EXCEPT !.stopRequested = FALSE, !.status = "idle"] \in State
      BY DEF State, Statuses
    <3> QED BY <2>6, <3>1 DEF Resume
  <2>7. ASSUME NEW p \in Procs, Acquire(p) PROVE TypeOK'
    <3>1. lease' = OwnerOf[p] \/ lease' = lease
      BY <2>7 DEF Acquire
    <3>2. OwnerOf[p] \in Owners /\ lease \in Owners \cup {None}
      OBVIOUS
    <3>3. lease' \in Owners \cup {None}
      BY <3>1, <3>2
    <3>4. pc' \in [Procs -> Labels]
      BY <2>7 DEF Acquire
    <3> QED BY <2>7, <3>3, <3>4 DEF Acquire
  <2>8. ASSUME NEW p \in Procs, Refused(p) PROVE TypeOK'
    <3>1. [mem[p] EXCEPT !.status = "blocked", !.stopRequested = (stopFile = "present")]
            \in State
      BY StateUpdates DEF Statuses
    <3>2. mem' \in [Procs -> State]
      BY <2>8, <3>1 DEF Refused
    <3>3. pc' \in [Procs -> Labels] /\ outcome' \in [Procs -> Outcomes]
      BY <2>8 DEF Refused
    <3> QED BY <2>8, <3>2, <3>3 DEF Refused
  <2>9. ASSUME NEW p \in Procs, Look(p) PROVE TypeOK'
    <3>1. mem[p] \in State
      OBVIOUS
    <3>2. mem' \in [Procs -> State]
      <4>1. CASE stopFile = "present"
        <5>1. [mem[p] EXCEPT !.cycle = NextCycle(@), !.stopRequested = TRUE,
                             !.status = "paused"] \in State
          BY <3>1, CycleUpdates DEF Statuses
        <5> QED BY <2>9, <4>1, <5>1 DEF Look
      <4>2. CASE stopFile = "absent" /\ lane[p] # None
        <5>1. lane[p].id \in Lanes
          BY <4>2 DEF Requests
        <5>2. [mem[p] EXCEPT !.cycle = NextCycle(@), !.stopRequested = FALSE,
                             !.status = "running", !.activeLane = lane[p].id] \in State
          BY <3>1, <5>1, CycleUpdates DEF Statuses
        <5>3. mem' = [mem EXCEPT ![p].cycle = NextCycle(@), ![p].stopRequested = FALSE,
                                 ![p].status = "running", ![p].activeLane = lane[p].id]
          BY <2>9, <4>2, NullsAssumption DEF Look
        <5> QED BY <5>2, <5>3
      <4>3. CASE stopFile = "absent" /\ lane[p] = None
        <5>1. [mem[p] EXCEPT !.cycle = NextCycle(@), !.stopRequested = FALSE,
                             !.status = "idle", !.activeLane = None] \in State
          BY <3>1, CycleUpdates DEF Statuses
        <5> QED BY <2>9, <4>3, <5>1 DEF Look
      <4>4. CASE mem' = mem
        BY <4>4
      <4> QED BY <2>9, <4>1, <4>2, <4>3, <4>4 DEF Look
    <3>3. pc' \in [Procs -> Labels] /\ outcome' \in [Procs -> Outcomes]
      BY <2>9 DEF Look
    <3> QED BY <2>9, <3>2, <3>3 DEF Look
  <2>10. ASSUME NEW p \in Procs, WriteLaneArtifact(p) PROVE TypeOK'
    <3>1. lane[p].id \in Lanes
      BY <2>10 DEF WriteLaneArtifact, Requests
    <3> QED BY <2>10, <3>1 DEF WriteLaneArtifact
  <2>11. ASSUME NEW p \in Procs, WriteLastBlocker(p) PROVE TypeOK'
    BY <2>11 DEF WriteLastBlocker, Requests
  <2>12. ASSUME NEW p \in Procs, Save(p) PROVE TypeOK'
    BY <2>12 DEF Save
  <2>13. ASSUME NEW p \in Procs, Write(p) PROVE TypeOK'
    <3>1. stateFile' = mem[p] \/ stateFile' = Torn
      BY <2>13 DEF Write, AfterSave
    <3>2. mem[p] \in State
      OBVIOUS
    <3>3. stateFile' \in State \cup {None, Torn}
      BY <3>1, <3>2
    <3>4. pc' \in [Procs -> Labels]
      BY <2>13 DEF Write, AfterSave
    <3> QED BY <2>13, <3>3, <3>4 DEF Write, AfterSave
  <2>14. ASSUME NEW p \in Procs, WriteTurn(p) PROVE TypeOK'
    <3>1. mem[p].cycle \in Nat
      BY DEF State
    <3> QED BY <2>14, <3>1 DEF WriteTurn
  <2>15. ASSUME NEW p \in Procs, Release(p) PROVE TypeOK'
    BY <2>15 DEF Release
  <2>16. ASSUME NEW p \in Procs, Return(p) PROVE TypeOK'
    BY <2>16, <1>a DEF Return
  <2>17. ASSUME NEW p \in Procs, Crash(p) PROVE TypeOK'
    <3>1. mem' \in [Procs -> State] /\ lane' \in [Procs -> Requests]
      BY <2>17, <1>a DEF Crash
    <3>2. pc' \in [Procs -> Labels] /\ action' \in [Procs -> Actions]
      BY <2>17 DEF Crash
    <3>3. outcome' \in [Procs -> Outcomes]
      BY <2>17 DEF Crash
    <3>4. crashes \in Nat /\ crashes' = crashes + 1
      BY <2>17 DEF Crash
    <3>5. crashes' \in Nat
      BY <3>4, <1>b
    <3> QED BY <2>17, <3>1, <3>2, <3>3, <3>5 DEF Crash
  <2>18. ASSUME NEW p \in Procs, Fails(p) PROVE TypeOK'
    BY <2>18 DEF Fails
  <2>19. ASSUME NEW p \in Procs, ReleaseFails(p) PROVE TypeOK'
    <3>1. crashes \in Nat /\ crashes' = crashes + 1
      BY <2>19 DEF ReleaseFails
    <3>2. crashes' \in Nat
      BY <3>1, <1>b
    <3>3. pc' \in [Procs -> Labels] /\ outcome' \in [Procs -> Outcomes]
      BY <2>19 DEF ReleaseFails
    <3> QED BY <2>19, <3>2, <3>3 DEF ReleaseFails
  <2>20. CASE UNCHANGED vars
    BY <2>20 DEF vars
  <2> QED
    BY <2>1, <2>2, <2>3, <2>4, <2>5, <2>6, <2>7, <2>8, <2>9, <2>10, <2>11,
       <2>12, <2>13, <2>14, <2>15, <2>16, <2>17, <2>18, <2>19, <2>20 DEF Next, Command, Requests
<1> QED BY <1>2

\* Every variable keeps its type.
THEOREM TypeCorrect == Spec => []TypeOK
<1> USE ProcsAssumption DEF TypeOK, Labels, Actions, Outcomes
<1>a. EmptyState \in State /\ None \in Requests
  BY DEF EmptyState, State, Statuses, Requests
<1>1. ASSUME Init PROVE TypeOK
  <2> USE <1>1 DEF Init
  <2>1. stateFile \in State \cup {None, Torn} /\ mem \in [Procs -> State]
    BY <1>a
  <2>2. blockerFile \in Lanes \cup {None} /\ lease \in Owners \cup {None}
    OBVIOUS
  <2>3. pc \in [Procs -> Labels] /\ action \in [Procs -> Actions]
    OBVIOUS
  <2>4. lane \in [Procs -> Requests] /\ outcome \in [Procs -> Outcomes]
    BY <1>a
  <2> QED BY <2>1, <2>2, <2>3, <2>4
<1> QED BY <1>1, TypeStep, PTL DEF Spec

\* A turn holds the lease until its finally block: from there on no other process
\* can have entered one.
LEMMA TurnsStep ==
  ASSUME DistinctOwners, TypeOK, TypeOK', TurnsHoldTheLease, CommandsMatch, [Next]_vars
  PROVE  (TurnsHoldTheLease /\ CommandsMatch)'
<1> USE ProcsAssumption, NullsAssumption
    DEF DistinctOwners, TypeOK, TurnsHoldTheLease, CommandsMatch, InTurn, Goto, Report, Throw,
        Exit, files
<1>1. ASSUME NEW p \in Procs, NEW a \in Actions, NEW r \in Requests, Begin(p, a, r)
      PROVE  (TurnsHoldTheLease /\ CommandsMatch)'
  BY <1>1 DEF Begin
<1>2. ASSUME NEW p \in Procs, Load(p) PROVE (TurnsHoldTheLease /\ CommandsMatch)'
  BY <1>2 DEF Load, FirstLabel, Actions
<1>3. ASSUME NEW p \in Procs, Status(p) PROVE (TurnsHoldTheLease /\ CommandsMatch)'
  BY <1>3 DEF Status
<1>4. ASSUME NEW p \in Procs, Stop(p) PROVE (TurnsHoldTheLease /\ CommandsMatch)'
  BY <1>4 DEF Stop
<1>5. ASSUME NEW p \in Procs, Requested(p) PROVE (TurnsHoldTheLease /\ CommandsMatch)'
  BY <1>5 DEF Requested
<1>6. ASSUME NEW p \in Procs, Resume(p) PROVE (TurnsHoldTheLease /\ CommandsMatch)'
  BY <1>6 DEF Resume
<1>7. ASSUME NEW p \in Procs, Acquire(p) PROVE (TurnsHoldTheLease /\ CommandsMatch)'
  BY <1>7 DEF Acquire
<1>8. ASSUME NEW p \in Procs, Refused(p) PROVE (TurnsHoldTheLease /\ CommandsMatch)'
  BY <1>8 DEF Refused
<1>9. ASSUME NEW p \in Procs, Look(p) PROVE (TurnsHoldTheLease /\ CommandsMatch)'
  BY <1>9 DEF Look
<1>10. ASSUME NEW p \in Procs, WriteLaneArtifact(p) PROVE (TurnsHoldTheLease /\ CommandsMatch)'
  BY <1>10 DEF WriteLaneArtifact
<1>11. ASSUME NEW p \in Procs, WriteLastBlocker(p) PROVE (TurnsHoldTheLease /\ CommandsMatch)'
  BY <1>11 DEF WriteLastBlocker
<1>12. ASSUME NEW p \in Procs, Save(p) PROVE (TurnsHoldTheLease /\ CommandsMatch)'
  BY <1>12 DEF Save
<1>13. ASSUME NEW p \in Procs, Write(p) PROVE (TurnsHoldTheLease /\ CommandsMatch)'
  BY <1>13 DEF Write, AfterSave
<1>14. ASSUME NEW p \in Procs, WriteTurn(p) PROVE (TurnsHoldTheLease /\ CommandsMatch)'
  BY <1>14 DEF WriteTurn
<1>15. ASSUME NEW p \in Procs, Release(p) PROVE (TurnsHoldTheLease /\ CommandsMatch)'
  BY <1>15 DEF Release
<1>16. ASSUME NEW p \in Procs, Return(p) PROVE (TurnsHoldTheLease /\ CommandsMatch)'
  BY <1>16 DEF Return
<1>17. ASSUME NEW p \in Procs, Crash(p) PROVE (TurnsHoldTheLease /\ CommandsMatch)'
  BY <1>17 DEF Crash
<1>21. ASSUME NEW p \in Procs, Fails(p) PROVE (TurnsHoldTheLease /\ CommandsMatch)'
  BY <1>21 DEF Fails
<1>22. ASSUME NEW p \in Procs, ReleaseFails(p) PROVE (TurnsHoldTheLease /\ CommandsMatch)'
  BY <1>22 DEF ReleaseFails
<1>18. CASE UNCHANGED vars
  BY <1>18 DEF vars
<1>19. ASSUME NEW p \in Procs, Command(p) \/ Return(p) \/ Crash(p)
       PROVE  (TurnsHoldTheLease /\ CommandsMatch)'
  BY <1>2, <1>3, <1>4, <1>5, <1>6, <1>7, <1>8, <1>9, <1>10, <1>11, <1>12, <1>13, <1>14,
     <1>15, <1>16, <1>17, <1>19, <1>21, <1>22 DEF Command
<1>20. None \in Requests
  BY DEF Requests
<1> QED BY <1>1, <1>18, <1>19, <1>20 DEF Next, Actions

\* The inductive invariant of the turns.
LEMMA TurnsInvariant == DistinctOwners => (Spec => [](TurnsHoldTheLease /\ CommandsMatch))
<1> SUFFICES ASSUME DistinctOwners PROVE Spec => [](TurnsHoldTheLease /\ CommandsMatch)
  OBVIOUS
<1>1. Init => TurnsHoldTheLease /\ CommandsMatch
  BY DEF Init, TurnsHoldTheLease, CommandsMatch, InTurn
<1>2. TurnsHoldTheLease /\ CommandsMatch /\ TypeOK /\ TypeOK' /\ [Next]_vars
        => (TurnsHoldTheLease /\ CommandsMatch)'
  BY TurnsStep
<1> QED BY <1>1, <1>2, TypeCorrect, PTL DEF Spec

\* "Preserve single-writer safety for files": turns of different processes never
\* overlap, because each works under the lease from its decision to its release.
THEOREM TurnsAreExclusive == DistinctOwners => (Spec => []TurnsHoldTheLease)
BY TurnsInvariant, PTL

\* The turns keep the promise of the lease: seen from outside, a turn takes the
\* scope, writes while it holds it, stops writing and frees it, or dies in between.
THEOREM Refines == DistinctOwners => (Spec => KeepsPromise)
<1> SUFFICES ASSUME DistinctOwners PROVE Spec => KeepsPromise
  OBVIOUS
<1> DEFINE W == {q \in Procs : Writing(q)}
           writers == {OwnerOf[p] : p \in W}
<1>1. Init => Promise!Init
  BY DEF Init, Promise!Init, Writing, InTurn
<1>2. ASSUME TypeOK, TypeOK', TurnsHoldTheLease, CommandsMatch, [Next]_vars
      PROVE  [Promise!Next]_<<lease, writers>>
  <2> USE ProcsAssumption, NullsAssumption
  \* What the steps of a process do to the writers.
  <2> DEFINE OnlyMoves(p) ==
        \A q \in Procs \ {p} :
          pc'[q] = pc[q] /\ action'[q] = action[q] /\ outcome'[q] = outcome[q]
  <2>1. ASSUME NEW p \in Procs, OnlyMoves(p)
        PROVE  W' = IF Writing(p)' THEN W \cup {p} ELSE W \ {p}
    BY <2>1 DEF Writing, InTurn
  <2>2. ASSUME NEW p \in Procs, lease' = lease, W' = W \cup {p}, lease = OwnerOf[p]
        PROVE  [Promise!Next]_<<lease, writers>>
    <3>1. writers' = writers \cup {OwnerOf[p]}
      BY <2>2
    <3> QED BY <2>2, <3>1 DEF Promise!Next, Promise!Enter
  <2>3. ASSUME NEW p \in Procs, lease' = lease, W' = W \ {p}
        PROVE  [Promise!Next]_<<lease, writers>>
    <3>1. CASE p \in W
      <4>1. writers' = writers \ {OwnerOf[p]} /\ OwnerOf[p] \in writers
        BY <2>3, <3>1 DEF DistinctOwners
      <4> QED BY <2>3, <4>1 DEF Promise!Next, Promise!Exit
    <3>2. CASE p \notin W
      <4>1. W' = W
        BY <2>3, <3>2
      <4> QED BY <2>3, <4>1
    <3> QED BY <3>1, <3>2
  <2>4. ASSUME lease' = lease, W' = W PROVE [Promise!Next]_<<lease, writers>>
    BY <2>4
  \* A step that writes, or stops, or does neither, and leaves the lease alone.
  <2>5. ASSUME NEW p \in Procs, lease' = lease, OnlyMoves(p), Writing(p)' => InTurn(p)
        PROVE  [Promise!Next]_<<lease, writers>>
    <3>1. CASE Writing(p)'
      BY <1>2, <2>1, <2>2, <2>5, <3>1 DEF TurnsHoldTheLease
    <3>2. CASE ~Writing(p)'
      BY <2>1, <2>3, <2>5, <3>2
    <3> QED BY <3>1, <3>2
  <2> HIDE DEF W, writers
  <2> USE <1>2 DEF TypeOK, CommandsMatch, Goto, Report, Throw, Exit, Writing, InTurn
  <2>6. ASSUME NEW p \in Procs, NEW a \in Actions, NEW r \in Requests, Begin(p, a, r)
        PROVE  lease' = lease /\ OnlyMoves(p) /\ (Writing(p)' => InTurn(p))
    BY <2>6 DEF Begin
  <2>7. ASSUME NEW p \in Procs, Load(p)
        PROVE  lease' = lease /\ OnlyMoves(p) /\ (Writing(p)' => InTurn(p))
    BY <2>7 DEF Load, FirstLabel, Actions
  <2>8. ASSUME NEW p \in Procs, Status(p)
        PROVE  lease' = lease /\ OnlyMoves(p) /\ (Writing(p)' => InTurn(p))
    BY <2>8 DEF Status
  <2>9. ASSUME NEW p \in Procs, Stop(p)
        PROVE  lease' = lease /\ OnlyMoves(p) /\ (Writing(p)' => InTurn(p))
    BY <2>9 DEF Stop
  <2>10. ASSUME NEW p \in Procs, Requested(p)
        PROVE  lease' = lease /\ OnlyMoves(p) /\ (Writing(p)' => InTurn(p))
    BY <2>10 DEF Requested
  <2>11. ASSUME NEW p \in Procs, Resume(p)
        PROVE  lease' = lease /\ OnlyMoves(p) /\ (Writing(p)' => InTurn(p))
    BY <2>11 DEF Resume
  <2>12. ASSUME NEW p \in Procs, Refused(p)
        PROVE  lease' = lease /\ OnlyMoves(p) /\ (Writing(p)' => InTurn(p))
    BY <2>12 DEF Refused
  <2>13. ASSUME NEW p \in Procs, Look(p)
        PROVE  lease' = lease /\ OnlyMoves(p) /\ (Writing(p)' => InTurn(p))
    BY <2>13 DEF Look
  <2>14. ASSUME NEW p \in Procs, WriteLaneArtifact(p)
        PROVE  lease' = lease /\ OnlyMoves(p) /\ (Writing(p)' => InTurn(p))
    BY <2>14 DEF WriteLaneArtifact
  <2>15. ASSUME NEW p \in Procs, WriteLastBlocker(p)
        PROVE  lease' = lease /\ OnlyMoves(p) /\ (Writing(p)' => InTurn(p))
    BY <2>15 DEF WriteLastBlocker
  <2>16. ASSUME NEW p \in Procs, Save(p)
        PROVE  lease' = lease /\ OnlyMoves(p) /\ (Writing(p)' => InTurn(p))
    BY <2>16 DEF Save
  <2>17. ASSUME NEW p \in Procs, Write(p)
        PROVE  lease' = lease /\ OnlyMoves(p) /\ (Writing(p)' => InTurn(p))
    BY <2>17 DEF Write, AfterSave
  <2>18. ASSUME NEW p \in Procs, WriteTurn(p)
        PROVE  lease' = lease /\ OnlyMoves(p) /\ (Writing(p)' => InTurn(p))
    BY <2>18 DEF WriteTurn
  <2>19. ASSUME NEW p \in Procs, Return(p)
        PROVE  lease' = lease /\ OnlyMoves(p) /\ (Writing(p)' => InTurn(p))
    BY <2>19 DEF Return
  <2>20. ASSUME NEW p \in Procs, Crash(p)
        PROVE  lease' = lease /\ OnlyMoves(p) /\ (Writing(p)' => InTurn(p))
    BY <2>20 DEF Crash
  <2>26. ASSUME NEW p \in Procs, Fails(p)
        PROVE  lease' = lease /\ OnlyMoves(p) /\ (Writing(p)' => InTurn(p))
    BY <2>26 DEF Fails
  <2>27. ASSUME NEW p \in Procs, ReleaseFails(p)
        PROVE  lease' = lease /\ OnlyMoves(p) /\ (Writing(p)' => InTurn(p))
    BY <2>27 DEF ReleaseFails
  <2> USE DEF W, writers
  <2>21. ASSUME NEW p \in Procs, Acquire(p) PROVE [Promise!Next]_<<lease, writers>>
    <3>1. OnlyMoves(p) /\ ~Writing(p)' /\ ~Writing(p)
      BY <2>21 DEF Acquire
    <3>2. W' = W
      BY <2>1, <3>1
    <3>3. lease' = lease \/ (lease = None /\ lease' = OwnerOf[p])
      BY <2>21 DEF Acquire
    <3> QED BY <3>2, <3>3 DEF Promise!Next, Promise!Take
  <2>22. ASSUME NEW p \in Procs, Release(p) PROVE [Promise!Next]_<<lease, writers>>
    <3>1. OnlyMoves(p) /\ ~Writing(p)' /\ ~Writing(p)
      BY <2>22 DEF Release
    <3>2. W' = W /\ p \notin W
      BY <2>1, <3>1
    <3>3. lease = OwnerOf[p] /\ lease' = None
      BY <2>22 DEF Release, TurnsHoldTheLease
    <3>4. OwnerOf[p] \notin writers
      BY <3>2 DEF DistinctOwners
    <3> QED BY <3>2, <3>3, <3>4 DEF Promise!Next, Promise!Free
  <2>23. CASE UNCHANGED vars
    BY <2>4, <2>23 DEF vars
  <2>24. ASSUME NEW p \in Procs, Command(p) \/ Return(p) \/ Crash(p)
        PROVE  [Promise!Next]_<<lease, writers>>
    BY <2>5, <2>7, <2>8, <2>9, <2>10, <2>11, <2>12, <2>13, <2>14, <2>15, <2>16, <2>17, <2>18,
       <2>19, <2>20, <2>21, <2>22, <2>24, <2>26, <2>27 DEF Command
  <2>25. None \in Requests
    BY DEF Requests
  <2> QED BY <2>5, <2>6, <2>23, <2>24, <2>25 DEF Next, Actions
<1> QED BY <1>1, <1>2, TypeCorrect, TurnsInvariant, PTL DEF Spec, KeepsPromise, Promise!Spec

--------------------------------------------------------------------------------
\* What a command is at says what it is, a step past its decision is not refused, and a failed
\* command has nothing left but its finally block.
CommandsFit ==
  \A p \in Procs :
    /\ pc[p] \in {"acquire", "refused", "look", "lane", "blocker", "turn", "release"}
         => action[p] = "step"
    /\ pc[p] \in {"lane", "blocker", "turn"} => outcome[p] # "lease-blocked"
    /\ outcome[p] = "error" => pc[p] \in {"release", "done"}

\* What the files name, and what a copy of the state would make them name, is on file; the copy
\* of a failed command is not saved.
FilesFit ==
  /\ LanesAreOnFile
  /\ \A p \in Procs :
       /\ pc[p] = "lane" => mem[p].activeLane = lane[p].id
       /\ pc[p] # "lane" /\ outcome[p] # "error" => mem[p].activeLane \in laneFiles \cup {None}
       /\ pc[p] = "blocker" => lane[p] = None \/ lane[p].id \in laneFiles

\* Until somebody dies, a lease that is held is held by a turn.
HeldInTurn ==
  crashes = 0 => \A p \in Procs : lease = OwnerOf[p] => InTurn(p)

FilesInvariant == CommandsFit /\ FilesFit

LEMMA FilesInit == Init => FilesInvariant /\ HeldInTurn
<1> SUFFICES ASSUME Init PROVE FilesInvariant /\ HeldInTurn
  OBVIOUS
<1>1. CommandsFit
  BY DEF Init, CommandsFit
<1>2. EmptyState.activeLane = None /\ None \notin State
  BY NullsAssumption DEF EmptyState
<1>3. FilesFit
  BY <1>2 DEF Init, FilesFit, LanesAreOnFile
<1>4. HeldInTurn
  BY ProcsAssumption, NullsAssumption DEF Init, HeldInTurn
<1> QED BY <1>1, <1>3, <1>4 DEF FilesInvariant

\* The end of a process leaves an empty copy of the state.
LEMMA FilesExit ==
  ASSUME TypeOK, FilesInvariant, NEW p \in Procs, Exit(p), UNCHANGED files
  PROVE  FilesInvariant'
<1>1. CommandsFit'
  BY DEF FilesInvariant, CommandsFit, TypeOK, Exit, Goto, Report
<1>2. EmptyState.activeLane = None
  BY DEF EmptyState
<1>3. FilesFit'
  BY <1>2 DEF FilesInvariant, FilesFit, LanesAreOnFile, TypeOK, Exit, Goto, Report, files
<1> QED BY <1>1, <1>3 DEF FilesInvariant

LEMMA FilesStep ==
  ASSUME TypeOK, TypeOK', FilesInvariant, [Next]_vars
  PROVE  FilesInvariant'
<1> USE DEF FilesInvariant, CommandsFit, FilesFit, LanesAreOnFile, TypeOK, Goto, Report, Throw,
            files
<1>1. ASSUME NEW p \in Procs, NEW a \in Actions, NEW r \in Requests, Begin(p, a, r)
      PROVE  FilesInvariant'
  BY <1>1 DEF Begin
<1>2. ASSUME NEW p \in Procs, Load(p) PROVE FilesInvariant'
  BY <1>2, NullsAssumption DEF Load, FirstLabel, EmptyState, Actions, InTurn
<1>3. ASSUME NEW p \in Procs, Status(p) PROVE FilesInvariant'
  <2>1. \A q \in Procs : mem'[q].activeLane = mem[q].activeLane
    BY <1>3 DEF Status, State
  <2>2. CommandsFit'
    BY <1>3 DEF Status, InTurn
  <2>3. FilesFit'
    BY <1>3, <2>1 DEF Status
  <2> QED BY <2>2, <2>3
<1>4. ASSUME NEW p \in Procs, Stop(p) PROVE FilesInvariant'
  BY <1>4 DEF Stop
<1>5. ASSUME NEW p \in Procs, Requested(p) PROVE FilesInvariant'
  BY <1>5 DEF Requested, State
<1>6. ASSUME NEW p \in Procs, Resume(p) PROVE FilesInvariant'
  BY <1>6 DEF Resume, State
<1>7. ASSUME NEW p \in Procs, Acquire(p) PROVE FilesInvariant'
  BY <1>7 DEF Acquire
<1>8. ASSUME NEW p \in Procs, Refused(p) PROVE FilesInvariant'
  <2>1. \A q \in Procs : mem'[q].activeLane = mem[q].activeLane
    BY <1>8 DEF Refused, State
  <2>2. CommandsFit'
    BY <1>8 DEF Refused, InTurn
  <2>3. FilesFit'
    BY <1>8, <2>1 DEF Refused
  <2> QED BY <2>2, <2>3
<1>9. ASSUME NEW p \in Procs, Look(p) PROVE FilesInvariant'
  BY <1>9 DEF Look, State
<1>10. ASSUME NEW p \in Procs, WriteLaneArtifact(p) PROVE FilesInvariant'
  BY <1>10 DEF WriteLaneArtifact
<1>11. ASSUME NEW p \in Procs, WriteLastBlocker(p) PROVE FilesInvariant'
  BY <1>11 DEF WriteLastBlocker
<1>12. ASSUME NEW p \in Procs, Save(p) PROVE FilesInvariant'
  BY <1>12, NullsAssumption DEF Save
<1>13. ASSUME NEW p \in Procs, Write(p) PROVE FilesInvariant'
  <2>1. /\ pc' = [pc EXCEPT ![p] = AfterSave(p)] /\ pc[p] = "write"
        /\ UNCHANGED <<blockerFile, laneFiles, turnFiles, action, lane, mem, outcome>>
        /\ stateFile' = mem[p] \/ stateFile' = Torn
    BY <1>13 DEF Write
  <2>2. mem[p].activeLane \in laneFiles \cup {None} /\ Torn \notin State
    BY <2>1, NullsAssumption
  <2>3. LanesAreOnFile'
    BY <2>1, <2>2
  <2>4. CommandsFit'
    BY <2>1 DEF AfterSave
  <2>5. FilesFit'
    BY <2>1, <2>3 DEF AfterSave
  <2> QED BY <2>4, <2>5
<1>14. ASSUME NEW p \in Procs, WriteTurn(p) PROVE FilesInvariant'
  BY <1>14 DEF WriteTurn
<1>15. ASSUME NEW p \in Procs, Release(p) PROVE FilesInvariant'
  BY <1>15 DEF Release
<1>16. ASSUME NEW p \in Procs, Return(p) \/ Crash(p) PROVE FilesInvariant'
  BY <1>16, FilesExit DEF Return, Crash
<1>19. ASSUME NEW p \in Procs, Fails(p) PROVE FilesInvariant'
  BY <1>19 DEF Fails, HasWrites, InTurn, AfterSave
<1>20. ASSUME NEW p \in Procs, ReleaseFails(p) PROVE FilesInvariant'
  BY <1>20 DEF ReleaseFails
<1>17. CASE UNCHANGED vars
  BY <1>17 DEF vars
<1>18. None \in Requests
  BY DEF Requests
<1> QED
  BY <1>1, <1>2, <1>3, <1>4, <1>5, <1>6, <1>7, <1>8, <1>9, <1>10, <1>11, <1>12, <1>13, <1>14,
     <1>15, <1>16, <1>17, <1>18, <1>19, <1>20 DEF Next, Command, Actions

LEMMA AlwaysFilesFit == Spec => []FilesInvariant
<1>1. Init => FilesInvariant
  BY FilesInit
<1>2. TypeOK /\ TypeOK' /\ FilesInvariant /\ [Next]_vars => FilesInvariant'
  BY FilesStep
<1> QED BY <1>1, <1>2, TypeCorrect, PTL DEF Spec

\* "Make every turn restartable from durable state": whoever writes last and wherever it dies,
\* the lanes that the state file and the last blocker name have their artifacts.
THEOREM LanesOnFile == Spec => []LanesAreOnFile
<1>1. FilesInvariant => LanesAreOnFile
  BY DEF FilesInvariant, FilesFit
<1> QED BY <1>1, AlwaysFilesFit, PTL

\* The turns give the lease back, as long as nobody dies.
LEMMA HeldStep ==
  ASSUME DistinctOwners, TypeOK, TypeOK', CommandsFit, HeldInTurn, [Next]_vars
  PROVE  HeldInTurn'
<1> USE ProcsAssumption, NullsAssumption
    DEF DistinctOwners, CommandsFit, TypeOK, HeldInTurn, InTurn, Goto, Report, Throw, Exit, files
<1>1. ASSUME NEW p \in Procs, NEW a \in Actions, NEW r \in Requests, Begin(p, a, r)
      PROVE  HeldInTurn'
  BY <1>1 DEF Begin
<1>2. ASSUME NEW p \in Procs, Load(p) \/ Status(p) \/ Stop(p) \/ Requested(p) \/ Resume(p)
      PROVE  HeldInTurn'
  BY <1>2 DEF Load, Status, Stop, Requested, Resume
<1>3. ASSUME NEW p \in Procs, Acquire(p) \/ Refused(p) PROVE HeldInTurn'
  BY <1>3 DEF Acquire, Refused
<1>4. ASSUME NEW p \in Procs, Look(p) \/ WriteLaneArtifact(p) \/ WriteLastBlocker(p)
      PROVE  HeldInTurn'
  BY <1>4 DEF Look, WriteLaneArtifact, WriteLastBlocker
<1>5. ASSUME NEW p \in Procs, Save(p) \/ Write(p) \/ WriteTurn(p) PROVE HeldInTurn'
  BY <1>5 DEF Save, Write, AfterSave, WriteTurn
<1>6. ASSUME NEW p \in Procs, Release(p) PROVE HeldInTurn'
  BY <1>6 DEF Release
<1>7. ASSUME NEW p \in Procs, Return(p) PROVE HeldInTurn'
  BY <1>7 DEF Return
<1>8. ASSUME NEW p \in Procs, Crash(p) PROVE HeldInTurn'
  <2>1. crashes \in Nat /\ crashes' = crashes + 1
    BY <1>8 DEF Crash
  <2>2. crashes' # 0
    BY <2>1
  <2> QED BY <2>2
<1>11. ASSUME NEW p \in Procs, Fails(p) PROVE HeldInTurn'
  BY <1>11 DEF Fails
<1>12. ASSUME NEW p \in Procs, ReleaseFails(p) PROVE HeldInTurn'
  <2>1. crashes \in Nat /\ crashes' = crashes + 1
    BY <1>12 DEF ReleaseFails
  <2>2. crashes' # 0
    BY <2>1
  <2> QED BY <2>2
<1>9. CASE UNCHANGED vars
  BY <1>9 DEF vars
<1>10. None \in Requests
  BY DEF Requests
<1> QED
  BY <1>1, <1>2, <1>3, <1>4, <1>5, <1>6, <1>7, <1>8, <1>9, <1>10, <1>11, <1>12
  DEF Next, Command, Actions

LEMMA AlwaysHeldInTurn == DistinctOwners => (Spec => []HeldInTurn)
<1> SUFFICES ASSUME DistinctOwners PROVE Spec => []HeldInTurn
  OBVIOUS
<1>1. Init => HeldInTurn
  BY FilesInit
<1>2. TypeOK /\ TypeOK' /\ FilesInvariant /\ HeldInTurn /\ [Next]_vars => HeldInTurn'
  BY HeldStep DEF FilesInvariant
<1> QED BY <1>1, <1>2, AlwaysFilesFit, TypeCorrect, PTL DEF Spec

--------------------------------------------------------------------------------
\* However a turn ends, its lease is back, unless its process died: every way out of
\* runStepAction's turn leads through the finally block.
THEOREM TurnsReleased == DistinctOwners => (Spec => TurnsEndReleased)
<1> SUFFICES ASSUME DistinctOwners PROVE Spec => TurnsEndReleased
  OBVIOUS
<1>1. ASSUME TypeOK, CommandsFit, CommandsMatch, [Next]_vars,
             NEW p \in Procs, InTurn(p), ~InTurn(p)'
      PROVE  lease' # OwnerOf[p] \/ crashes' > crashes
  <2> USE <1>1, ProcsAssumption, NullsAssumption
      DEF TypeOK, InTurn, CommandsFit, CommandsMatch, Goto, Report, Throw, Exit
  <2>1. ASSUME NEW q \in Procs, Release(q) PROVE lease' # OwnerOf[p]
    BY <2>1 DEF Release
  <2>2. ASSUME NEW q \in Procs, Crash(q) PROVE crashes' > crashes
    <3>1. crashes \in Nat /\ crashes' = crashes + 1
      BY <2>2 DEF Crash
    <3> QED BY ONLY <3>1
  <2>3. ASSUME NEW q \in Procs, NEW a \in Actions, NEW r \in Requests, Begin(q, a, r)
        PROVE  FALSE
    BY <2>3 DEF Begin
  <2>4. ASSUME NEW q \in Procs,
               \/ Load(q) \/ Status(q) \/ Stop(q) \/ Requested(q) \/ Resume(q) \/ Acquire(q)
               \/ Refused(q) \/ Return(q)
        PROVE  FALSE
    BY <2>4 DEF Load, Status, Stop, Requested, Resume, Acquire, Refused, Return
  <2>5. ASSUME NEW q \in Procs, Look(q) PROVE FALSE
    BY <2>5 DEF Look
  <2>6. ASSUME NEW q \in Procs, WriteLaneArtifact(q) \/ WriteLastBlocker(q) PROVE FALSE
    BY <2>6 DEF WriteLaneArtifact, WriteLastBlocker
  <2>7. ASSUME NEW q \in Procs, Save(q) \/ Write(q) \/ WriteTurn(q) PROVE FALSE
    BY <2>7 DEF Save, Write, AfterSave, WriteTurn
  <2>10. ASSUME NEW q \in Procs, Fails(q) PROVE FALSE
    BY <2>10 DEF Fails
  <2>11. ASSUME NEW q \in Procs, ReleaseFails(q) PROVE crashes' > crashes
    <3>1. crashes \in Nat /\ crashes' = crashes + 1
      BY <2>11 DEF ReleaseFails
    <3> QED BY ONLY <3>1
  <2>8. ~UNCHANGED vars
    BY DEF vars
  <2>9. None \in Requests
    BY DEF Requests
  <2> QED
    BY <2>1, <2>2, <2>3, <2>4, <2>5, <2>6, <2>7, <2>8, <2>9, <2>10, <2>11
    DEF Next, Command, Actions
<1>2. TypeOK /\ CommandsFit /\ CommandsMatch /\ [Next]_vars
        => \A p \in Procs :
             InTurn(p) /\ ~InTurn(p)' => lease' # OwnerOf[p] \/ crashes' > crashes
  BY <1>1
<1>3. FilesInvariant => CommandsFit
  BY DEF FilesInvariant
<1> QED BY <1>2, <1>3, AlwaysFilesFit, TypeCorrect, TurnsInvariant, PTL DEF Spec, TurnsEndReleased

\* A step gets to its artifacts with a decision to track a lane or to idle.
Decided ==
  \A p \in Procs : pc[p] \in {"lane", "blocker"} => outcome[p] \in {"lane-tracked", "idle"}

LEMMA DecidedStep == TypeOK /\ Decided /\ [Next]_vars => Decided'
<1> SUFFICES ASSUME TypeOK, Decided, [Next]_vars PROVE Decided'
  OBVIOUS
<1> USE DEF TypeOK, Decided, Goto, Report, Throw, Exit
<1>1. ASSUME NEW p \in Procs, NEW a \in Actions, NEW r \in Requests, Begin(p, a, r)
      PROVE  Decided'
  BY <1>1 DEF Begin
<1>2. ASSUME NEW p \in Procs, Load(p) PROVE Decided'
  BY <1>2 DEF Load, FirstLabel, Actions
<1>3. ASSUME NEW p \in Procs,
             Status(p) \/ Stop(p) \/ Requested(p) \/ Resume(p) \/ Acquire(p) \/ Refused(p)
      PROVE  Decided'
  BY <1>3 DEF Status, Stop, Requested, Resume, Acquire, Refused
<1>4. ASSUME NEW p \in Procs, Look(p) \/ WriteLaneArtifact(p) \/ WriteLastBlocker(p)
      PROVE  Decided'
  BY <1>4 DEF Look, WriteLaneArtifact, WriteLastBlocker
<1>5. ASSUME NEW p \in Procs, Save(p) \/ Write(p) \/ WriteTurn(p) \/ Release(p) PROVE Decided'
  BY <1>5 DEF Save, Write, AfterSave, WriteTurn, Release
<1>9. ASSUME NEW p \in Procs, Fails(p) \/ ReleaseFails(p) PROVE Decided'
  BY <1>9 DEF Fails, ReleaseFails
<1>6. ASSUME NEW p \in Procs, Return(p) \/ Crash(p) PROVE Decided'
  BY <1>6 DEF Return, Crash
<1>7. CASE UNCHANGED vars
  BY <1>7 DEF vars
<1>8. None \in Requests
  BY DEF Requests
<1> QED BY <1>1, <1>2, <1>3, <1>4, <1>5, <1>6, <1>7, <1>8, <1>9 DEF Next, Command, Actions

\* Lane and blocker files change only under the lease and never in a turn that saw the stop
\* request: refused steps and the other commands write the state file and nothing beside it.
THEOREM ArtifactsAreGuarded == DistinctOwners => (Spec => GuardedArtifacts)
<1> SUFFICES ASSUME DistinctOwners PROVE Spec => GuardedArtifacts
  OBVIOUS
<1> DEFINE Guarding ==
      \E p \in Procs :
        InTurn(p) /\ lease = OwnerOf[p] /\ outcome[p] \in {"lane-tracked", "idle"}
<1>1. Init => Decided
  BY DEF Init, Decided
<1>2. ASSUME Decided, TurnsHoldTheLease, [Next]_vars
      PROVE  UNCHANGED <<laneFiles, blockerFile>> \/ Guarding
  <2>1. ASSUME NEW p \in Procs, WriteLaneArtifact(p) \/ WriteLastBlocker(p) PROVE Guarding
    BY <1>2, <2>1 DEF WriteLaneArtifact, WriteLastBlocker, Decided, TurnsHoldTheLease, InTurn
  <2>2. ASSUME ~\E p \in Procs : WriteLaneArtifact(p) \/ WriteLastBlocker(p)
        PROVE  UNCHANGED <<laneFiles, blockerFile>>
    BY <1>2, <2>2
    DEF Next, Begin, Command, Load, Status, Stop, Requested, Resume, Acquire, Refused, Look,
        Save, Write, WriteTurn, Release, Fails, ReleaseFails, Return, Crash, files, vars
  <2> QED BY <2>1, <2>2
<1> QED
  BY <1>1, <1>2, DecidedStep, TypeCorrect, TurnsInvariant, PTL DEF Spec, GuardedArtifacts
================================================================================
