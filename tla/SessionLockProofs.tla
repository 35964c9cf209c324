---------------------------- MODULE SessionLockProofs ----------------------------
(******************************************************************************)
(* What holds of the session lock for every set of sessions and every bound,  *)
(* until a session takes a lock over or lets go of one it had not acquired.   *)
(* Releasing without SESSION_LOCK_ID, queueing and crashes are allowed.       *)
(******************************************************************************)
EXTENDS SessionLock, TLAPS

\* A file that somebody has open says who, and reads as no lock.
LEMMA OpenFiles ==
  ASSUME NEW s \in Sessions
  PROVE  /\ Open(s) \notin Lock /\ Open(s) # NoFile /\ Open(s) # Empty
         /\ \A r \in Sessions : Open(s) = Open(r) => s = r
<1>1. Open(s) \notin Lock /\ Open(s) # NoFile /\ Open(s) # Empty
  BY NullsAssumption DEF Open, Opens, Lock
<1>2. ASSUME NEW r \in Sessions, Open(s) = Open(r) PROVE s = r
  <2>1. Open(s).opener = Open(r).opener
    BY <1>2
  <2> QED BY <2>1 DEF Open
<1> QED BY <1>1, <1>2

\* Every variable keeps its type, whatever the sessions do.
THEOREM TypeCorrect == Spec => []TypeOK
<1> USE SessionsAssumption, NullsAssumption DEF TypeOK, Labels, Filling, Opens
<1>1. Init => TypeOK
  BY DEF Init
<1>2. TypeOK /\ [Next]_vars => TypeOK'
  <2> SUFFICES ASSUME TypeOK, [Next]_vars PROVE TypeOK'
    OBVIOUS
  <2> USE DEF Goto, GiveUp, Released, TakesOver, NextAttempt
  <2>1. ASSUME NEW s \in Sessions, StartAcquire(s) PROVE TypeOK'
    <3>1. [id |-> issued + 1, beat |-> now] \in Lock
      BY DEF Lock
    <3> QED BY <2>1, <3>1 DEF StartAcquire
  <2>2. ASSUME NEW s \in Sessions, NEW lock, Judge(s, lock), pc[s] \in {"read", "reread"},
               UNCHANGED <<file, now, lockId, inside, issued, crashes, trespassers>>
        PROVE  TypeOK'
    BY <2>2 DEF Judge
  <2>3. ASSUME NEW s \in Sessions, Read(s) PROVE TypeOK'
    <3>1. [pending[s] EXCEPT !.beat = now] \in Lock
      BY <2>3 DEF Read, Lock
    <3>2. CASE ReadLock = NoRecord
      BY <2>3, <3>1, <3>2 DEF Read
    <3>3. CASE ReadLock # NoRecord
      BY <2>2, <2>3, <3>3 DEF Read
    <3> QED BY <3>2, <3>3
  <2>4. ASSUME NEW s \in Sessions, Create(s) PROVE TypeOK'
    BY <2>4 DEF Create
  <2>5. ASSUME NEW s \in Sessions, ReRead(s) PROVE TypeOK'
    BY <2>2, <2>5 DEF ReRead
  <2>6. ASSUME NEW s \in Sessions, Seize(s) PROVE TypeOK'
    BY <2>6 DEF Seize
  <2>7. ASSUME NEW s \in Sessions, Fill(s) PROVE TypeOK'
    BY <2>7 DEF Fill, Lock
  <2>8. ASSUME NEW s \in Sessions, Heartbeat(s) PROVE TypeOK'
    <3>1. [file EXCEPT !.beat = now] \in Lock
      BY <2>8 DEF Heartbeat, Lock
    <3> QED BY <2>8, <3>1 DEF Heartbeat
  <2>9. ASSUME NEW s \in Sessions, Beat(s) PROVE TypeOK'
    BY <2>9 DEF Beat
  <2>10. ASSUME NEW s \in Sessions, BeatFill(s) PROVE TypeOK'
    BY <2>10 DEF BeatFill
  <2>11. ASSUME NEW s \in Sessions, StartRelease(s) PROVE TypeOK'
    BY <2>11 DEF StartRelease
  <2>12. ASSUME NEW s \in Sessions, LookRelease(s) PROVE TypeOK'
    BY <2>12 DEF LookRelease
  <2>13. ASSUME NEW s \in Sessions, Remove(s) PROVE TypeOK'
    BY <2>13 DEF Remove
  <2>14. ASSUME NEW s \in Sessions, Crash(s) PROVE TypeOK'
    BY <2>14 DEF Crash
  <2>15. CASE Tick
    BY <2>15 DEF Tick
  <2>16. CASE UNCHANGED vars
    BY <2>16 DEF vars
  <2> QED
    BY <2>1, <2>3, <2>4, <2>5, <2>6, <2>7, <2>8, <2>9, <2>10, <2>11, <2>12, <2>13, <2>14,
       <2>15, <2>16 DEF Next, Script
<1> QED BY <1>1, <1>2, PTL DEF Spec

\* Nobody has anything yet.
LEMMA GuardedInit == ASSUME TypeOK, Init PROVE Guarded
BY NullsAssumption
DEF Init, Guarded, ProtectedSessions, FillsItsOwn, BeatsItsOwn, ReleasesItsOwn,
    KnowsWhatItHolds, GuidsAreUnique,
    Filling

\* A step that is no trespass leaves every session's lock guarded.
LEMMA GuardedStep ==
  ASSUME TypeOK, TypeOK', Guarded, [Next]_vars, trespassers' = {}
  PROVE  Guarded'
<1> USE SessionsAssumption, NullsAssumption, OpenFiles
    DEF TypeOK, Guarded, ProtectedSessions, FillsItsOwn, BeatsItsOwn,
        ReleasesItsOwn, KnowsWhatItHolds, GuidsAreUnique, Filling, Goto, GiveUp, Released,
            OpenElsewhere,
        Judge, TakesOver, NextAttempt, ReadLock
<1>1. ASSUME NEW s \in Sessions, StartAcquire(s) PROVE Guarded'
  <2>1. ProtectedSessions'
    BY <1>1 DEF StartAcquire, Lock
  <2>2. FillsItsOwn'
    BY <1>1 DEF StartAcquire, Lock
  <2>3. BeatsItsOwn'
    BY <1>1 DEF StartAcquire, Lock
  <2>4. ReleasesItsOwn'
    BY <1>1 DEF StartAcquire, Lock
  <2>5. KnowsWhatItHolds'
    BY <1>1 DEF StartAcquire, Lock
  <2>6. GuidsAreUnique'
    BY <1>1 DEF StartAcquire, Lock
  <2> QED BY <2>1, <2>2, <2>3, <2>4, <2>5, <2>6
<1>2. ASSUME NEW s \in Sessions, Read(s) PROVE Guarded'
  <2>1. ProtectedSessions'
    BY <1>2 DEF Read, Lock
  <2>2. FillsItsOwn'
    BY <1>2 DEF Read, Lock
  <2>3. BeatsItsOwn'
    BY <1>2 DEF Read, Lock
  <2>4. ReleasesItsOwn'
    BY <1>2 DEF Read, Lock
  <2>5. KnowsWhatItHolds'
    BY <1>2 DEF Read, Lock
  <2>6. GuidsAreUnique'
    BY <1>2 DEF Read, Lock
  <2> QED BY <2>1, <2>2, <2>3, <2>4, <2>5, <2>6
<1>3. ASSUME NEW s \in Sessions, Create(s) PROVE Guarded'
  <2>1. ProtectedSessions'
    BY <1>3 DEF Create, Lock
  <2>2. FillsItsOwn'
    BY <1>3 DEF Create, Lock
  <2>3. BeatsItsOwn'
    BY <1>3 DEF Create, Lock
  <2>4. ReleasesItsOwn'
    BY <1>3 DEF Create, Lock
  <2>5. KnowsWhatItHolds'
    BY <1>3 DEF Create, Lock
  <2>6. GuidsAreUnique'
    BY <1>3 DEF Create, Lock
  <2> QED BY <2>1, <2>2, <2>3, <2>4, <2>5, <2>6
<1>4. ASSUME NEW s \in Sessions, ReRead(s) PROVE Guarded'
  <2>1. ProtectedSessions'
    BY <1>4 DEF ReRead, Lock
  <2>2. FillsItsOwn'
    BY <1>4 DEF ReRead, Lock
  <2>3. BeatsItsOwn'
    BY <1>4 DEF ReRead, Lock
  <2>4. ReleasesItsOwn'
    BY <1>4 DEF ReRead, Lock
  <2>5. KnowsWhatItHolds'
    BY <1>4 DEF ReRead, Lock
  <2>6. GuidsAreUnique'
    BY <1>4 DEF ReRead, Lock
  <2> QED BY <2>1, <2>2, <2>3, <2>4, <2>5, <2>6
<1>5. ASSUME NEW s \in Sessions, Seize(s) PROVE Guarded'
  <2>1. ProtectedSessions'
    BY <1>5 DEF Seize, Lock
  <2>2. FillsItsOwn'
    BY <1>5 DEF Seize, Lock
  <2>3. BeatsItsOwn'
    BY <1>5 DEF Seize, Lock
  <2>4. ReleasesItsOwn'
    BY <1>5 DEF Seize, Lock
  <2>5. KnowsWhatItHolds'
    BY <1>5 DEF Seize, Lock
  <2>6. GuidsAreUnique'
    BY <1>5 DEF Seize, Lock
  <2> QED BY <2>1, <2>2, <2>3, <2>4, <2>5, <2>6
<1>6. ASSUME NEW s \in Sessions, Fill(s) PROVE Guarded'
  <2>1. ProtectedSessions'
    BY <1>6 DEF Fill, Lock
  <2>2. FillsItsOwn'
    BY <1>6 DEF Fill, Lock
  <2>3. BeatsItsOwn'
    BY <1>6 DEF Fill, Lock
  <2>4. ReleasesItsOwn'
    BY <1>6 DEF Fill, Lock
  <2>5. KnowsWhatItHolds'
    BY <1>6 DEF Fill, Lock
  <2>6. GuidsAreUnique'
    BY <1>6 DEF Fill, Lock
  <2> QED BY <2>1, <2>2, <2>3, <2>4, <2>5, <2>6
<1>7. ASSUME NEW s \in Sessions, Heartbeat(s) PROVE Guarded'
  <2>1. ProtectedSessions'
    BY <1>7 DEF Heartbeat, Lock
  <2>2. FillsItsOwn'
    BY <1>7 DEF Heartbeat, Lock
  <2>3. BeatsItsOwn'
    BY <1>7 DEF Heartbeat, Lock
  <2>4. ReleasesItsOwn'
    BY <1>7 DEF Heartbeat, Lock
  <2>5. KnowsWhatItHolds'
    BY <1>7 DEF Heartbeat, Lock
  <2>6. GuidsAreUnique'
    BY <1>7 DEF Heartbeat, Lock
  <2> QED BY <2>1, <2>2, <2>3, <2>4, <2>5, <2>6
<1>8. ASSUME NEW s \in Sessions, Beat(s) PROVE Guarded'
  <2>1. ProtectedSessions'
    BY <1>8 DEF Beat, Lock
  <2>2. FillsItsOwn'
    BY <1>8 DEF Beat, Lock
  <2>3. BeatsItsOwn'
    BY <1>8 DEF Beat, Lock
  <2>4. ReleasesItsOwn'
    BY <1>8 DEF Beat, Lock
  <2>5. KnowsWhatItHolds'
    BY <1>8 DEF Beat, Lock
  <2>6. GuidsAreUnique'
    BY <1>8 DEF Beat, Lock
  <2> QED BY <2>1, <2>2, <2>3, <2>4, <2>5, <2>6
<1>9. ASSUME NEW s \in Sessions, BeatFill(s) PROVE Guarded'
  <2>1. ProtectedSessions'
    BY <1>9 DEF BeatFill, Lock
  <2>2. FillsItsOwn'
    BY <1>9 DEF BeatFill, Lock
  <2>3. BeatsItsOwn'
    BY <1>9 DEF BeatFill, Lock
  <2>4. ReleasesItsOwn'
    BY <1>9 DEF BeatFill, Lock
  <2>5. KnowsWhatItHolds'
    BY <1>9 DEF BeatFill, Lock
  <2>6. GuidsAreUnique'
    BY <1>9 DEF BeatFill, Lock
  <2> QED BY <2>1, <2>2, <2>3, <2>4, <2>5, <2>6
<1>10. ASSUME NEW s \in Sessions, StartRelease(s) PROVE Guarded'
  <2>1. ProtectedSessions'
    BY <1>10 DEF StartRelease, Lock
  <2>2. FillsItsOwn'
    BY <1>10 DEF StartRelease, Lock
  <2>3. BeatsItsOwn'
    BY <1>10 DEF StartRelease, Lock
  <2>4. ReleasesItsOwn'
    BY <1>10 DEF StartRelease, Lock
  <2>5. KnowsWhatItHolds'
    BY <1>10 DEF StartRelease, Lock
  <2>6. GuidsAreUnique'
    BY <1>10 DEF StartRelease, Lock
  <2> QED BY <2>1, <2>2, <2>3, <2>4, <2>5, <2>6
<1>11. ASSUME NEW s \in Sessions, LookRelease(s) PROVE Guarded'
  <2>1. ProtectedSessions'
    BY <1>11 DEF LookRelease, Lock
  <2>2. FillsItsOwn'
    BY <1>11 DEF LookRelease, Lock
  <2>3. BeatsItsOwn'
    BY <1>11 DEF LookRelease, Lock
  <2>4. ReleasesItsOwn'
    BY <1>11 DEF LookRelease, Lock
  <2>5. KnowsWhatItHolds'
    BY <1>11 DEF LookRelease, Lock
  <2>6. GuidsAreUnique'
    BY <1>11 DEF LookRelease, Lock
  <2> QED BY <2>1, <2>2, <2>3, <2>4, <2>5, <2>6
<1>12. ASSUME NEW s \in Sessions, Remove(s) PROVE Guarded'
  <2>1. ProtectedSessions'
    BY <1>12 DEF Remove, Lock
  <2>2. FillsItsOwn'
    BY <1>12 DEF Remove, Lock
  <2>3. BeatsItsOwn'
    BY <1>12 DEF Remove, Lock
  <2>4. ReleasesItsOwn'
    BY <1>12 DEF Remove, Lock
  <2>5. KnowsWhatItHolds'
    BY <1>12 DEF Remove, Lock
  <2>6. GuidsAreUnique'
    BY <1>12 DEF Remove, Lock
  <2> QED BY <2>1, <2>2, <2>3, <2>4, <2>5, <2>6
<1>13. ASSUME NEW s \in Sessions, Crash(s) PROVE Guarded'
  <2>1. ProtectedSessions'
    BY <1>13 DEF Crash, Lock
  <2>2. FillsItsOwn'
    BY <1>13 DEF Crash, Lock
  <2>3. BeatsItsOwn'
    BY <1>13 DEF Crash, Lock
  <2>4. ReleasesItsOwn'
    BY <1>13 DEF Crash, Lock
  <2>5. KnowsWhatItHolds'
    BY <1>13 DEF Crash, Lock
  <2>6. GuidsAreUnique'
    BY <1>13 DEF Crash, Lock
  <2> QED BY <2>1, <2>2, <2>3, <2>4, <2>5, <2>6
<1>14. CASE Tick
  BY <1>14 DEF Tick
<1>15. CASE UNCHANGED vars
  BY <1>15 DEF vars
<1> QED
  BY <1>1, <1>2, <1>3, <1>4, <1>5, <1>6, <1>7, <1>8, <1>9, <1>10, <1>11, <1>12, <1>13, <1>14,
      <1>15 DEF Next, Script

\* Nobody stops trespassing.
LEMMA TrespassStays == ASSUME [Next]_vars, trespassers # {} PROVE trespassers' # {}
BY DEF Next, Script, vars, StartAcquire, Heartbeat, StartRelease, Crash, Tick, Read, Create,
       ReRead, Seize, Fill, Beat, BeatFill, LookRelease, Remove

\* What a session read of the lock still holds when it acts on it, until somebody
\* trespasses.
THEOREM AlwaysGuarded == Spec => []GuardedUntilTrespass
<1>1. TypeOK /\ Init => GuardedUntilTrespass
  BY GuardedInit DEF GuardedUntilTrespass
<1>2. GuardedUntilTrespass /\ TypeOK /\ TypeOK' /\ [Next]_vars => GuardedUntilTrespass'
  BY GuardedStep, TrespassStays DEF GuardedUntilTrespass
<1> QED BY <1>1, <1>2, TypeCorrect, PTL DEF Spec

\* "Combine with session locks to avoid concurrent CLI runners": sessions never run
\* their tests at the same time before one of them trespasses.
THEOREM MutualExclusion == Spec => []OneSessionUntilTrespass
<1>1. TypeOK /\ GuardedUntilTrespass => OneSessionUntilTrespass
  BY OpenFiles
  DEF TypeOK, GuardedUntilTrespass, Guarded, ProtectedSessions, GuidsAreUnique, OneSession,
      OneSessionUntilTrespass
<1> QED BY <1>1, TypeCorrect, AlwaysGuarded, PTL

\* Until then a session's lock is removed and rewritten by that session only, even by
\* the releases that compare no id.
THEOREM OwnersOnly == Spec => OnlyOwnersTouch
<1>1. ASSUME TypeOK, GuardedUntilTrespass, [Next]_vars, file \in Lock, trespassers' = {}
      PROVE  \/ file' = file
             \/ \E s \in Sessions : file.id = lockId[s] /\ file' \in {NoFile, Open(s)}
  <2> SUFFICES ASSUME file' # file
               PROVE  \E s \in Sessions : file.id = lockId[s] /\ file' \in {NoFile, Open(s)}
    OBVIOUS
  <2> USE <1>1, TrespassStays, OpenFiles, NullsAssumption
      DEF GuardedUntilTrespass, Guarded, ProtectedSessions, FillsItsOwn, BeatsItsOwn,
          ReleasesItsOwn, Filling
  <2>1. ASSUME NEW s \in Sessions, Create(s) \/ Seize(s) \/ Fill(s) \/ BeatFill(s) \/ Crash(s)
        PROVE  FALSE
    BY <2>1 DEF Create, Seize, Fill, BeatFill, Crash
  <2>2. ASSUME NEW s \in Sessions, Beat(s) \/ Remove(s)
        PROVE  file.id = lockId[s] /\ file' \in {NoFile, Open(s)}
    BY <2>2 DEF Beat, Remove
  <2>3. ASSUME NEW s \in Sessions,
               StartAcquire(s) \/ Read(s) \/ ReRead(s) \/ Heartbeat(s) \/ StartRelease(s)
                 \/ LookRelease(s)
        PROVE  FALSE
    BY <2>3 DEF StartAcquire, Read, ReRead, Heartbeat, StartRelease, LookRelease
  <2>4. CASE Tick \/ UNCHANGED vars
    BY <2>4 DEF Tick, vars
  <2>5. ASSUME NEW s \in Sessions,
               StartAcquire(s) \/ Heartbeat(s) \/ StartRelease(s) \/ Script(s) \/ Crash(s)
        PROVE  file.id = lockId[s] /\ file' \in {NoFile, Open(s)}
    BY <2>1, <2>2, <2>3, <2>5 DEF Script
  <2> QED BY <1>1, <2>4, <2>5 DEF Next
<1> QED BY <1>1, TypeCorrect, AlwaysGuarded, PTL DEF Spec, OnlyOwnersTouch
================================================================================
