--------------------------- MODULE WriterLeaseProofs ---------------------------
(******************************************************************************)
(* What holds of the writer lease for every set of clients and every bound,   *)
(* provided the clients are Cooperative (no takeover, no failing rename, one  *)
(* client per owner string; crashes and restarts are allowed) or Attended     *)
(* (one of them takes over, and no rename has failed yet).                    *)
(******************************************************************************)
EXTENDS WriterLease, TLAPS

\* A blank file is neither missing nor a lease.
LEMMA BlankIsNotLease ==
  ASSUME NEW c \in Clients
  PROVE  Blank(c) \notin Lease /\ Blank(c) # NoFile
BY NullsAssumption DEF Blank, Blanks, Lease

\* A blank file names its creator.
LEMMA BlankCreator ==
  ASSUME NEW c \in Clients, NEW d \in Clients, Blank(c) = Blank(d)
  PROVE  c = d
<1>1. Blank(c).creator = Blank(d).creator
  OBVIOUS
<1> QED BY <1>1 DEF Blank

\* Every variable keeps its type, whatever the clients do.
THEOREM TypeCorrect == Spec => []TypeOK
<1> USE OwnersAssumption, NullsAssumption DEF TypeOK, IsLease, Labels, Writing
<1>1. Init => TypeOK
  BY DEF Init
<1>2. TypeOK /\ [Next]_vars => TypeOK'
  <2> SUFFICES ASSUME TypeOK, [Next]_vars PROVE TypeOK'
    OBVIOUS
  <2> USE DEF Goto, Fail, Succeed, Retry, Busy, FreshLease, bounds
  <2>1. ASSUME NEW c \in Clients, StartAcquire(c) PROVE TypeOK'
    BY <2>1 DEF StartAcquire, Lease
  <2>2. ASSUME NEW c \in Clients, StartHeartbeat(c) PROVE TypeOK'
    BY <2>2 DEF StartHeartbeat
  <2>3. ASSUME NEW c \in Clients, StartRelease(c) PROVE TypeOK'
    BY <2>3 DEF StartRelease
  <2>4. ASSUME NEW c \in Clients, CreateOnly(c) PROVE TypeOK'
    <3>1. pending[c] \in Lease /\ [pending[c] EXCEPT !.id = issued + 1] \in Lease
      BY <2>4 DEF CreateOnly, Lease
    <3>2. pending' \in [Clients -> {NoLease} \cup Lease]
      BY <2>4, <3>1 DEF CreateOnly
    <3>3. \A d \in Clients : pc'[d] \in Writing => pending'[d] \in Lease
      BY <2>4, <3>1 DEF CreateOnly
    <3> QED BY <2>4, <3>2, <3>3 DEF CreateOnly, Blanks
  <2>5. ASSUME NEW c \in Clients, Fill(c) PROVE TypeOK'
    <3>1. pending[c] \in Lease /\ pending[c].id \in Nat
      BY <2>5 DEF Fill, Lease
    <3> QED BY <2>5, <3>1 DEF Fill
  <2>6. ASSUME NEW c \in Clients, LookRace(c) PROVE TypeOK'
    BY <2>6 DEF LookRace, Lease
  <2>7. ASSUME NEW c \in Clients, LookOwn(c) PROVE TypeOK'
    BY <2>7 DEF LookOwn, Lease
  <2>8. ASSUME NEW c \in Clients, LookStale(c) PROVE TypeOK'
    <3>1. [owner |-> OwnerOf[c], id |-> issued + 1, beat |-> now] \in Lease
      BY DEF Lease
    <3>2. pending' \in [Clients -> {NoLease} \cup Lease]
      BY <2>8, <3>1 DEF LookStale, TakesOver, TakenOver
    <3>3. \A d \in Clients : pc'[d] \in Writing => pending'[d] \in Lease
      BY <2>8, <3>1 DEF LookStale, TakesOver, TakenOver
    <3> QED BY <2>8, <3>2, <3>3 DEF LookStale, TakesOver, TakenOver
  <2>9. ASSUME NEW c \in Clients, LookFresh(c) PROVE TypeOK'
    BY <2>9 DEF LookFresh, Lease
  <2>10. ASSUME NEW c \in Clients, ReplaceForAcquire(c) PROVE TypeOK'
    <3>1. pending[c] \in Lease /\ pending[c].id \in Nat
      BY <2>10 DEF ReplaceForAcquire, Lease
    <3> QED BY <2>10, <3>1 DEF ReplaceForAcquire
  <2>11. ASSUME NEW c \in Clients, ReplaceForHeartbeat(c) PROVE TypeOK'
    BY <2>11 DEF ReplaceForHeartbeat
  <2>12. ASSUME NEW c \in Clients, RenameFails(c) \/ Throws(c) PROVE TypeOK'
    BY <2>12 DEF RenameFails, Throws
  <2>13. ASSUME NEW c \in Clients, ResetTarget(c) PROVE TypeOK'
    BY <2>13 DEF ResetTarget
  <2>14. ASSUME NEW c \in Clients, LookBeat(c) PROVE TypeOK'
    BY <2>14 DEF LookBeat, Lease
  <2>15. ASSUME NEW c \in Clients, LookRelease(c) PROVE TypeOK'
    BY <2>15 DEF LookRelease
  <2>16. ASSUME NEW c \in Clients, Unlink(c) PROVE TypeOK'
    BY <2>16 DEF Unlink
  <2>17. ASSUME NEW c \in Clients, Crash(c) PROVE TypeOK'
    BY <2>17 DEF Crash
  <2>18. ASSUME NEW c \in Clients, Restart(c) PROVE TypeOK'
    BY <2>18 DEF Restart
  <2>19. CASE Tick
    BY <2>19 DEF Tick
  <2>20. CASE UNCHANGED vars
    BY <2>20 DEF vars
  <2> QED
    BY <2>1, <2>2, <2>3, <2>4, <2>5, <2>6, <2>7, <2>8, <2>9, <2>10, <2>11, <2>12,
       <2>13, <2>14, <2>15, <2>16, <2>17, <2>18, <2>19, <2>20 DEF Next, ClientStep
<1> QED BY <1>1, <1>2, PTL DEF Spec

\* A step of cooperative clients leaves everything undisturbed.
LEMMA UndisturbedStep ==
  ASSUME Cooperative, TypeOK, TypeOK', Undisturbed, [Next]_vars
  PROVE  Undisturbed'
<1> USE OwnersAssumption, NullsAssumption, BlankIsNotLease, BlankCreator
    DEF Cooperative, TypeOK, IsLease, Writing, Holds, Undisturbed, NoSeizure, BeatsArePast,
        FillsItsOwn, CreatesItsOwn, RenewsWhatItRead, UnlinksWhatItRead, TicketsAreTrue,
        HoldersHaveTheLease, Goto, Fail, Succeed, Retry, Busy, FreshLease, bounds
<1>1. ASSUME NEW c \in Clients, StartAcquire(c) PROVE Undisturbed'
  BY <1>1 DEF StartAcquire, Lease
<1>2. ASSUME NEW c \in Clients, StartHeartbeat(c) PROVE Undisturbed'
  BY <1>2 DEF StartHeartbeat, Lease
<1>3. ASSUME NEW c \in Clients, StartRelease(c) PROVE Undisturbed'
  BY <1>3 DEF StartRelease, Lease
<1>4. ASSUME NEW c \in Clients, CreateOnly(c) PROVE Undisturbed'
  BY <1>4 DEF CreateOnly, Lease
<1>5. ASSUME NEW c \in Clients, Fill(c) PROVE Undisturbed'
  BY <1>5 DEF Fill, Lease
<1>6. ASSUME NEW c \in Clients, LookRace(c) PROVE Undisturbed'
  <2>1. CASE Retry(c)
    BY <1>6, <2>1 DEF LookRace, Lease
  <2>2. CASE Busy(c)
    BY <1>6, <2>2 DEF LookRace, Lease
  <2> QED BY <1>6, <2>1, <2>2 DEF LookRace
<1>7. ASSUME NEW c \in Clients, LookOwn(c) PROVE Undisturbed'
  BY <1>7 DEF LookOwn, Lease
<1>8. ASSUME NEW c \in Clients, LookStale(c) PROVE Undisturbed'
  BY <1>8 DEF LookStale, TakesOver, TakenOver, Lease
<1>9. ASSUME NEW c \in Clients, LookFresh(c) PROVE Undisturbed'
  BY <1>9 DEF LookFresh, Lease
<1>10. ASSUME NEW c \in Clients, ReplaceForAcquire(c) PROVE Undisturbed'
  BY <1>10 DEF ReplaceForAcquire, Lease
<1>11. ASSUME NEW c \in Clients, ReplaceForHeartbeat(c) PROVE Undisturbed'
  BY <1>11 DEF ReplaceForHeartbeat, Lease
<1>12. ASSUME NEW c \in Clients, RenameFails(c) \/ Throws(c) PROVE Undisturbed'
  BY <1>12 DEF RenameFails, Throws, Lease
<1>13. ASSUME NEW c \in Clients, ResetTarget(c) PROVE Undisturbed'
  BY <1>13 DEF ResetTarget, Lease
<1>14. ASSUME NEW c \in Clients, LookBeat(c) PROVE Undisturbed'
  BY <1>14 DEF LookBeat, Matches, Lease
<1>15. ASSUME NEW c \in Clients, LookRelease(c) PROVE Undisturbed'
  BY <1>15 DEF LookRelease, Matches, Lease
<1>16. ASSUME NEW c \in Clients, Unlink(c) PROVE Undisturbed'
  BY <1>16 DEF Unlink, Lease
<1>17. ASSUME NEW c \in Clients, Crash(c) PROVE Undisturbed'
  BY <1>17 DEF Crash, Lease
<1>18. ASSUME NEW c \in Clients, Restart(c) PROVE Undisturbed'
  BY <1>18 DEF Restart, Lease
<1>19. CASE Tick
  BY <1>19 DEF Tick, Lease
<1>20. CASE UNCHANGED vars
  BY <1>20 DEF vars
<1> QED
  BY <1>1, <1>2, <1>3, <1>4, <1>5, <1>6, <1>7, <1>8, <1>9, <1>10, <1>11, <1>12, <1>13, <1>14,
      <1>15, <1>16, <1>17, <1>18, <1>19, <1>20 DEF Next, ClientStep

\* Nothing is under way when the clients start.
LEMMA UndisturbedInit == Init => Undisturbed
BY NullsAssumption DEF Init, Undisturbed, NoSeizure, BeatsArePast, FillsItsOwn, CreatesItsOwn,
   RenewsWhatItRead, UnlinksWhatItRead, TicketsAreTrue, HoldersHaveTheLease, IsLease

\* Between a client's look and its write nobody else touches the file.
THEOREM Untouched == Cooperative => (Spec => []Undisturbed)
<1> SUFFICES ASSUME Cooperative PROVE Spec => []Undisturbed
  OBVIOUS
<1>1. Undisturbed /\ TypeOK /\ TypeOK' /\ [Next]_vars => Undisturbed'
  BY UndisturbedStep
<1> QED BY <1>1, UndisturbedInit, TypeCorrect, PTL DEF Spec

\* "Prevents overlapping writers in the same repo scope": clients that were told
\* they hold the lease belong to one owner, and each can show the lease it was given.
THEOREM NoOverlap == Cooperative => (Spec => [](OneWriter /\ HoldersHaveTheLease))
<1> SUFFICES ASSUME Cooperative PROVE Spec => [](OneWriter /\ HoldersHaveTheLease)
  OBVIOUS
<1>1. Undisturbed => OneWriter /\ HoldersHaveTheLease
  BY DEF Undisturbed, OneWriter, HoldersHaveTheLease, Holds
<1> QED BY <1>1, Untouched, PTL

\* The ticket a client was given stays good until it releases the lease or crashes: the file
\* has the lease of that very ticket, so the heartbeat and the release that cite it find it.
THEOREM TicketsStayGood == Cooperative => (Spec => []HoldersHaveTheLease)
<1> SUFFICES ASSUME Cooperative PROVE Spec => []HoldersHaveTheLease
  OBVIOUS
<1> QED BY NoOverlap, PTL

\* A superseded lease or an older heartbeat never comes back to the file.
THEOREM NoResurrection == Cooperative => (Spec => NeverBackwards)
<1> SUFFICES ASSUME Cooperative PROVE Spec => NeverBackwards
  OBVIOUS
<1>1. ASSUME TypeOK, Undisturbed, [Next]_vars, IsLease(file), IsLease(file')
      PROVE  \/ file'.id > file.id
             \/ file'.id = file.id /\ file'.owner = file.owner /\ file'.beat >= file.beat
  <2> SUFFICES ASSUME file' # file
               PROVE  \E c \in Clients : pc[c] \in {"renew", "beat"} /\ file' = pending[c]
    BY <1>1 DEF Undisturbed, RenewsWhatItRead, Holds, IsLease, Lease
  <2>1. ASSUME NEW c \in Clients, Fill(c) PROVE FALSE
    BY <1>1, <2>1, BlankIsNotLease DEF Fill, Undisturbed, FillsItsOwn, IsLease
  <2>2. ASSUME NEW c \in Clients, CreateOnly(c) PROVE FALSE
    BY <1>1, <2>2, BlankIsNotLease, NullsAssumption DEF CreateOnly, IsLease
  <2>3. ASSUME NEW c \in Clients, ResetTarget(c) \/ Unlink(c) PROVE FALSE
    BY <1>1, <2>3, NullsAssumption DEF ResetTarget, Unlink, IsLease
  <2>4. ASSUME NEW c \in Clients,
               \/ StartAcquire(c) \/ StartHeartbeat(c) \/ StartRelease(c) \/ LookRace(c)
               \/ LookOwn(c) \/ LookStale(c) \/ LookFresh(c) \/ RenameFails(c) \/ Throws(c)
               \/ LookBeat(c) \/ LookRelease(c) \/ Crash(c) \/ Restart(c) \/ Tick \/ UNCHANGED vars
        PROVE  FALSE
    BY <2>4
    DEF vars, StartAcquire, StartHeartbeat, StartRelease, LookRace, LookOwn,
        LookStale, LookFresh, RenameFails, Throws, LookBeat, LookRelease, Crash, Restart, Tick
  <2>5. ASSUME NEW c \in Clients, ReplaceForAcquire(c) \/ ReplaceForHeartbeat(c)
        PROVE  pc[c] \in {"renew", "beat"} /\ file' = pending[c]
    BY <1>1, <2>5 DEF ReplaceForAcquire, ReplaceForHeartbeat, Undisturbed, NoSeizure
  <2> QED
    BY <1>1, <2>1, <2>2, <2>3, <2>4, <2>5 DEF Next, ClientStep, Tick, vars
<1> QED BY <1>1, TypeCorrect, Untouched, PTL DEF Spec, NeverBackwards, Advances

\* A lease disappears by its own owner's release only: what releaseWriterLease read is still
\* there when its rm removes the path.
THEOREM OwnersRemove == Cooperative => (Spec => OnlyOwnersRemove)
<1> SUFFICES ASSUME Cooperative PROVE Spec => OnlyOwnersRemove
  OBVIOUS
<1>1. ASSUME TypeOK, Undisturbed, [Next]_vars, IsLease(file), file' = NoFile
      PROVE  \E c \in Clients : pc[c] = "unlink" /\ file.owner = OwnerOf[c]
  <2> USE <1>1, NullsAssumption
  <2>1. NoFile \notin Lease /\ file # NoFile
    BY DEF IsLease
  <2>2. ASSUME NEW c \in Clients, Unlink(c)
        PROVE  pc[c] = "unlink" /\ file.owner = OwnerOf[c]
    BY <2>2 DEF Unlink, Undisturbed, UnlinksWhatItRead, Holds
  <2>3. ASSUME NEW c \in Clients, ResetTarget(c) PROVE FALSE
    BY <2>3 DEF ResetTarget, Undisturbed, NoSeizure
  <2>4. ASSUME NEW c \in Clients,
               \/ CreateOnly(c) \/ Fill(c) \/ ReplaceForAcquire(c) \/ ReplaceForHeartbeat(c)
        PROVE  FALSE
    BY <2>1, <2>4 DEF CreateOnly, Fill, ReplaceForAcquire, ReplaceForHeartbeat, TypeOK, Writing
  <2>5. ASSUME NEW c \in Clients,
               \/ StartAcquire(c) \/ StartHeartbeat(c) \/ StartRelease(c) \/ LookRace(c)
               \/ LookOwn(c) \/ LookStale(c) \/ LookFresh(c) \/ RenameFails(c) \/ Throws(c)
               \/ LookBeat(c) \/ LookRelease(c) \/ Crash(c) \/ Restart(c)
        PROVE  FALSE
    BY <2>1, <2>5
    DEF StartAcquire, StartHeartbeat, StartRelease, LookRace, LookOwn, LookStale, LookFresh,
        RenameFails, Throws, LookBeat, LookRelease, Crash, Restart
  <2>6. ~Tick /\ ~UNCHANGED vars
    BY <2>1 DEF Tick, vars
  <2> QED BY <2>2, <2>3, <2>4, <2>5, <2>6 DEF Next, ClientStep
<1> QED BY <1>1, TypeCorrect, Untouched, PTL DEF Spec, OnlyOwnersRemove

\* The lease implements the abstract scope: what readers of the file see as its
\* holder changes hands only through a free file, and only the holder writes.
THEOREM Refines == Cooperative => (Spec => KeepsPromise)
<1> SUFFICES ASSUME Cooperative PROVE Spec => KeepsPromise
  OBVIOUS
<1> DEFINE writers == {OwnerOf[c] : c \in inside}
<1>1. Init => Promise!Init
  BY NullsAssumption DEF Init, Promise!Init, holder, IsLease
<1>2. ASSUME TypeOK, TypeOK', Undisturbed, Undisturbed', [Next]_vars
      PROVE  [Promise!Next]_<<holder, writers>>
  <2> USE OwnersAssumption, NullsAssumption, BlankIsNotLease
  <2> USE DEF IsLease, Goto, bounds
  \* An owner enters, leaves or stays as its only client does.
  <2>1. ASSUME NEW c \in Clients, holder = OwnerOf[c], holder' = holder,
               inside' = inside \cup {c}
        PROVE  Promise!Enter(OwnerOf[c])
    BY <2>1 DEF Promise!Enter
  <2>2. ASSUME NEW c \in Clients, holder' = holder, inside' = inside \ {c}
        PROVE  [Promise!Exit(OwnerOf[c])]_<<holder, writers>>
    <3>1. CASE c \in inside
      <4>1. writers' = writers \ {OwnerOf[c]}
        BY <1>2, <2>2, <3>1 DEF Cooperative, TypeOK
      <4>2. OwnerOf[c] \in writers
        BY <3>1
      <4> QED BY <2>2, <4>1, <4>2 DEF Promise!Exit
    <3>2. CASE c \notin inside
      <4>1. inside' = inside
        BY <2>2, <3>2
      <4> QED BY <2>2, <4>1
    <3> QED BY <3>1, <3>2
  <2>3. ASSUME inside' = inside, holder' = holder
        PROVE  UNCHANGED <<holder, writers>>
    BY <2>3
  <2>4. ASSUME NEW c \in Clients, Fail(c), UNCHANGED file
        PROVE  holder' = holder /\ inside' = inside \ {c}
    BY <2>4 DEF Fail, holder
  \* The commands, one by one.
  <2>5. ASSUME NEW c \in Clients, CreateOnly(c) PROVE [Promise!Next]_<<holder, writers>>
    <3>1. CASE file = NoFile
      <4>1. holder = NoFile /\ holder' = OwnerOf[c]
        BY <2>5, <3>1 DEF CreateOnly, holder, Blank
      <4>2. inside' = inside
        BY <2>5 DEF CreateOnly
      <4> QED BY <4>1, <4>2 DEF Promise!Next, Promise!Take
    <3>2. CASE file # NoFile
      BY <2>3, <2>5, <3>2 DEF CreateOnly, holder
    <3> QED BY <3>1, <3>2
  <2>6. ASSUME NEW c \in Clients, Fill(c) PROVE [Promise!Next]_<<holder, writers>>
    <3>1. holder = OwnerOf[c] /\ holder' = OwnerOf[c]
      BY <1>2, <2>6 DEF Fill, Undisturbed, FillsItsOwn, holder, Blank, TypeOK, Writing
    <3>2. inside' = inside \cup {c}
      BY <2>6 DEF Fill, Succeed
    <3> QED BY <2>1, <3>1, <3>2 DEF Promise!Next
  <2>7. ASSUME NEW c \in Clients, ReplaceForAcquire(c)
        PROVE [Promise!Next]_<<holder, writers>>
    <3>1. holder = OwnerOf[c] /\ holder' = OwnerOf[c]
      BY <1>2, <2>7 DEF ReplaceForAcquire, Undisturbed, NoSeizure, RenewsWhatItRead, Holds,
                        holder, TypeOK, Writing
    <3>2. inside' = inside \cup {c}
      BY <2>7 DEF ReplaceForAcquire, Succeed
    <3> QED BY <2>1, <3>1, <3>2 DEF Promise!Next
  <2>8. ASSUME NEW c \in Clients, ReplaceForHeartbeat(c)
        PROVE [Promise!Next]_<<holder, writers>>
    <3>1. holder' = holder /\ inside' = inside
      BY <1>2, <2>8 DEF ReplaceForHeartbeat, Undisturbed, RenewsWhatItRead, Holds, holder,
                        TypeOK, Writing
    <3> QED BY <2>3, <3>1
  <2>9. ASSUME NEW c \in Clients, Unlink(c) PROVE [Promise!Next]_<<holder, writers>>
    <3>1. holder = OwnerOf[c] /\ holder' = NoFile /\ inside' = inside
      BY <1>2, <2>9 DEF Unlink, Undisturbed, UnlinksWhatItRead, Holds, holder
    <3>2. OwnerOf[c] \notin writers
      BY <1>2, <2>9 DEF Unlink, Undisturbed, UnlinksWhatItRead, Cooperative, TypeOK
    <3> QED BY <3>1, <3>2 DEF Promise!Next, Promise!Free
  <2>10. ASSUME NEW c \in Clients,
                LookRace(c) \/ LookFresh(c) \/ LookStale(c) \/ LookBeat(c) \/ LookRelease(c)
                  \/ RenameFails(c) \/ Throws(c) \/ StartRelease(c) \/ Crash(c)
         PROVE  [Promise!Next]_<<holder, writers>>
    <3>1. file' = file
      BY <2>10 DEF LookRace, LookFresh, LookStale, LookBeat, LookRelease, RenameFails, Throws,
                   StartRelease, Crash
    <3>2. inside' = inside \/ inside' = inside \ {c}
      BY <2>10 DEF LookRace, LookFresh, LookStale, LookBeat, LookRelease, RenameFails, Throws,
                   StartRelease, Crash, Retry, Busy, Fail
    <3>3. holder' = holder
      BY <3>1 DEF holder
    <3> QED BY <2>2, <2>3, <3>2, <3>3 DEF Promise!Next
  <2>11. ASSUME NEW c \in Clients,
                StartAcquire(c) \/ StartHeartbeat(c) \/ LookOwn(c) \/ Restart(c)
         PROVE  [Promise!Next]_<<holder, writers>>
    BY <2>3, <2>11 DEF StartAcquire, StartHeartbeat, LookOwn, Restart, holder
  <2>12. ASSUME NEW c \in Clients, ResetTarget(c) PROVE FALSE
    BY <1>2, <2>12 DEF ResetTarget, Undisturbed, NoSeizure
  <2>13. CASE Tick \/ UNCHANGED vars
    BY <2>3, <2>13 DEF Tick, vars, holder
  <2> QED
    BY <1>2, <2>5, <2>6, <2>7, <2>8, <2>9, <2>10, <2>11, <2>12, <2>13 DEF Next, ClientStep
<1> QED BY <1>1, <1>2, TypeCorrect, Untouched, PTL DEF Spec, KeepsPromise, Promise!Spec

--------------------------------------------------------------------------------
\* A step of attended clients, none of whose renames fails, leaves the leases watched.
LEMMA WatchedStep ==
  ASSUME Attended, TypeOK, TypeOK', Watched, [Next]_vars, faults' = 0
  PROVE  Watched'
<1> USE OwnersAssumption, NullsAssumption, NumbersAssumption, BlankIsNotLease, BlankCreator
    DEF Attended, TypeOK, IsLease, Writing, Holds, Alive, Watched, LiveLeasesAreFresh, NoReset,
        DeadAreOut, SeizesFromTheDead, BeatsArePast, FillsItsOwn, CreatesItsOwn, RenewsWhatItRead,
        UnlinksWhatItRead, TicketsAreTrue, HoldersHaveTheLease, Goto, Fail, Succeed, Retry,
        Busy, FreshLease, bounds
<1>1. ASSUME NEW c \in Clients, StartAcquire(c) PROVE Watched'
  BY <1>1 DEF StartAcquire, Lease
<1>2. ASSUME NEW c \in Clients, StartHeartbeat(c) PROVE Watched'
  BY <1>2 DEF StartHeartbeat, Lease
<1>3. ASSUME NEW c \in Clients, StartRelease(c) PROVE Watched'
  BY <1>3 DEF StartRelease, Lease
<1>4. ASSUME NEW c \in Clients, CreateOnly(c) PROVE Watched'
  BY <1>4 DEF CreateOnly, Lease
<1>5. ASSUME NEW c \in Clients, Fill(c) PROVE Watched'
  BY <1>5 DEF Fill, Lease
<1>6. ASSUME NEW c \in Clients, LookRace(c) PROVE Watched'
  <2>1. CASE Retry(c)
    BY <1>6, <2>1 DEF LookRace, Lease
  <2>2. CASE Busy(c)
    BY <1>6, <2>2 DEF LookRace, Lease
  <2> QED BY <1>6, <2>1, <2>2 DEF LookRace
<1>7. ASSUME NEW c \in Clients, LookOwn(c) PROVE Watched'
  BY <1>7 DEF LookOwn, Lease
<1>8. ASSUME NEW c \in Clients, LookStale(c) PROVE Watched'
  BY <1>8 DEF LookStale, TakesOver, TakenOver, IsStale, Age, Lease
<1>9. ASSUME NEW c \in Clients, LookFresh(c) PROVE Watched'
  <2>1. CASE Retry(c)
    BY <1>9, <2>1 DEF LookFresh, Lease
  <2>2. CASE Busy(c)
    BY <1>9, <2>2 DEF LookFresh, Lease
  <2> QED BY <1>9, <2>1, <2>2 DEF LookFresh
<1>10. ASSUME NEW c \in Clients, ReplaceForAcquire(c) PROVE Watched'
  <2>1. CASE pc[c] = "renew"
    BY <1>10, <2>1 DEF ReplaceForAcquire, Lease
  <2>2. CASE pc[c] = "seize"
    <3>1. \A d \in Clients \ {c} : OwnerOf[d] # OwnerOf[c] /\ pc[d] # "seize"
      BY <1>10, <2>2
    <3>2. inside \subseteq {c}
      BY <1>10, <2>2
    <3>3. pending[c] \in Lease /\ file' = pending[c] /\ inside' = {c}
      BY <1>10, <2>2, <3>2 DEF ReplaceForAcquire
    <3>4. LiveLeasesAreFresh' /\ NoReset' /\ DeadAreOut' /\ SeizesFromTheDead' /\ BeatsArePast'
      BY <1>10, <2>2, <3>1, <3>3 DEF ReplaceForAcquire, Lease
    <3>5. FillsItsOwn' /\ CreatesItsOwn' /\ RenewsWhatItRead' /\ UnlinksWhatItRead'
      BY <1>10, <2>2, <3>1, <3>3 DEF ReplaceForAcquire, Lease
    <3>6. TicketsAreTrue' /\ HoldersHaveTheLease'
      BY <1>10, <2>2, <3>1, <3>3 DEF ReplaceForAcquire, Lease
    <3> QED BY <3>4, <3>5, <3>6
  <2> QED BY <1>10, <2>1, <2>2 DEF ReplaceForAcquire
<1>11. ASSUME NEW c \in Clients, ReplaceForHeartbeat(c) PROVE Watched'
  BY <1>11 DEF ReplaceForHeartbeat, Lease
<1>12. ASSUME NEW c \in Clients, RenameFails(c) \/ Throws(c) PROVE Watched'
  BY <1>12 DEF RenameFails, Throws, Lease
<1>13. ASSUME NEW c \in Clients, ResetTarget(c) PROVE Watched'
  BY <1>13 DEF ResetTarget, Lease
<1>14. ASSUME NEW c \in Clients, LookBeat(c) PROVE Watched'
  BY <1>14 DEF LookBeat, Matches, Lease
<1>15. ASSUME NEW c \in Clients, LookRelease(c) PROVE Watched'
  BY <1>15 DEF LookRelease, Matches, Lease
<1>16. ASSUME NEW c \in Clients, Unlink(c) PROVE Watched'
  BY <1>16 DEF Unlink, Lease
<1>17. ASSUME NEW c \in Clients, Crash(c) PROVE Watched'
  BY <1>17 DEF Crash, Lease
<1>18. ASSUME NEW c \in Clients, Restart(c) PROVE Watched'
  BY <1>18 DEF Restart, Lease
<1>19. CASE Tick
  BY <1>19 DEF Tick, KeptFresh, Lease
<1>20. CASE UNCHANGED vars
  BY <1>20 DEF vars
<1> QED
  BY <1>1, <1>2, <1>3, <1>4, <1>5, <1>6, <1>7, <1>8, <1>9, <1>10, <1>11, <1>12, <1>13, <1>14,
     <1>15, <1>16, <1>17, <1>18, <1>19, <1>20 DEF Next, ClientStep

\* Nothing is under way when the clients start.
LEMMA WatchedInit == Init => Watched
BY NullsAssumption DEF Init, Watched, LiveLeasesAreFresh, NoReset, DeadAreOut, SeizesFromTheDead,
   BeatsArePast, FillsItsOwn, CreatesItsOwn, RenewsWhatItRead, UnlinksWhatItRead, TicketsAreTrue,
   HoldersHaveTheLease, IsLease, Holds, Writing

\* Renames that failed are not forgotten.
LEMMA FaultsStay == ASSUME TypeOK, [Next]_vars, faults' = 0 PROVE faults = 0
<1>1. faults \in Nat
  BY DEF TypeOK
<1>2. faults' = faults \/ faults' = faults + 1
  BY DEF Next, ClientStep, StartAcquire, StartHeartbeat, StartRelease, CreateOnly, Fill, LookRace,
     LookOwn, LookStale, LookFresh, ReplaceForAcquire, ReplaceForHeartbeat, RenameFails, Throws,
     ResetTarget, LookBeat, LookRelease, Unlink, Crash, Restart, Tick, vars, bounds
<1> QED BY <1>1, <1>2

\* One client may take over: while owners keep their leases fresh and no rename has failed, it
\* only ever replaces the lease of a process that died.
THEOREM TakeoversAreWatched == Attended => (Spec => []WatchedUntilRenameFails)
<1> SUFFICES ASSUME Attended PROVE Spec => []WatchedUntilRenameFails
  OBVIOUS
<1>1. Init => WatchedUntilRenameFails
  BY WatchedInit DEF WatchedUntilRenameFails
<1>2. ASSUME TypeOK, TypeOK', WatchedUntilRenameFails, [Next]_vars, faults' = 0
      PROVE  Watched'
  BY <1>2, FaultsStay, WatchedStep DEF WatchedUntilRenameFails
<1>3. TypeOK /\ TypeOK' /\ WatchedUntilRenameFails /\ [Next]_vars => WatchedUntilRenameFails'
  BY <1>2 DEF WatchedUntilRenameFails
<1> QED BY <1>1, <1>3, TypeCorrect, PTL DEF Spec

\* Then the clients that were told they hold the lease belong to one owner, takeovers or not.
THEOREM SafeTakeovers == Attended => (Spec => []SafeUntilRenameFails)
<1> SUFFICES ASSUME Attended PROVE Spec => []SafeUntilRenameFails
  OBVIOUS
<1>1. WatchedUntilRenameFails => SafeUntilRenameFails
  BY DEF WatchedUntilRenameFails, Watched, SafeUntilRenameFails, OneWriter, HoldersHaveTheLease,
         Holds
<1> QED BY <1>1, TakeoversAreWatched, PTL

\* And no takeover brings an older lease back.
THEOREM NoTakeoverBackwards == Attended => (Spec => NeverBackwardsUntilRenameFails)
<1> SUFFICES ASSUME Attended PROVE Spec => NeverBackwardsUntilRenameFails
  OBVIOUS
<1>1. ASSUME TypeOK, Watched, [Next]_vars, IsLease(file), IsLease(file')
      PROVE  Advances
  <2> SUFFICES ASSUME file' # file
               PROVE  \E c \in Clients : pc[c] \in {"renew", "beat", "seize"} /\ file' = pending[c]
    BY <1>1 DEF Watched, RenewsWhatItRead, SeizesFromTheDead, Holds, IsLease, Lease, Advances
  <2>1. ASSUME NEW c \in Clients, Fill(c) \/ CreateOnly(c) PROVE FALSE
    BY <1>1, <2>1, BlankIsNotLease, NullsAssumption
    DEF Fill, CreateOnly, Watched, FillsItsOwn, IsLease
  <2>2. ASSUME NEW c \in Clients, ResetTarget(c) \/ Unlink(c) PROVE FALSE
    BY <1>1, <2>2, NullsAssumption DEF ResetTarget, Unlink, IsLease
  <2>3. ASSUME NEW c \in Clients,
               \/ StartAcquire(c) \/ StartHeartbeat(c) \/ StartRelease(c) \/ LookRace(c)
               \/ LookOwn(c) \/ LookStale(c) \/ LookFresh(c) \/ RenameFails(c) \/ Throws(c)
               \/ LookBeat(c) \/ LookRelease(c) \/ Crash(c) \/ Restart(c)
        PROVE  FALSE
    BY <2>3
    DEF StartAcquire, StartHeartbeat, StartRelease, LookRace, LookOwn, LookStale, LookFresh,
        RenameFails, Throws, LookBeat, LookRelease, Crash, Restart
  <2>4. ASSUME NEW c \in Clients, ReplaceForAcquire(c) \/ ReplaceForHeartbeat(c)
        PROVE  pc[c] \in {"renew", "beat", "seize"} /\ file' = pending[c]
    BY <2>4 DEF ReplaceForAcquire, ReplaceForHeartbeat
  <2>5. ~Tick /\ ~UNCHANGED vars
    BY DEF Tick, vars
  <2> QED BY <1>1, <2>1, <2>2, <2>3, <2>4, <2>5 DEF Next, ClientStep
<1>2. ASSUME TypeOK, WatchedUntilRenameFails, [Next]_vars, faults' = 0,
             IsLease(file), IsLease(file')
      PROVE  Advances
  BY <1>1, <1>2, FaultsStay DEF WatchedUntilRenameFails
<1>3. TypeOK /\ WatchedUntilRenameFails /\ [Next]_vars => (faults' = 0 => Advances)
  <2>1. ASSUME ~(IsLease(file) /\ IsLease(file')) PROVE Advances
    BY <2>1 DEF Advances
  <2> QED BY <1>2, <2>1
<1> QED
  BY <1>3, TypeCorrect, TakeoversAreWatched, PTL DEF Spec, NeverBackwardsUntilRenameFails

================================================================================
