------------------------------- MODULE SessionLock -------------------------------
(******************************************************************************)
(* The session lock of self-hosted runners, tools/Session-Lock.ps1: one       *)
(* lock.json per group, written in place.  A process that has the file open   *)
(* for writing shares it with nobody: the others cannot read, overwrite or    *)
(* remove it until it is closed, and it is empty from the open to the close.  *)
(* The sessions are the jobs of .github/workflows/pester-reusable.yml and the *)
(* runs of Invoke-PesterTests.ps1, which acquire, beat and release.           *)
(******************************************************************************)
EXTENDS Naturals, FiniteSets

CONSTANTS
  Sessions,      \* the processes and jobs that use the lock
  Forcers,       \* the sessions with SESSION_FORCE_TAKEOVER or -ForceTakeover
  AlwaysRelease, \* the sessions whose release step runs even if the acquire failed
  Anonymous,     \* the sessions that release without SESSION_LOCK_ID
  StaleSeconds,  \* -StaleSeconds, in ticks of the clock
  QueueMaxAttempts,
  MaxTime,       \* bound: ticks of the clock
  MaxLocks,      \* bound: acquires started
  MaxCrashes,    \* bound: processes that die
  NoFile,        \* lock.json does not exist
  Empty,         \* lock.json is empty and nobody has it open
  NoRecord       \* no lock was read, or none is waiting to be written

ASSUME SessionsAssumption == Forcers \cup AlwaysRelease \cup Anonymous \subseteq Sessions
ASSUME NumbersAssumption ==
  {StaleSeconds, QueueMaxAttempts, MaxTime, MaxLocks, MaxCrashes} \subseteq Nat

\* The lock record: whose guid, and its heartbeatAt.
Lock == [id : Nat, beat : Nat]

\* lock.json while a session has it open for writing.
Open(s) == [opener |-> s]
Opens == {Open(s) : s \in Sessions}

ASSUME NullsAssumption ==
  /\ NoFile # Empty
  /\ {NoFile, Empty} \cap (Lock \cup Opens) = {}
  /\ NoRecord \notin Lock

VARIABLES
  file,    \* what lock.json holds
  now,     \* the clock
  pc,      \* what each session's script is about to do
  pending, \* the record it is about to write
  attempt, \* Acquire: times it queued
  lockId,  \* the guid of the lock a session acquired (0: none)
  inside,  \* the sessions that run their tests: acquire exited 0
  issued,  \* acquires started
  crashes, \* processes died
  trespassers \* auxiliary: who took a lock over or let go of one it had not acquired

vars == <<file, now, pc, pending, attempt, lockId, inside, issued, crashes, trespassers>>

Labels == {"idle", "read", "create", "reread", "seize", "fill", "beat", "beatFill",
           "release", "remove", "dead"}

Goto(s, label) == pc' = [pc EXCEPT ![s] = label]

\* The labels at which the session has lock.json open.
Filling == {"fill", "beatFill"}

Init ==
  /\ file = NoFile
  /\ now = 0
  /\ pc = [s \in Sessions |-> "idle"]
  /\ pending = [s \in Sessions |-> NoRecord]
  /\ attempt = [s \in Sessions |-> 0]
  /\ lockId = [s \in Sessions |-> 0]
  /\ inside = {}
  /\ issued = 0
  /\ crashes = 0
  /\ trespassers = {}

--------------------------------------------------------------------------------
\* Read-Lock: a missing, an empty and an unreadable file are all $null.
ReadLock == IF file \in Lock THEN file ELSE NoRecord

\* Get-HeartbeatAgeSeconds: no record is infinitely old.
IsStale(lock) == lock # NoRecord => now > lock.beat + StaleSeconds

\* The file is open elsewhere: opening it throws, removing it is given up.
OpenElsewhere(s) == \E r \in Sessions \ {s} : file = Open(r)

(******************************************************************************)
(* Acquire.                                                                   *)
(******************************************************************************)
StartAcquire(s) ==
  /\ pc[s] = "idle"
  /\ s \notin inside
  /\ issued < MaxLocks
  /\ issued' = issued + 1
  /\ pending' = [pending EXCEPT ![s] = [id |-> issued + 1, beat |-> now]]
  /\ attempt' = [attempt EXCEPT ![s] = 0]
  /\ Goto(s, "read")
  /\ UNCHANGED <<file, now, lockId, inside, crashes, trespassers>>

\* Acquire exits 10 (stale) or 11 (queue timeout), or the open threw.
GiveUp(s) ==
  /\ Goto(s, IF s \in AlwaysRelease THEN "release" ELSE "idle")
  /\ pending' = [pending EXCEPT ![s] = NoRecord]
  /\ UNCHANGED attempt

\* A slip: takes over without being told to.
TakesOverAnyway(s) == TRUE
TakesOver(s) == s \in Forcers

\* A slip: the queue is not counted.
SameAttempt(s) == attempt[s]
NextAttempt(s) == attempt[s] + 1

\* A stale lock is taken over or reported; an active one is queued for, so often.
Judge(s, lock) ==
  \/ IsStale(lock) /\ TakesOver(s) /\ Goto(s, "seize") /\ UNCHANGED <<pending, attempt>>
  \/ IsStale(lock) /\ ~TakesOver(s) /\ GiveUp(s)
  \/ ~IsStale(lock) /\ attempt[s] >= QueueMaxAttempts /\ GiveUp(s)
  \/ /\ ~IsStale(lock) /\ attempt[s] < QueueMaxAttempts
     /\ attempt' = [attempt EXCEPT ![s] = NextAttempt(s)]
     /\ Goto(s, "read")
     /\ UNCHANGED pending

\* The top of the loop; the time of the record to be written is taken here.
Read(s) ==
  /\ pc[s] = "read"
  /\ IF ReadLock = NoRecord
       THEN /\ pending' = [pending EXCEPT ![s].beat = now]
            /\ Goto(s, "create")
            /\ UNCHANGED attempt
       ELSE Judge(s, ReadLock)
  /\ UNCHANGED <<file, now, lockId, inside, issued, crashes, trespassers>>

\* A slip: FileMode.Create, which truncates a file that is there.
CreateOrTruncate(s) ==
  /\ pc[s] = "create"
  /\ IF OpenElsewhere(s)
       THEN Goto(s, "reread") /\ UNCHANGED file
       ELSE file' = Open(s) /\ Goto(s, "fill")
  /\ UNCHANGED <<now, pending, attempt, lockId, inside, issued, crashes, trespassers>>

\* FileMode.CreateNew: makes the file, or throws because there is one.
Create(s) ==
  /\ pc[s] = "create"
  /\ IF file = NoFile
       THEN file' = Open(s) /\ Goto(s, "fill")
       ELSE Goto(s, "reread") /\ UNCHANGED file
  /\ UNCHANGED <<now, pending, attempt, lockId, inside, issued, crashes, trespassers>>

\* The catch block: whatever the second read returns is judged by its age.
ReRead(s) ==
  /\ pc[s] = "reread"
  /\ Judge(s, ReadLock)
  /\ UNCHANGED <<file, now, lockId, inside, issued, crashes, trespassers>>

\* FileMode.Create: truncates whatever is there, unless somebody has it open.
Seize(s) ==
  /\ pc[s] = "seize"
  /\ \/ /\ ~OpenElsewhere(s)
        /\ file' = Open(s)
        /\ trespassers' = trespassers \cup {s}
        /\ Goto(s, "fill")
        /\ UNCHANGED <<pending, attempt>>
     \/ GiveUp(s) /\ UNCHANGED <<file, trespassers>>  \* a writer, or a reader for a moment
  /\ UNCHANGED <<now, lockId, inside, issued, crashes>>

\* The record is written and the file closed: acquired, or taken over.
Fill(s) ==
  /\ pc[s] = "fill"
  /\ file' = pending[s]
  /\ lockId' = [lockId EXCEPT ![s] = pending[s].id]
  /\ inside' = inside \cup {s}
  /\ pending' = [pending EXCEPT ![s] = NoRecord]
  /\ Goto(s, "idle")
  /\ UNCHANGED <<now, attempt, issued, crashes, trespassers>>

(******************************************************************************)
(* Heartbeat: read, and write the record read with a new heartbeat.           *)
(******************************************************************************)
\* A slip: the record to write is not built.
HeartbeatForgets(s) ==
  /\ pc[s] = "idle"
  /\ s \in inside \ Anonymous
  /\ Goto(s, "beat")
  /\ UNCHANGED <<file, now, pending, attempt, lockId, inside, issued, crashes, trespassers>>

Heartbeat(s) ==
  /\ pc[s] = "idle"
  /\ s \in inside \ Anonymous
  /\ file \in Lock
  /\ file.id = lockId[s]
  /\ pending' = [pending EXCEPT ![s] = [file EXCEPT !.beat = now]]
  /\ Goto(s, "beat")
  /\ UNCHANGED <<file, now, attempt, lockId, inside, issued, crashes, trespassers>>

Beat(s) ==
  /\ pc[s] = "beat"
  /\ \/ ~OpenElsewhere(s) /\ file' = Open(s) /\ Goto(s, "beatFill") /\ UNCHANGED pending
     \/ /\ Goto(s, "idle")
        /\ pending' = [pending EXCEPT ![s] = NoRecord]
        /\ UNCHANGED file
  /\ UNCHANGED <<now, attempt, lockId, inside, issued, crashes, trespassers>>

BeatFill(s) ==
  /\ pc[s] = "beatFill"
  /\ file' = pending[s]
  /\ pending' = [pending EXCEPT ![s] = NoRecord]
  /\ Goto(s, "idle")
  /\ UNCHANGED <<now, attempt, lockId, inside, issued, crashes, trespassers>>

(******************************************************************************)
(* Release: the tests are over.                                               *)
(******************************************************************************)
\* A slip: the tests still run.
StartReleaseEarly(s) ==
  /\ pc[s] = "idle"
  /\ s \in inside
  /\ Goto(s, "release")
  /\ UNCHANGED <<file, now, pending, attempt, lockId, inside, issued, crashes, trespassers>>

StartRelease(s) ==
  /\ pc[s] = "idle"
  /\ s \in inside
  /\ inside' = inside \ {s}
  /\ Goto(s, "release")
  /\ UNCHANGED <<file, now, pending, attempt, lockId, issued, crashes, trespassers>>

\* SESSION_LOCK_ID is compared only if there is one.
KnowsId(s) == s \notin Anonymous /\ lockId[s] # 0

Released(s) == Goto(s, "idle") /\ lockId' = [lockId EXCEPT ![s] = 0]

LookRelease(s) ==
  /\ pc[s] = "release"
  /\ IF file \in Lock /\ (KnowsId(s) => file.id = lockId[s])
       THEN /\ Goto(s, "remove")
            /\ trespassers' = IF lockId[s] = 0 THEN trespassers \cup {s} ELSE trespassers
            /\ UNCHANGED lockId
       ELSE Released(s) /\ UNCHANGED trespassers
  /\ UNCHANGED <<file, now, pending, attempt, inside, issued, crashes>>

\* Remove-Item with SilentlyContinue: the file stays if somebody has it open.
Remove(s) ==
  /\ pc[s] = "remove"
  /\ \/ ~OpenElsewhere(s) /\ file' = NoFile
     \/ UNCHANGED file
  /\ Released(s)
  /\ UNCHANGED <<now, pending, attempt, inside, issued, crashes, trespassers>>

--------------------------------------------------------------------------------
\* A process dies, its tests with it; an open file is closed as it is.
Crash(s) ==
  /\ pc[s] # "dead"
  /\ crashes < MaxCrashes
  /\ crashes' = crashes + 1
  /\ file' = IF file = Open(s) THEN Empty ELSE file
  /\ inside' = inside \ {s}
  /\ lockId' = [lockId EXCEPT ![s] = 0]
  /\ pending' = [pending EXCEPT ![s] = NoRecord]
  /\ Goto(s, "dead")
  /\ UNCHANGED <<now, attempt, issued, trespassers>>

Tick ==
  /\ now < MaxTime
  /\ now' = now + 1
  /\ UNCHANGED <<file, pc, pending, attempt, lockId, inside, issued, crashes, trespassers>>

Script(s) ==
  \/ Read(s) \/ Create(s) \/ ReRead(s) \/ Seize(s) \/ Fill(s)
  \/ Beat(s) \/ BeatFill(s)
  \/ LookRelease(s) \/ Remove(s)

Next ==
  \/ \E s \in Sessions :
       StartAcquire(s) \/ Heartbeat(s) \/ StartRelease(s) \/ Script(s) \/ Crash(s)
  \/ Tick

Spec == Init /\ [][Next]_vars

\* A script that has been started runs on.
FairSpec == Spec /\ \A s \in Sessions : WF_vars(Script(s))

--------------------------------------------------------------------------------
\* The types of the variables.
TypeOK ==
  /\ file \in {NoFile, Empty} \cup Opens \cup Lock
  /\ now \in Nat
  /\ pc \in [Sessions -> Labels]
  /\ pending \in [Sessions -> {NoRecord} \cup Lock]
  /\ \A s \in Sessions :
       pc[s] \in {"read", "create", "reread", "seize", "beat"} \cup Filling =>
         pending[s] \in Lock
  /\ attempt \in [Sessions -> Nat]
  /\ lockId \in [Sessions -> Nat]
  /\ inside \subseteq Sessions
  /\ issued \in Nat
  /\ crashes \in Nat
  /\ trespassers \subseteq Sessions

\* "Combine with session locks to avoid concurrent CLI runners": one session at
\* most runs its tests ...
OneSession == \A s, r \in inside : s = r

\* ... whatever the sessions do, until one of them has taken a lock over or let go
\* of one it had not acquired.
OneSessionUntilTrespass == trespassers # {} \/ OneSession

\* Until then a lock is removed or rewritten by no session but the one that acquired
\* it, SESSION_LOCK_ID or not.
OnlyOwnersTouch ==
  [][(file \in Lock /\ trespassers' = {}) =>
       \/ file' = file
       \/ \E s \in Sessions : file.id = lockId[s] /\ file' \in {NoFile, Open(s)}]_vars

\* A session that runs its tests is protected: the lock on file is its own, or it
\* has the file open to write its own heartbeat there.
ProtectedSessions ==
  \A s \in inside :
    \/ file \in Lock /\ file.id = lockId[s]
    \/ file = Open(s) /\ pc[s] = "beatFill" /\ pending[s].id = lockId[s]

(******************************************************************************)
(* Why sessions that do not trespass exclude each other: what a session read  *)
(* of the lock is still so when it writes or removes it, because every lock on*)
(* file has one session that knows its id, and only that session touches it.  *)
(******************************************************************************)
\* An open file is written by the session that opened it.
FillsItsOwn ==
  \A s \in Sessions : pc[s] \in Filling => file = Open(s)

\* Heartbeats rewrite the session's own lock while its tests run.
BeatsItsOwn ==
  \A s \in Sessions : pc[s] \in {"beat", "beatFill"} =>
    s \in inside /\ pending[s].id = lockId[s]

\* A release, with or without the id, finds the session's own lock.
ReleasesItsOwn ==
  \A s \in Sessions : pc[s] = "remove" \/ (pc[s] = "release" /\ lockId[s] # 0) =>
    file \in Lock /\ file.id = lockId[s] /\ lockId[s] # 0 /\ s \notin inside

\* Only a session that runs its tests or lets go of its lock knows a guid.
KnowsWhatItHolds ==
  \A s \in Sessions :
    /\ s \in inside => pc[s] \in {"idle", "beat", "beatFill"}
    /\ s \notin inside /\ pc[s] \notin {"release", "remove"} => lockId[s] = 0

\* The guids: no two sessions know or are about to write the same one.
GuidsAreUnique ==
  /\ \A s \in Sessions : lockId[s] <= issued /\ (s \in inside => lockId[s] # 0)
  /\ \A s \in Sessions : pending[s] \in Lock => pending[s].id \in 1..issued
  /\ \A s, r \in Sessions : s # r =>
       /\ lockId[s] # 0 => lockId[s] # lockId[r]
       /\ pending[s] \in Lock => pending[s].id # lockId[r]
       /\ pending[s] \in Lock /\ pending[r] \in Lock => pending[s].id # pending[r].id

\* The inductive invariant of sessions that do not trespass.
Guarded ==
  /\ ProtectedSessions
  /\ FillsItsOwn
  /\ BeatsItsOwn
  /\ ReleasesItsOwn
  /\ KnowsWhatItHolds
  /\ GuidsAreUnique
GuardedUntilTrespass == trespassers # {} \/ Guarded

\* "Session lock still active ... aborting": an acquire does not queue for ever,
\* and every other action of the script returns too.
ScriptsEnd ==
  \A s \in Sessions : (pc[s] \notin {"idle", "dead"}) ~> (pc[s] \in {"idle", "dead"})
================================================================================
