------------------------------ MODULE WriterLease ------------------------------
(******************************************************************************)
(* The agent writer lease, tools/priority/agent-writer-lease.mjs: one JSON    *)
(* file per scope that several processes create, rewrite and delete without   *)
(* any other lock.  Every await on the file system is a step of its own, so   *)
(* the processes interleave between reading the file and acting on what       *)
(* they read, exactly where the code awaits.                                  *)
(******************************************************************************)
EXTENDS Naturals, FiniteSets

CONSTANTS
  Clients,        \* the processes that run lease commands
  Owners,         \* owner strings: actor@host:session
  OwnerOf,        \* the owner string each client passes
  Forcers,        \* the clients started with --force-takeover
  StaleAfter,     \* AGENT_WRITER_LEASE_STALE_SECONDS, in ticks of the clock
  MaxAttempts,    \* AGENT_WRITER_LEASE_MAX_ATTEMPTS
  RenameRetries,  \* DEFAULT_RENAME_RETRY_ATTEMPTS
  Restarts,       \* whether a dead client may come back under the same owner
  Punctual,       \* whether live owners keep their lease fresh
  CallsFail,      \* whether calls on the file system may throw, a busy rename apart
  MaxTime,        \* bound: ticks of the clock
  MaxLeases,      \* bound: lease records ever issued
  MaxFaults,      \* bound: rename calls that fail with EPERM/EACCES/EBUSY/EEXIST
  MaxCrashes,     \* bound: processes that die
  NoFile,         \* the lease path does not exist
  NoLease         \* no lease record is waiting to be written

ASSUME OwnersAssumption == OwnerOf \in [Clients -> Owners]
ASSUME ForcersAssumption == Forcers \subseteq Clients
ASSUME NumbersAssumption ==
  {StaleAfter, MaxAttempts, RenameRetries, MaxTime, MaxLeases, MaxFaults, MaxCrashes}
    \subseteq Nat
ASSUME SwitchesAssumption == {Restarts, Punctual, CallsFail} \subseteq BOOLEAN

Lease == [owner : Owners, id : Nat, beat : Nat]

\* flag 'wx' makes the file before its body is written; until then it is blank,
\* and only its creator's descriptor points at it.
Blank(c) == [creator |-> c]
Blanks == {Blank(c) : c \in Clients}

ASSUME NullsAssumption == NoFile \notin Lease \cup Blanks /\ NoLease \notin Lease

VARIABLES
  file,     \* what the lease path holds
  now,      \* the clock every client reads
  pc,       \* what each client is about to do
  pending,  \* the record each client is about to write
  attempt,  \* acquireWriterLease: attempts made
  retries,  \* replaceFileWithRetry: renames retried
  ticket,   \* the lease id a client was given (0: none)
  inside,   \* the clients whose last acquire succeeded: they write the workspace
  issued,   \* lease ids issued
  faults,   \* renames failed
  crashes   \* processes died

vars == <<file, now, pc, pending, attempt, retries, ticket, inside, issued, faults, crashes>>
bounds == <<issued, faults, crashes>>

Labels == {"idle", "create", "fill", "look", "renew", "seize", "reset", "beat",
           "resetBeat", "lookBeat", "lookRelease", "unlink", "dead"}

\* The labels at which a record waits to be written.
Writing == {"create", "fill", "renew", "seize", "reset", "beat", "resetBeat"}

IsLease(f) == f \in Lease
Age(l) == IF now > l.beat THEN now - l.beat ELSE 0
\* A slip: stale already at the timeout.
IsStaleAtTimeout(l) == Age(l) >= StaleAfter
IsStale(l) == Age(l) > StaleAfter

\* A slip: whoever asks matches.
MatchesAnyone(c, l) == TRUE
\* A client is told of the lease by its owner string or by its lease id.
Matches(c, l) == l.owner = OwnerOf[c] \/ (ticket[c] # 0 /\ l.id = ticket[c])

Alive(c) == pc[c] # "dead"

Goto(c, label) == pc' = [pc EXCEPT ![c] = label]

--------------------------------------------------------------------------------
Init ==
  /\ file = NoFile
  /\ now = 0
  /\ pc = [c \in Clients |-> "idle"]
  /\ pending = [c \in Clients |-> NoLease]
  /\ attempt = [c \in Clients |-> 0]
  /\ retries = [c \in Clients |-> 0]
  /\ ticket = [c \in Clients |-> 0]
  /\ inside = {}
  /\ issued = 0
  /\ faults = 0
  /\ crashes = 0

(******************************************************************************)
(* acquireWriterLease.                                                        *)
(******************************************************************************)
\* The record of an attempt is built, with its time stamp, before the create.
FreshLease(c) == [owner |-> OwnerOf[c], id |-> 0, beat |-> now]

\* An acquire issues at most one lease id: the bound counts the acquires under way.
StartAcquire(c) ==
  /\ pc[c] = "idle"
  /\ issued + Cardinality({d \in Clients : pc[d] \in {"create", "look"}}) < MaxLeases
  /\ Goto(c, "create")
  /\ pending' = [pending EXCEPT ![c] = FreshLease(c)]
  /\ attempt' = [attempt EXCEPT ![c] = 0]
  /\ UNCHANGED <<file, now, retries, ticket, inside, bounds>>

\* A slip: flag 'w', which truncates a file that is there.
CreateOrTruncate(c) ==
  /\ pc[c] = "create"
  /\ file' = Blank(c)
  /\ issued' = issued + 1
  /\ pending' = [pending EXCEPT ![c].id = issued + 1]
  /\ Goto(c, "fill")
  /\ UNCHANGED <<now, attempt, retries, ticket, inside, faults, crashes>>

\* writeFile with flag 'wx': the open either makes the file or fails with EEXIST.
CreateOnly(c) ==
  /\ pc[c] = "create"
  /\ IF file = NoFile
       THEN /\ file' = Blank(c)
            /\ issued' = issued + 1
            /\ pending' = [pending EXCEPT ![c].id = issued + 1]
            /\ Goto(c, "fill")
       ELSE /\ Goto(c, "look")
            /\ UNCHANGED <<file, issued, pending>>
  /\ UNCHANGED <<now, attempt, retries, ticket, inside, faults, crashes>>

\* The acquire returns with a lease in hand.
Succeed(c, id) ==
  /\ Goto(c, "idle")
  /\ ticket' = [ticket EXCEPT ![c] = id]
  /\ inside' = inside \cup {c}
  /\ pending' = [pending EXCEPT ![c] = NoLease]

\* A command returns without the lease, or throws: the client stops writing.
Fail(c) ==
  /\ Goto(c, "idle")
  /\ inside' = inside \ {c}
  /\ pending' = [pending EXCEPT ![c] = NoLease]
  /\ UNCHANGED ticket

\* The body goes to the file this client created, which the path may have lost.
Fill(c) ==
  /\ pc[c] = "fill"
  /\ file' = IF file = Blank(c) THEN pending[c] ELSE file
  /\ Succeed(c, pending[c].id)
  /\ UNCHANGED <<now, attempt, retries, bounds>>

\* A slip: attempts are not counted.
RetryForever(c) ==
  /\ pending' = [pending EXCEPT ![c] = FreshLease(c)]
  /\ Goto(c, "create")
  /\ UNCHANGED <<attempt, ticket, inside>>

\* Neither the lease nor a reason to give up: wait and build the next attempt.
Retry(c) ==
  /\ attempt[c] < MaxAttempts
  /\ attempt' = [attempt EXCEPT ![c] = @ + 1]
  /\ pending' = [pending EXCEPT ![c] = FreshLease(c)]
  /\ Goto(c, "create")
  /\ UNCHANGED <<ticket, inside>>

\* Out of attempts: status busy.
Busy(c) == attempt[c] >= MaxAttempts /\ Fail(c) /\ UNCHANGED attempt

\* readLease found no file, or an empty one.
LookRace(c) ==
  /\ pc[c] = "look"
  /\ ~IsLease(file)
  /\ Retry(c) \/ Busy(c)
  /\ UNCHANGED <<file, now, retries, bounds>>

\* A slip: renewed with the attempt's own record, which has no id yet.
LookOwnFresh(c) ==
  /\ pc[c] = "look"
  /\ IsLease(file)
  /\ file.owner = OwnerOf[c]
  /\ retries' = [retries EXCEPT ![c] = 0]
  /\ Goto(c, "renew")
  /\ UNCHANGED <<file, now, pending, attempt, ticket, inside, bounds>>

\* The lease already belongs to this owner: renew it, stale or not.
LookOwn(c) ==
  /\ pc[c] = "look"
  /\ IsLease(file)
  /\ file.owner = OwnerOf[c]
  /\ pending' = [pending EXCEPT ![c] = [file EXCEPT !.beat = now]]
  /\ retries' = [retries EXCEPT ![c] = 0]
  /\ Goto(c, "renew")
  /\ UNCHANGED <<file, now, attempt, ticket, inside, bounds>>

\* A slip: takes over without being told to.
TakesOverAnyway(c) == TRUE
TakesOver(c) == c \in Forcers

\* A slip: the new owner keeps the old lease's id.
TakenOverInPlace(c) == [file EXCEPT !.owner = OwnerOf[c], !.beat = now]
TakenOver(c) == [owner |-> OwnerOf[c], id |-> issued + 1, beat |-> now]

\* Another owner's stale lease: taken over with --force-takeover, else reported.
LookStale(c) ==
  /\ pc[c] = "look"
  /\ IsLease(file)
  /\ file.owner # OwnerOf[c]
  /\ IsStale(file)
  /\ IF TakesOver(c)
       THEN /\ issued' = issued + 1
            /\ pending' = [pending EXCEPT ![c] = TakenOver(c)]
            /\ retries' = [retries EXCEPT ![c] = 0]
            /\ Goto(c, "seize")
            /\ UNCHANGED <<ticket, inside>>
       ELSE Fail(c) /\ UNCHANGED <<issued, retries>>
  /\ UNCHANGED <<file, now, attempt, faults, crashes>>

\* Another owner's fresh lease.
LookFresh(c) ==
  /\ pc[c] = "look"
  /\ IsLease(file)
  /\ file.owner # OwnerOf[c]
  /\ ~IsStale(file)
  /\ Retry(c) \/ Busy(c)
  /\ UNCHANGED <<file, now, retries, bounds>>

(******************************************************************************)
(* writeJsonAtomic: the rename that puts a decided record in place, whatever  *)
(* the path holds by then.                                                    *)
(******************************************************************************)
ReplaceForAcquire(c) ==
  /\ pc[c] \in {"renew", "seize"}
  /\ file' = pending[c]
  /\ Succeed(c, pending[c].id)
  /\ UNCHANGED <<now, attempt, retries, bounds>>

ReplaceForHeartbeat(c) ==
  /\ pc[c] = "beat"
  /\ file' = pending[c]
  /\ Goto(c, "idle")
  /\ pending' = [pending EXCEPT ![c] = NoLease]
  /\ UNCHANGED <<now, attempt, retries, ticket, inside, bounds>>

\* The rename fails with a retryable error: rm follows, or the error is thrown.
RenameFails(c) ==
  /\ pc[c] \in {"renew", "seize", "beat"}
  /\ faults < MaxFaults
  /\ faults' = faults + 1
  /\ IF retries[c] < RenameRetries
       THEN /\ Goto(c, IF pc[c] = "beat" THEN "resetBeat" ELSE "reset")
            /\ UNCHANGED <<pending, inside, ticket>>
       ELSE Fail(c)
  /\ UNCHANGED <<file, now, attempt, retries, issued, crashes>>

\* Any call of a command fails with an error the code does not handle, and leaves the path as
\* it is: the file just made and not yet written, the target of a rename, the lease to release.
Throws(c) ==
  /\ CallsFail
  /\ pc[c] \notin {"idle", "dead"}
  /\ Fail(c)
  /\ UNCHANGED <<file, now, attempt, retries, bounds>>

\* rm of the target before the next rename: the path is free for a moment.
ResetTarget(c) ==
  /\ pc[c] \in {"reset", "resetBeat"}
  /\ file' = NoFile
  /\ retries' = [retries EXCEPT ![c] = @ + 1]
  /\ Goto(c, IF pc[c] = "resetBeat" THEN "beat" ELSE "renew")
  /\ UNCHANGED <<now, pending, attempt, ticket, inside, bounds>>

(******************************************************************************)
(* heartbeatWriterLease and releaseWriterLease.                               *)
(******************************************************************************)
StartHeartbeat(c) ==
  /\ pc[c] = "idle"
  /\ Goto(c, "lookBeat")
  /\ UNCHANGED <<file, now, pending, attempt, retries, ticket, inside, bounds>>

\* A slip: the record to write is not built.
LookBeatForgets(c) ==
  /\ pc[c] = "lookBeat"
  /\ IF IsLease(file) /\ Matches(c, file)
       THEN Goto(c, "beat") /\ UNCHANGED <<pending, inside, ticket>>
       ELSE Fail(c)
  /\ UNCHANGED <<file, now, attempt, retries, bounds>>

LookBeat(c) ==
  /\ pc[c] = "lookBeat"
  /\ IF IsLease(file) /\ Matches(c, file)
       THEN /\ pending' = [pending EXCEPT ![c] = [file EXCEPT !.beat = now]]
            /\ retries' = [retries EXCEPT ![c] = 0]
            /\ Goto(c, "beat")
            /\ UNCHANGED <<inside, ticket>>
       ELSE Fail(c) /\ UNCHANGED retries
  /\ UNCHANGED <<file, now, attempt, bounds>>

\* A slip: it is still writing.
StartReleaseEarly(c) ==
  /\ pc[c] = "idle"
  /\ Goto(c, "lookRelease")
  /\ UNCHANGED <<file, now, pending, attempt, retries, ticket, inside, bounds>>

\* The client has finished writing when it gives the lease back.
StartRelease(c) ==
  /\ pc[c] = "idle"
  /\ Goto(c, "lookRelease")
  /\ inside' = inside \ {c}
  /\ UNCHANGED <<file, now, pending, attempt, retries, ticket, bounds>>

LookRelease(c) ==
  /\ pc[c] = "lookRelease"
  /\ IF IsLease(file) /\ Matches(c, file)
       THEN Goto(c, "unlink") /\ UNCHANGED <<pending, inside, ticket>>
       ELSE Fail(c)
  /\ UNCHANGED <<file, now, attempt, retries, bounds>>

\* rm of the path, with no second look at who holds it.
Unlink(c) ==
  /\ pc[c] = "unlink"
  /\ file' = NoFile
  /\ Goto(c, "idle")
  /\ UNCHANGED <<now, pending, attempt, retries, ticket, inside, bounds>>

--------------------------------------------------------------------------------
\* A process dies; what it wrote stays behind.
Crash(c) ==
  /\ Alive(c)
  /\ crashes < MaxCrashes
  /\ crashes' = crashes + 1
  /\ Goto(c, "dead")
  /\ inside' = inside \ {c}
  /\ pending' = [pending EXCEPT ![c] = NoLease]
  /\ ticket' = [ticket EXCEPT ![c] = 0]
  /\ UNCHANGED <<file, now, attempt, retries, issued, faults>>

\* A new process of the same session: same owner string, nothing remembered.
Restart(c) ==
  /\ Restarts
  /\ pc[c] = "dead"
  /\ Goto(c, "idle")
  /\ UNCHANGED <<file, now, pending, attempt, retries, ticket, inside, bounds>>

\* "Renew heartbeat every 30 to 60 seconds": no lease of a live client is ever
\* past the timeout, in the file or on its way there.
KeptFresh ==
  \A c \in Clients : Alive(c) =>
    /\ (IsLease(file) /\ file.owner = OwnerOf[c]) => now < file.beat + StaleAfter
    /\ pc[c] \in Writing =>
         now < pending[c].beat + StaleAfter

Tick ==
  /\ now < MaxTime
  /\ Punctual => KeptFresh
  /\ now' = now + 1
  /\ UNCHANGED <<file, pc, pending, attempt, retries, ticket, inside, bounds>>

ClientStep(c) ==
  \/ CreateOnly(c) \/ Fill(c)
  \/ LookRace(c) \/ LookOwn(c) \/ LookStale(c) \/ LookFresh(c)
  \/ ReplaceForAcquire(c) \/ ReplaceForHeartbeat(c)
  \/ RenameFails(c) \/ Throws(c) \/ ResetTarget(c)
  \/ LookBeat(c) \/ LookRelease(c) \/ Unlink(c)

Next ==
  \/ \E c \in Clients :
       \/ StartAcquire(c) \/ StartHeartbeat(c) \/ StartRelease(c)
       \/ ClientStep(c)
       \/ Crash(c) \/ Restart(c)
  \/ Tick

Spec == Init /\ [][Next]_vars

\* A live process is scheduled: the awaits of its command complete.
FairSpec == Spec /\ \A c \in Clients : WF_vars(ClientStep(c))

\* ... and a session that wants the lease asks for it again and again as time passes,
\* whatever else it does in between.
RecoverySpec ==
  FairSpec /\ WF_vars(Tick) /\ \A c \in Forcers : SF_vars(StartAcquire(c))

--------------------------------------------------------------------------------
\* The types of the variables.
TypeOK ==
  /\ file \in {NoFile} \cup Blanks \cup Lease
  /\ now \in Nat
  /\ pc \in [Clients -> Labels]
  /\ pending \in [Clients -> {NoLease} \cup Lease]
  /\ \A c \in Clients : pc[c] \in Writing => pending[c] \in Lease
  /\ attempt \in [Clients -> Nat]
  /\ retries \in [Clients -> Nat]
  /\ ticket \in [Clients -> Nat]
  /\ inside \subseteq Clients
  /\ issued \in Nat
  /\ faults \in Nat
  /\ crashes \in Nat

\* The file holds a lease of this client's owner.
Holds(c) == IsLease(file) /\ file.owner = OwnerOf[c]

\* "Prevents overlapping writers in the same repo scope": the clients that were
\* told they hold the lease all belong to one owner.
OneWriter == \A c, d \in inside : OwnerOf[c] = OwnerOf[d]

\* A client that was told it holds the lease, and was not told it lost it, can
\* prove it: the file still carries its owner and the very id it was given.
HoldersHaveTheLease == \A c \in inside : Holds(c) /\ file.id = ticket[c]

\* releaseWriterLease removes what it looked at: a lease only disappears by its
\* own owner's hand, never by a release that read an earlier lease.
OnlyOwnersRemove ==
  [][(IsLease(file) /\ file' = NoFile) =>
       \E c \in Clients : pc[c] = "unlink" /\ file.owner = OwnerOf[c]]_vars

\* No write brings an older lease or an older heartbeat back: ids in the file
\* only grow, and the heartbeat of one id never goes back in time.
Advances ==
  (IsLease(file) /\ IsLease(file')) =>
    \/ file'.id > file.id
    \/ file'.id = file.id /\ file'.owner = file.owner /\ file'.beat >= file.beat
NeverBackwards == [][Advances]_vars

\* Takeovers are as safe among punctual owners as long as the file system renames
\* over an open file: a rename that failed removes the target before its last try,
\* and lets somebody in whom the last try overwrites.
SafeUntilRenameFails == faults = 0 => OneWriter /\ HoldersHaveTheLease
NeverBackwardsUntilRenameFails == [][faults' = 0 => Advances]_vars

\* Every lease command returns: the retry loop of acquireWriterLease and the
\* rename loop of replaceFileWithRetry both give up.
CommandsReturn ==
  \A c \in Clients :
    (pc[c] \notin {"idle", "dead"}) ~> (pc[c] \in {"idle", "dead"})

\* "treat stale leases as recoverable after the configured timeout": a file its
\* creator will never fill does not stay in the way of a living session that forces
\* takeovers and goes on asking (the bound on leases must not be what stops it).
Orphaned == \E c \in Clients : file = Blank(c) /\ pc[c] # "fill"
Asking == issued < MaxLeases /\ \E c \in Forcers : Alive(c)
OrphansRecovered == Orphaned /\ Asking ~> ~Orphaned

\* The clients never take over, the file system renames over an open file, and
\* no two clients share an owner string.
Cooperative ==
  /\ Forcers = {}
  /\ MaxFaults = 0
  /\ \A c, d \in Clients : OwnerOf[c] = OwnerOf[d] => c = d

\* The scope's holder is the owner named in the file, or the one about to be.
holder ==
  IF IsLease(file) THEN file.owner
  ELSE IF file = NoFile THEN NoFile
  ELSE OwnerOf[file.creator]

Promise == INSTANCE SingleWriter
  WITH Parties <- Owners, Nobody <- NoFile, writers <- {OwnerOf[c] : c \in inside}

\* The lease implements the abstract single-writer scope, step by step.
KeepsPromise == Promise!Spec

(******************************************************************************)
(* Why the scope is safe without takeovers: between looking and writing, the  *)
(* lease a client acts on cannot change under it, because only its own owner  *)
(* would touch it.                                                            *)
(******************************************************************************)
\* No record is ever written over another owner's.
NoSeizure == \A c \in Clients : pc[c] \notin {"seize", "reset", "resetBeat"}

\* The file this client made is still where it made it.
FillsItsOwn ==
  \A c \in Clients : pc[c] = "fill" =>
    /\ file = Blank(c)
    /\ pending[c].owner = OwnerOf[c]
    /\ pending[c].id \in 1..issued
    /\ \A d \in Clients : ticket[d] # pending[c].id

\* What an attempt will write names its own owner.
CreatesItsOwn ==
  \A c \in Clients : pc[c] = "create" => pending[c].owner = OwnerOf[c]

\* What was read before a rename is still there at the rename.
RenewsWhatItRead ==
  \A c \in Clients : pc[c] \in {"renew", "beat"} =>
    /\ Holds(c)
    /\ pending[c].owner = OwnerOf[c]
    /\ pending[c].id = file.id
    /\ pending[c].beat >= file.beat

\* What was read before an rm is still there at the rm, and its reader has left.
UnlinksWhatItRead ==
  \A c \in Clients :
    /\ pc[c] = "unlink" => Holds(c)
    /\ pc[c] \in {"lookRelease", "unlink"} => c \notin inside

\* A lease id names one owner for ever.
TicketsAreTrue ==
  /\ \A c \in Clients : ticket[c] <= issued
  /\ IsLease(file) =>
       /\ file.id \in 1..issued
       /\ \A c \in Clients : ticket[c] = file.id => file.owner = OwnerOf[c]

\* No time stamp is from the future.
BeatsArePast ==
  /\ IsLease(file) => file.beat <= now
  /\ \A c \in Clients : pending[c] \in Lease => pending[c].beat <= now

Undisturbed ==
  /\ NoSeizure
  /\ BeatsArePast
  /\ FillsItsOwn
  /\ CreatesItsOwn
  /\ RenewsWhatItRead
  /\ UnlinksWhatItRead
  /\ TicketsAreTrue
  /\ HoldersHaveTheLease

(******************************************************************************)
(* Why one client may take over all the same: it only ever replaces the lease *)
(* of a process that died, which nobody else touches, until a rename fails.   *)
(******************************************************************************)
\* Takeovers: owners that keep their lease fresh and never come back from the dead, at most
\* one client that forces, one client per owner string.
Attended ==
  /\ Punctual
  /\ ~Restarts
  /\ \A c, d \in Forcers : c = d
  /\ \A c, d \in Clients : OwnerOf[c] = OwnerOf[d] => c = d

\* No live client's lease is past the timeout, in the file or on its way there.
LiveLeasesAreFresh ==
  \A c \in Clients : Alive(c) =>
    /\ Holds(c) => now <= file.beat + StaleAfter
    /\ pc[c] \in Writing => now <= pending[c].beat + StaleAfter

\* Nobody is between an rm and its rename.
NoReset == \A c \in Clients : pc[c] \notin {"reset", "resetBeat"}

\* Who died does not write.
DeadAreOut == \A c \in inside : Alive(c)

\* What a forcer is about to take over belongs to a process that died, and its own record
\* has an id of its own.
SeizesFromTheDead ==
  \A c \in Clients : pc[c] = "seize" =>
    /\ c \in Forcers
    /\ IsLease(file)
    /\ \A d \in Clients : OwnerOf[d] = file.owner => pc[d] = "dead"
    /\ pending[c].owner = OwnerOf[c]
    /\ pending[c].id > file.id
    /\ pending[c].id \in 1..issued
    /\ \A d \in Clients : ticket[d] # pending[c].id

\* The inductive invariant of attended leases.
Watched ==
  /\ LiveLeasesAreFresh
  /\ NoReset
  /\ DeadAreOut
  /\ SeizesFromTheDead
  /\ BeatsArePast
  /\ FillsItsOwn
  /\ CreatesItsOwn
  /\ RenewsWhatItRead
  /\ UnlinksWhatItRead
  /\ TicketsAreTrue
  /\ HoldersHaveTheLease
WatchedUntilRenameFails == faults = 0 => Watched
================================================================================
