----------------------------- MODULE RuntimeHarness -----------------------------
(******************************************************************************)
(* The supervisor commands of packages/runtime-harness/index.mjs: status,     *)
(* stop, resume and step, run by processes that share one runtime directory.  *)
(* Each loads the state file first, works on its copy, and writes the whole   *)
(* copy back; only step takes the writer lease.  A step of this module ends   *)
(* at each await that lets another process see or change a file.              *)
(*                                                                            *)
(* The lease is used through its promise (SingleWriter, which WriterLease     *)
(* implements when nobody takes over): acquired if free, renewed if one's     *)
(* own, refused otherwise.                                                    *)
(******************************************************************************)
EXTENDS Naturals

CONSTANTS
  Procs,      \* the processes that run commands
  Owners,     \* the lease owners they present
  OwnerOf,    \* the owner of each process
  Lanes,      \* the lanes a step may be asked to track
  CycleCap,   \* bound: the cycle counter stays here
  MaxCrashes, \* bound: processes that die, and releases that throw
  None,       \* no lane, no blocker, no holder, no state file
  Torn        \* a file truncated and not yet written: JSON.parse throws on it

Statuses == {"idle", "running", "paused", "blocked"}

\* The part of the state file the commands read and write.
State == [cycle : Nat, status : Statuses, stopRequested : BOOLEAN,
          activeLane : Lanes \cup {None}]

ASSUME ProcsAssumption == OwnerOf \in [Procs -> Owners]
ASSUME BoundsAssumption == CycleCap \in Nat /\ MaxCrashes \in Nat
ASSUME NullsAssumption ==
  /\ None \notin Owners \cup Lanes \cup State
  /\ Torn \notin State \cup {None, "absent", "present"}

VARIABLES
  stateFile,   \* delivery-agent-state.json: None, Torn or a state
  stopFile,    \* stop-request.json: "absent", Torn or "present"
  blockerFile, \* last-blocker.json: None or the lane it is about
  laneFiles,   \* lanes/<lane>.json
  turnFiles,   \* the cycles that have a file under turns/
  lease,       \* the holder of the writer lease
  pc,          \* what each process is about to do
  action,      \* the command each process runs
  lane,        \* the lane its step was asked to track: None or [id, blocked]
  mem,         \* its copy of the state
  outcome,     \* the outcome its command will report
  crashes      \* processes that died, and releases that threw

files == <<stateFile, stopFile, blockerFile, laneFiles, turnFiles>>
vars == <<files, lease, pc, action, lane, mem, outcome, crashes>>

Requests == [id : Lanes, blocked : BOOLEAN] \cup {None}
Actions == {"status", "stop", "resume", "step"}
Outcomes == {"", "status", "stop-requested", "resumed", "lane-tracked", "idle",
             "lease-blocked", "error"}
Labels == {"idle", "load", "status", "stop", "requested", "resume", "acquire", "refused",
           "look", "lane", "blocker", "save", "write", "turn", "release", "done"}

\* buildEmptyState.
EmptyState == [cycle |-> 0, status |-> "idle", stopRequested |-> FALSE,
               activeLane |-> None]

NextCycle(n) == IF n < CycleCap THEN n + 1 ELSE n

Goto(p, label) == pc' = [pc EXCEPT ![p] = label]
Report(p, o) == outcome' = [outcome EXCEPT ![p] = o]

--------------------------------------------------------------------------------
Init ==
  /\ stateFile = None
  /\ stopFile = "absent"
  /\ blockerFile = None
  /\ laneFiles = {}
  /\ turnFiles = {}
  /\ lease = None
  /\ pc = [p \in Procs |-> "idle"]
  /\ action = [p \in Procs |-> "status"]
  /\ lane = [p \in Procs |-> None]
  /\ mem = [p \in Procs |-> EmptyState]
  /\ outcome = [p \in Procs |-> ""]
  /\ crashes = 0

(******************************************************************************)
(* runRuntimeSupervisor: the state is loaded before the command is chosen,    *)
(* and before any lease is asked for.                                         *)
(******************************************************************************)
Begin(p, a, request) ==
  /\ pc[p] = "idle"
  /\ action' = [action EXCEPT ![p] = a]
  /\ lane' = [lane EXCEPT ![p] = request]
  /\ Report(p, "")
  /\ Goto(p, "load")
  /\ UNCHANGED <<files, lease, mem, crashes>>

\* A step between acquiring the lease and its finally block.
InTurn(p) ==
  \/ pc[p] \in {"look", "lane", "blocker", "turn", "release"}
  \/ pc[p] \in {"save", "write"} /\ action[p] = "step" /\ outcome[p] # "lease-blocked"

\* An exception ends the command, a turn's by way of its finally block.
Throw(p) ==
  /\ Report(p, "error")
  /\ Goto(p, IF InTurn(p) THEN "release" ELSE "done")
  /\ UNCHANGED mem

FirstLabel(a) == IF a = "step" THEN "acquire" ELSE a

Load(p) ==
  /\ pc[p] = "load"
  /\ IF stateFile = Torn
       THEN Throw(p)
       ELSE /\ mem' = [mem EXCEPT ![p] = IF stateFile = None THEN EmptyState ELSE stateFile]
            /\ Goto(p, FirstLabel(action[p]))
            /\ UNCHANGED outcome
  /\ UNCHANGED <<files, lease, action, lane, crashes>>

(******************************************************************************)
(* runStatusAction, runStopAction, runResumeAction: no lease.                 *)
(******************************************************************************)
Status(p) ==
  /\ pc[p] = "status"
  /\ IF stopFile = Torn
       THEN Throw(p)
       ELSE /\ mem' = [mem EXCEPT ![p].stopRequested = (stopFile = "present")]
            /\ Report(p, "status")
            /\ Goto(p, "save")
  /\ UNCHANGED <<files, lease, action, lane, crashes>>

\* The stop request is opened for writing ...
Stop(p) ==
  /\ pc[p] = "stop"
  /\ stopFile' = Torn
  /\ Goto(p, "requested")
  /\ UNCHANGED <<stateFile, blockerFile, laneFiles, turnFiles, lease, action, lane, mem,
                 outcome, crashes>>

\* A slip: a status that nothing else knows.
RequestedStopped(p) ==
  /\ pc[p] = "requested"
  /\ stopFile' = "present"
  /\ mem' = [mem EXCEPT ![p].stopRequested = TRUE, ![p].status = "stopped"]
  /\ Report(p, "stop-requested")
  /\ Goto(p, "save")
  /\ UNCHANGED <<stateFile, blockerFile, laneFiles, turnFiles, lease, action, lane, crashes>>

\* ... and written, unless a resume removed the file meanwhile: then the text is lost.  Beside
\* another stop it may land over a longer text, or in a file removed before that one opened its
\* own.  The copy of the state is paused.
Requested(p) ==
  /\ pc[p] = "requested"
  /\ \/ stopFile # "absent" /\ stopFile' = "present"
     \/ stopFile = "absent" /\ UNCHANGED stopFile
     \/ stopFile = "present" /\ stopFile' = Torn
     \/ stopFile = Torn /\ UNCHANGED stopFile /\ \E q \in Procs \ {p} : pc[q] = "requested"
  /\ mem' = [mem EXCEPT ![p].stopRequested = TRUE, ![p].status = "paused"]
  /\ Report(p, "stop-requested")
  /\ Goto(p, "save")
  /\ UNCHANGED <<stateFile, blockerFile, laneFiles, turnFiles, lease, action, lane, crashes>>

Resume(p) ==
  /\ pc[p] = "resume"
  /\ stopFile' = "absent"
  /\ mem' = [mem EXCEPT ![p].stopRequested = FALSE, ![p].status = "idle"]
  /\ Report(p, "resumed")
  /\ Goto(p, "save")
  /\ UNCHANGED <<stateFile, blockerFile, laneFiles, turnFiles, lease, action, lane, crashes>>

(******************************************************************************)
(* runStepAction.                                                             *)
(******************************************************************************)
\* A slip: another owner's lease is taken for one's own.
AcquireAnyway(p) ==
  /\ pc[p] = "acquire"
  /\ lease' = OwnerOf[p]
  /\ Goto(p, "look")
  /\ UNCHANGED <<files, action, lane, mem, outcome, crashes>>

Acquire(p) ==
  /\ pc[p] = "acquire"
  /\ IF lease \in {None, OwnerOf[p]}
       THEN lease' = OwnerOf[p] /\ Goto(p, "look")
       ELSE Goto(p, "refused") /\ UNCHANGED lease
  /\ UNCHANGED <<files, action, lane, mem, outcome, crashes>>

\* A slip: a refused step clears the last blocker.
RefusedGoesOn(p) ==
  /\ pc[p] = "refused"
  /\ mem' = [mem EXCEPT ![p].status = "blocked"]
  /\ Report(p, "lease-blocked")
  /\ Goto(p, "blocker")
  /\ UNCHANGED <<files, lease, action, lane, crashes>>

\* Refused: the state is saved as blocked all the same, without the lease.
Refused(p) ==
  /\ pc[p] = "refused"
  /\ IF stopFile = Torn
       THEN Throw(p)
       ELSE /\ mem' = [mem EXCEPT ![p].status = "blocked",
                                  ![p].stopRequested = (stopFile = "present")]
            /\ Report(p, "lease-blocked")
            /\ Goto(p, "save")
  /\ UNCHANGED <<files, lease, action, lane, crashes>>

\* With the lease: read the stop request, then pause, track the lane or idle.
Look(p) ==
  /\ pc[p] = "look"
  /\ \/ stopFile = Torn /\ Throw(p)
     \/ /\ stopFile = "present"
        /\ mem' = [mem EXCEPT ![p].cycle = NextCycle(@), ![p].stopRequested = TRUE,
                              ![p].status = "paused"]
        /\ Report(p, "stop-requested")
        /\ Goto(p, "save")
     \/ /\ stopFile = "absent"
        /\ lane[p] # None
        /\ mem' = [mem EXCEPT ![p].cycle = NextCycle(@), ![p].stopRequested = FALSE,
                              ![p].status = "running", ![p].activeLane = lane[p].id]
        /\ Report(p, "lane-tracked")
        /\ Goto(p, "lane")
     \/ /\ stopFile = "absent"
        /\ lane[p] = None
        /\ mem' = [mem EXCEPT ![p].cycle = NextCycle(@), ![p].stopRequested = FALSE,
                              ![p].status = "idle", ![p].activeLane = None]
        /\ Report(p, "idle")
        /\ Goto(p, "blocker")
  /\ UNCHANGED <<files, lease, action, lane, crashes>>

\* A slip: the write is given up quietly.
SkipLaneArtifact(p) ==
  /\ pc[p] = "lane"
  /\ Goto(p, "blocker")
  /\ UNCHANGED <<files, lease, action, lane, mem, outcome, crashes>>

WriteLaneArtifact(p) ==
  /\ pc[p] = "lane"
  /\ laneFiles' = laneFiles \cup {lane[p].id}
  /\ Goto(p, "blocker")
  /\ UNCHANGED <<stateFile, stopFile, blockerFile, turnFiles, lease, action, lane, mem,
                 outcome, crashes>>

\* A lane without a blocker, and an idle step, clear what another lane reported.
WriteLastBlocker(p) ==
  /\ pc[p] = "blocker"
  /\ blockerFile' = IF lane[p] # None /\ lane[p].blocked THEN lane[p].id ELSE None
  /\ Goto(p, "save")
  /\ UNCHANGED <<stateFile, stopFile, laneFiles, turnFiles, lease, action, lane, mem,
                 outcome, crashes>>

(******************************************************************************)
(* finalizeState: truncate the state file, then write the copy to it.  The    *)
(* summary it adds (counts of the directory's files) is left out.             *)
(******************************************************************************)
Save(p) ==
  /\ pc[p] = "save"
  /\ stateFile' = Torn
  /\ Goto(p, "write")
  /\ UNCHANGED <<stopFile, blockerFile, laneFiles, turnFiles, lease, action, lane, mem,
                 outcome, crashes>>

\* Where a command goes from its save.
\* Slips: a refused step writes a turn; an idle step returns before its turn.
AfterSaveRefused(p) == IF action[p] = "step" THEN "turn" ELSE "done"
AfterSaveTracked(p) == IF outcome[p] = "lane-tracked" THEN "turn" ELSE "done"
AfterSave(p) ==
  IF action[p] = "step" /\ outcome[p] # "lease-blocked" THEN "turn" ELSE "done"

\* A step that holds the lease has a turn to write; the other commands are done.
Write(p) ==
  /\ pc[p] = "write"
  /\ \/ stateFile' = mem[p]
     \/ stateFile # Torn /\ stateFile' = Torn  \* over a longer text written meanwhile
  /\ Goto(p, AfterSave(p))
  /\ UNCHANGED <<stopFile, blockerFile, laneFiles, turnFiles, lease, action, lane, mem,
                 outcome, crashes>>

WriteTurn(p) ==
  /\ pc[p] = "turn"
  /\ turnFiles' = turnFiles \cup {mem[p].cycle}
  /\ Goto(p, "release")
  /\ UNCHANGED <<stateFile, stopFile, blockerFile, laneFiles, lease, action, lane, mem,
                 outcome, crashes>>

\* A slip: released after the last write, not in a finally block.
ReleaseIfNothingThrew(p) ==
  /\ pc[p] = "release"
  /\ lease' = IF outcome[p] # "error" THEN None ELSE lease
  /\ Goto(p, "done")
  /\ UNCHANGED <<files, action, lane, mem, outcome, crashes>>

\* The finally block; a lease that is not the owner's any more is left alone.
Release(p) ==
  /\ pc[p] = "release"
  /\ lease' = IF lease = OwnerOf[p] THEN None ELSE lease
  /\ Goto(p, "done")
  /\ UNCHANGED <<files, action, lane, mem, outcome, crashes>>

(******************************************************************************)
(* What fails.  A write, an append to the event log (otherwise left out) or   *)
(* an acquire may throw; a write that fails leaves its file as it is.         *)
(******************************************************************************)
HasWrites(p) ==
  \/ pc[p] \in {"stop", "requested", "resume", "acquire", "lane", "blocker"}
  \/ pc[p] \in {"save", "write", "turn"}
  \/ pc[p] = "release" /\ outcome[p] # "error"
  \/ pc[p] = "done" /\ AfterSave(p) = "done" /\ outcome[p] \notin {"status", "error"}

Fails(p) ==
  /\ HasWrites(p)
  /\ Throw(p)
  /\ UNCHANGED <<files, lease, action, lane, crashes>>

\* The finally block throws too, and leaves the lease.
ReleaseFails(p) ==
  /\ pc[p] = "release"
  /\ crashes < MaxCrashes
  /\ crashes' = crashes + 1
  /\ Report(p, "error")
  /\ Goto(p, "done")
  /\ UNCHANGED <<files, lease, action, lane, mem>>

--------------------------------------------------------------------------------
\* The process ends, and with it its copy of the state.
Exit(p) ==
  /\ Goto(p, "idle")
  /\ action' = [action EXCEPT ![p] = "status"]
  /\ lane' = [lane EXCEPT ![p] = None]
  /\ mem' = [mem EXCEPT ![p] = EmptyState]
  /\ Report(p, "")

Return(p) ==
  /\ pc[p] = "done"
  /\ Exit(p)
  /\ UNCHANGED <<files, lease, crashes>>

\* A process dies, in the middle of a command or between two (a daemon runs one after
\* another), and its files stay as they are.
Crash(p) ==
  /\ crashes < MaxCrashes
  /\ crashes' = crashes + 1
  /\ Exit(p)
  /\ UNCHANGED <<files, lease>>

Command(p) ==
  \/ Load(p) \/ Status(p) \/ Stop(p) \/ Requested(p) \/ Resume(p)
  \/ Acquire(p) \/ Refused(p) \/ Look(p) \/ WriteLaneArtifact(p) \/ WriteLastBlocker(p)
  \/ Save(p) \/ Write(p) \/ WriteTurn(p) \/ Release(p) \/ Fails(p) \/ ReleaseFails(p)

Next ==
  \E p \in Procs :
    \/ \E a \in Actions \ {"step"} : Begin(p, a, None)
    \/ \E request \in Requests : Begin(p, "step", request)
    \/ Command(p)
    \/ Return(p)
    \/ Crash(p)

Spec == Init /\ [][Next]_vars

--------------------------------------------------------------------------------
\* The types of the variables.
TypeOK ==
  /\ stateFile \in State \cup {None, Torn}
  /\ stopFile \in {"absent", "present", Torn}
  /\ blockerFile \in Lanes \cup {None}
  /\ laneFiles \subseteq Lanes
  /\ turnFiles \subseteq Nat
  /\ lease \in Owners \cup {None}
  /\ pc \in [Procs -> Labels]
  /\ action \in [Procs -> Actions]
  /\ lane \in [Procs -> Requests]
  /\ \A p \in Procs : pc[p] = "lane" => lane[p] # None
  /\ mem \in [Procs -> State]
  /\ outcome \in [Procs -> Outcomes]
  /\ crashes \in Nat

\* A turn works under the lease from beginning to end, with no gap at the
\* finally block: runStepAction releases last, whatever threw before.
TurnsHoldTheLease == \A p \in Procs : InTurn(p) => lease = OwnerOf[p]

\* However a turn ends, by its last write or by an exception, its lease is back:
\* only a process that died, or a release that threw, leaves a lease behind.
TurnsEndReleased ==
  [][\A p \in Procs :
       InTurn(p) /\ ~InTurn(p)' => lease' # OwnerOf[p] \/ crashes' > crashes]_vars

\* Commands other than step have labels of their own up to their save.
CommandsMatch ==
  \A p \in Procs : pc[p] \in {"status", "stop", "requested", "resume"} => action[p] # "step"

\* No two processes present the same owner: it is a session's, and a session
\* runs one command at a time.
DistinctOwners == \A p, q \in Procs : OwnerOf[p] = OwnerOf[q] => p = q

\* Lane and blocker artifacts change only in a turn of the lease's holder, and
\* never in a turn that saw the stop request.
GuardedArtifacts ==
  [][UNCHANGED <<laneFiles, blockerFile>> \/
       \E p \in Procs :
         InTurn(p) /\ lease = OwnerOf[p] /\ outcome[p] \in {"lane-tracked", "idle"}]_vars

\* "Make every turn restartable from durable state": whatever the order of writers
\* and wherever they die, the lane the state file calls active, and the lane the
\* last blocker is about, have an artifact file.
LanesAreOnFile ==
  /\ stateFile \in State => stateFile.activeLane \in laneFiles \cup {None}
  /\ blockerFile \in laneFiles \cup {None}

\* "status to print current lane": no command forgets a turn that is on file.
TurnsAreCounted ==
  stateFile \in State => \A n \in turnFiles : n <= stateFile.cycle

\* The turns keep the promise of the lease they hold: from the decision of the
\* step to its turn file only the holder writes.
Writing(p) == InTurn(p) /\ pc[p] \notin {"look", "release"}
Promise == INSTANCE SingleWriter
  WITH Parties <- Owners, Nobody <- None, holder <- lease,
       writers <- {OwnerOf[p] : p \in {q \in Procs : Writing(q)}}
KeepsPromise == Promise!Spec
================================================================================
