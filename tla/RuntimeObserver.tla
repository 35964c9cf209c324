----------------------------- MODULE RuntimeObserver -----------------------------
(******************************************************************************)
(* The daemon of packages/runtime-harness/observer.mjs: a loop that plans a   *)
(* lane, prepares its worker, runs one step of RuntimeHarness, lets the       *)
(* adapter execute the turn, and decides whether to go on.  Operators run     *)
(* status, stop, resume and single steps beside it.  The planner, the three   *)
(* worker hooks and the execution are the adapter's: they do any of the       *)
(* things the loop distinguishes.                                             *)
(******************************************************************************)
EXTENDS RuntimeHarness

CONSTANTS
  Observers,   \* the processes that are daemons; the others are operators
  ExecuteTurn, \* --execute-turn, with an adapter that can
  MaxCycles    \* the --max-cycles of the daemons launched with one

ASSUME ObserversAssumption == Observers \subseteq Procs
ASSUME OptionsAssumption ==
  ExecuteTurn \in BOOLEAN /\ MaxCycles \in Nat

VARIABLES
  opc,      \* where each daemon is in its cycle
  want,     \* the lane its scheduler decision asks for
  limit,    \* the --max-cycles each was launched with; 0 is until a stop request
  cycles,   \* cyclesCompleted, counted up to the limit
  exitCode, \* what it exited with; None if it never did or was killed
  drained   \* turns it went on to execute while a stop request stands; no part of the code

loopVars == <<opc, want, limit, cycles, exitCode>>
codeVars == <<vars, loopVars>>
allVars == <<codeVars, drained>>

LoopLabels == {"plan", "prepare", "bootstrap", "activate", "step", "stepping", "execute",
               "exited"}
ExitCodes == {0, 1, 10, 11, 12, 13, 14, 15, 16}
\* What executeTurn returns: no receipt, or one with this status or stopLoop.
Receipts == {"none", "completed", "blocked", "stop"}

LoopInit ==
  /\ Init
  /\ opc = [o \in Observers |-> "exited"]
  /\ want = [o \in Observers |-> None]
  /\ limit = [o \in Observers |-> 0]
  /\ cycles = [o \in Observers |-> 0]
  /\ exitCode = [o \in Observers |-> None]
  /\ drained = [o \in Observers |-> 0]

--------------------------------------------------------------------------------
At(o, label) == opc' = [opc EXCEPT ![o] = label]

Launch(o) ==
  /\ opc[o] = "exited"
  /\ At(o, "plan")
  /\ \E n \in {0, MaxCycles} : limit' = [limit EXCEPT ![o] = n]
  /\ exitCode' = [exitCode EXCEPT ![o] = None]
  /\ UNCHANGED <<vars, want, cycles>>

\* The loop returns and the process ends.
Leave(o, code) ==
  /\ At(o, "exited")
  /\ want' = [want EXCEPT ![o] = None]
  /\ limit' = [limit EXCEPT ![o] = 0]
  /\ cycles' = [cycles EXCEPT ![o] = 0]
  /\ exitCode' = [exitCode EXCEPT ![o] = code]

(******************************************************************************)
(* The scheduler decision.  An idle one still runs a step, with no lane       *)
(* unless the planner gave one all the same; a blocked one ends the loop      *)
(* before the stop request is ever looked at.  Whether an idle one ends it    *)
(* depends on --stop-on-idle; a launch may have it or not.                    *)
(******************************************************************************)
Decide(o, request, label) ==
  /\ want' = [want EXCEPT ![o] = request]
  /\ At(o, label)
  /\ UNCHANGED <<limit, cycles, exitCode>>

Plan(o) ==
  /\ opc[o] = "plan"
  /\ \/ Leave(o, 11)                                              \* scheduler-failed
     \/ Leave(o, 12)                                              \* scheduler-blocked
     \/ \E request \in Requests \ {None} : Decide(o, request, "prepare")  \* selected
     \/ Leave(o, 0)                                               \* idle-stop
     \/ \E request \in Requests : Decide(o, request, "step")       \* idle
  /\ UNCHANGED vars

(******************************************************************************)
(* The worker of a selected lane: checkout, bootstrap, branch.  Each hook may *)
(* fail or report blocked, which end the loop, or return nothing, which       *)
(* skips the hooks after it.                                                  *)
(******************************************************************************)
Hook(o, label, code, next) ==
  /\ opc[o] = label
  /\ \/ Leave(o, code)
     \/ At(o, next) /\ UNCHANGED <<want, limit, cycles, exitCode>>
     \/ At(o, "step") /\ UNCHANGED <<want, limit, cycles, exitCode>>
  /\ UNCHANGED vars

PrepareWorker(o) == Hook(o, "prepare", 13, "bootstrap")
BootstrapWorker(o) == Hook(o, "bootstrap", 14, "activate")
ActivateWorker(o) == Hook(o, "activate", 15, "step")

--------------------------------------------------------------------------------
\* runRuntimeWorkerStep.
Step(o) ==
  /\ opc[o] = "step"
  /\ Begin(o, "step", want[o])
  /\ At(o, "stepping")
  /\ UNCHANGED <<want, limit, cycles, exitCode>>

Stepping(o) == opc[o] = "stepping" /\ Command(o) /\ UNCHANGED loopVars

\* A slip: idle cycles do not count.
CountTracked(o) ==
  IF cycles[o] < limit[o] /\ outcome[o] = "lane-tracked" THEN cycles[o] + 1 ELSE cycles[o]
CountCycle(o) == IF cycles[o] < limit[o] THEN cycles[o] + 1 ELSE cycles[o]

\* Whether the state the step returned says that a stop was requested.
\* A slip: asked only of steps that tracked a lane.
SawStopOfLane(o) == outcome[o] = "lane-tracked" /\ mem[o].stopRequested
SawStop(o) == mem[o].stopRequested

\* The end of a cycle: the exits are tried in this order, then the loop sleeps.
Settle(o, receipt, completed) ==
  /\ Exit(o)
  /\ CASE outcome[o] = "lease-blocked" -> Leave(o, 10)            \* worker-failed
       [] outcome[o] # "lease-blocked" /\ SawStop(o) -> Leave(o, 0)
       [] outcome[o] # "lease-blocked" /\ ~SawStop(o) ->
            CASE receipt = "blocked" -> Leave(o, 16)
              [] receipt = "stop" -> Leave(o, 0)
              [] receipt \in {"none", "completed"} ->
                   IF limit[o] > 0 /\ completed >= limit[o]
                     THEN Leave(o, 0)
                     ELSE /\ At(o, "plan")
                          /\ want' = [want EXCEPT ![o] = None]
                          /\ cycles' = [cycles EXCEPT ![o] = completed]
                          /\ UNCHANGED <<limit, exitCode>>
  /\ UNCHANGED <<files, lease, crashes>>

(******************************************************************************)
(* The step is over and its lease released.  A step that returned 0 is        *)
(* executed, whatever its outcome; an exception ends the process.             *)
(******************************************************************************)
StepThrew(o) ==
  /\ opc[o] = "stepping"
  /\ pc[o] = "done"
  /\ outcome[o] = "error"
  /\ Leave(o, 1)
  /\ Exit(o)
  /\ UNCHANGED <<files, lease, crashes>>

Executes(o) == ExecuteTurn /\ outcome[o] # "lease-blocked"

StepReturned(o) ==
  /\ opc[o] = "stepping"
  /\ pc[o] = "done"
  /\ outcome[o] # "error"
  /\ IF Executes(o)
       THEN /\ At(o, "execute")
            /\ cycles' = [cycles EXCEPT ![o] = CountCycle(o)]
            /\ UNCHANGED <<vars, want, limit, exitCode>>
       ELSE Settle(o, "none", CountCycle(o))

ExecutionFailed(o) ==
  /\ opc[o] = "execute"
  /\ Leave(o, 16)
  /\ Exit(o)
  /\ UNCHANGED <<files, lease, crashes>>

Executed(o) ==
  /\ opc[o] = "execute"
  /\ \E receipt \in Receipts : Settle(o, receipt, cycles[o])

--------------------------------------------------------------------------------
\* The daemon is killed wherever it is.
Kill(o) ==
  /\ opc[o] # "exited"
  /\ crashes < MaxCrashes
  /\ crashes' = crashes + 1
  /\ Exit(o)
  /\ Leave(o, None)
  /\ UNCHANGED <<files, lease>>

ObserverStep(o) ==
  \/ Plan(o) \/ PrepareWorker(o) \/ BootstrapWorker(o) \/ ActivateWorker(o)
  \/ Step(o) \/ Stepping(o) \/ StepThrew(o) \/ StepReturned(o)
  \/ ExecutionFailed(o) \/ Executed(o)

Operator(p) ==
  /\ \/ \E a \in {"status", "stop", "resume"} : Begin(p, a, None)
     \/ \E request \in Requests : Begin(p, "step", request)
     \/ Command(p)
     \/ Return(p)
     \/ Crash(p)
  /\ UNCHANGED loopVars

LoopStep ==
  \/ \E o \in Observers : ObserverStep(o) \/ Launch(o) \/ Kill(o)
  \/ \E p \in Procs \ Observers : Operator(p)

\* Turns are counted from the writing of a stop request to the end of the daemon, or of the
\* request.
CountDrained ==
  drained' = [o \in Observers |->
    IF stopFile' # "present" \/ opc'[o] = "exited" THEN 0
    ELSE IF opc[o] # "execute" /\ opc'[o] = "execute" /\ drained[o] < 3
           THEN drained[o] + 1
           ELSE drained[o]]

LoopNext == LoopStep /\ CountDrained

LoopSpec == LoopInit /\ [][LoopNext]_allVars

\* The daemon's event loop keeps turning, its hooks return, and so does its
\* sleep.  Nobody has to launch a daemon or run a command.
FairLoopSpec == LoopSpec /\ \A o \in Observers : WF_codeVars(ObserverStep(o))

--------------------------------------------------------------------------------
\* The types of the variables.
LoopTypeOK ==
  /\ TypeOK
  /\ opc \in [Observers -> LoopLabels]
  /\ want \in [Observers -> Requests]
  /\ limit \in [Observers -> {0, MaxCycles}]
  /\ cycles \in [Observers -> 0..MaxCycles]
  /\ exitCode \in [Observers -> ExitCodes \cup {None}]
  /\ drained \in [Observers -> 0..3]

\* "0 = run until stop request": from a stop request that stays, a daemon ends,
\* however the operator's commands interleave with its steps.
StopsOnRequest ==
  \A o \in Observers : <>[](stopFile = "present") => []<>(opc[o] = "exited")

\* "Stop after N cycles": a daemon with a cycle limit ends, idle cycles included.
BoundedRunsEnd == \A o \in Observers : limit[o] > 0 ~> opc[o] = "exited"

\* "`stop` for graceful drain": once a stop request stands, a daemon goes on to execute two turns
\* at most, one whose step had looked before and the one whose step recorded the request,
\* whatever operators step, look up and save over it, as long as nobody resumes.
StopDrains == \A o \in Observers : drained[o] <= 2

\* A daemon leaves the lease behind only if somebody was killed: whatever ends the
\* loop, between its steps it holds nothing.
LeavesNoLease ==
  \A o \in Observers : opc[o] # "stepping" /\ crashes = 0 => lease # OwnerOf[o]
=================================================================================
