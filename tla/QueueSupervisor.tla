----------------------------- MODULE QueueSupervisor -----------------------------
(******************************************************************************)
(* tools/priority/queue-supervisor.mjs beside GitHub and a queue refresh.  A  *)
(* pass lists the open pull requests, picks the eligible ones in dependency   *)
(* order, and runs merge-sync for as many as the in-flight cap leaves room    *)
(* for.  A failed one is labelled queue-blocked, or queue-quarantine after    *)
(* two failures within a day.  The report carries the retry history and the   *)
(* controller file the mode to the next pass.  The hosted workflow runs one   *)
(* pass at a time and cancels it when the next one is due.  The reconciliation*)
(* of deferred branch deletions and the reports' other contents are left out. *)
(******************************************************************************)
EXTENDS QueueRefresh, ThroughputController, FiniteSetsExt

CONSTANT DependsOn \* per pull request: its Depends-On list

ASSUME DependsAssumption == DependsOn \in [Prs -> SUBSET Prs]

VARIABLES
  pass,       \* the running pass: its step and what it saw and did
  plan,       \* the pull requests it has still to process
  memory,     \* its retry history: failures per pull request, two or more as 2
  verdict,    \* its controller state
  history,    \* the retry history in the report file
  controller, \* the controller file
  failures    \* auxiliary: the failed tries of the last day, two or more as 2

passVars == <<pass, plan, memory, verdict>>
fileVars == <<history, controller>>
vars == <<refreshVars, passVars, fileVars, failures>>

PassSteps == {"idle", "admit", "sync", "update", "report", "state"}
Idle == [step |-> "idle", cap |-> 0, blind |-> FALSE, stale |-> {}, retried |-> FALSE]
NoFailures == [p \in Prs |-> 0]

Init ==
  /\ PrInit
  /\ RefreshInit
  /\ pass = Idle
  /\ plan = <<>>
  /\ memory = NoFailures
  /\ verdict = NoState
  /\ history = NoFailures
  /\ controller = NoState
  /\ failures = NoFailures

--------------------------------------------------------------------------------
\* classifyOpenPullRequests.  A dependency that is still open has to be eligible by itself;
\* what that one depends on is not looked at again.
Candidates == Open \cap (sound \ blocked)
Eligible == {p \in Candidates : DependsOn[p] \cap Open \subseteq Candidates}

\* toTopoOrder: the first pull request that waits for nothing, again and again; what is left
\* of a cycle comes last.  The numbers stand for the order of compareCandidates.
TopoOrder[todo \in SUBSET Prs] ==
  LET ready == {p \in todo : DependsOn[p] \cap todo = {}}
  IN IF ready = {} THEN LeastFirst(todo)
     ELSE <<Min(ready)>> \o TopoOrder[todo \ {Min(ready)}]

\* A slip: by number alone.
ByNumber == LeastFirst(Eligible)

Ordered == TopoOrder[Eligible]

\* A slip: the queue counts as empty.
CapacityOfAnEmptyQueue(cap, inflight) == cap

Capacity(cap, inflight) == IF cap > inflight THEN cap - inflight ELSE 0

\* readySet without the queued ones, as far as there is room.
PlanOf(inflight, cap) ==
  LET open == Without(Ordered, inflight)
      room == Capacity(cap, Cardinality(inflight))
  IN SubSeq(open, 1, IF room < Len(open) THEN room ELSE Len(open))

\* readPullRequestQueueStates: a blind pass has no answer from GraphQL and does not see the
\* queue, only auto-merge.
InFlightAsSeen(blind) == IF blind THEN Open \cap auto ELSE InFlight

PassGoto(step) == pass' = [pass EXCEPT !.step = step]
Reports == pass' = [Idle EXCEPT !.step = "report"]

Failed(n) == {p \in Prs : memory'[p] >= n}

Verdict(weather, file) ==
  Hysteresis(DesiredMode(weather, Cardinality(Failed(1)) + Cardinality(Failed(2)),
                         Cardinality(Open), Cardinality(Failed(2)), Cardinality(Failed(1))),
             file)

\* A pass that is paused or a dry run plans nothing.  A fresh checkout has no files of an
\* earlier pass.
StartPass(weather, acts, fresh, blind) ==
  /\ pass.step = "idle"
  /\ IF blind THEN Mishap ELSE UNCHANGED mishaps
  /\ memory' = IF fresh THEN NoFailures ELSE history
  /\ verdict' = Verdict(weather, IF fresh THEN NoState ELSE controller)
  /\ \E cap \in Caps(verdict'.mode) :
       /\ plan' = IF acts THEN PlanOf(InFlightAsSeen(blind), cap)
                   ELSE <<>>
       /\ IF plan' = <<>>
            THEN Reports
            ELSE pass' = [step |-> "admit", cap |-> cap, blind |-> blind, retried |-> FALSE,
                          stale |-> behind \cap ToSet(plan')]
  /\ UNCHANGED <<github, sync, unmetered, refresh, fileVars, failures>>

Admit ==
  /\ pass.step = "admit"
  /\ IF plan = <<>>
       THEN Reports /\ UNCHANGED sync
       ELSE PassGoto("sync") /\ StartSync("supervisor", Head(plan))
  /\ UNCHANGED <<github, unmetered, mishaps, refresh, plan, memory, verdict, fileVars,
                 failures>>

Sync ==
  /\ pass.step = "sync"
  /\ MergeSync("supervisor", ~pass.blind)
  /\ UNCHANGED <<refresh, passVars, fileVars, failures>>

\* On to the next pull request of the plan.
NextInPlan ==
  /\ pass' = [pass EXCEPT !.step = "admit", !.retried = FALSE]
  /\ plan' = Tail(plan)
  /\ EndSync("supervisor")

\* Promoted: the failures are forgotten and the label goes, if the edit succeeds.
Enqueued ==
  /\ pass.step = "sync"
  /\ SyncIs("supervisor", "ok")
  /\ LET p == Head(plan) IN
     /\ memory' = [memory EXCEPT ![p] = 0]
     /\ \/ blocked' = blocked \ {p} /\ UNCHANGED mishaps
        \/ Mishap /\ UNCHANGED blocked
  /\ NextInPlan
  /\ UNCHANGED <<merged, queue, auto, pending, heads, quarantined, refresh, verdict, fileVars,
                 failures>>

Retries == Head(plan) \in pass.stale /\ ~pass.retried

UpdateBranch ==
  /\ pass.step = "sync"
  /\ SyncIs("supervisor", "failed")
  /\ Retries
  /\ pass' = [pass EXCEPT !.retried = TRUE]
  /\ LET p == Head(plan) IN
     \/ /\ p \in Open
        /\ IF p \in behind THEN NewHead(p) ELSE UNCHANGED <<queue, heads>>
        /\ StartSync("supervisor", p)
     \/ UNCHANGED <<queue, heads, sync>>
  /\ UNCHANGED <<merged, auto, pending, labels, unmetered, mishaps, refresh, plan, memory,
                 verdict, fileVars, failures>>

TwoAtMost(n) == IF n > 2 THEN 2 ELSE n
Another(counts, p) == [counts EXCEPT ![p] = TwoAtMost(counts[p] + 1)]

\* A slip: no label.
LabelsNothing(p) == UNCHANGED <<blocked, quarantined, mishaps>>

\* gh pr edit --add-label, which may fail.
Labels(p) ==
  \/ /\ memory'[p] >= 2
     /\ quarantined' = quarantined \cup {p}
     /\ UNCHANGED <<blocked, mishaps>>
  \/ /\ memory'[p] < 2
     /\ blocked' = blocked \cup {p}
     /\ UNCHANGED <<quarantined, mishaps>>
  \/ Mishap /\ UNCHANGED <<blocked, quarantined>>

Refused ==
  /\ pass.step = "sync"
  /\ SyncIs("supervisor", "failed")
  /\ ~Retries
  /\ LET p == Head(plan) IN
     /\ memory' = Another(memory, p)
     /\ failures' = Another(failures, p)
     /\ Labels(p)
  /\ NextInPlan
  /\ UNCHANGED <<merged, queue, auto, pending, heads, refresh, verdict, fileVars>>

EndPass ==
  /\ pass' = Idle
  /\ plan' = <<>>
  /\ memory' = NoFailures
  /\ verdict' = NoState

Report ==
  /\ pass.step = "report"
  /\ history' = memory
  /\ PassGoto("state")
  /\ UNCHANGED <<refreshVars, plan, memory, verdict, controller, failures>>

State ==
  /\ pass.step = "state"
  /\ controller' = verdict
  /\ EndPass
  /\ UNCHANGED <<refreshVars, history, failures>>

\* The workflow cancels the pass and the merge-sync it runs.  A file it was writing is torn,
\* and reads as absent.
Cancel ==
  /\ Mishap
  /\ pass.step # "idle"
  /\ EndPass
  /\ EndSync("supervisor")
  /\ history' = IF pass.step = "report" THEN NoFailures ELSE history
  /\ controller' = IF pass.step = "state" THEN NoState ELSE controller
  /\ UNCHANGED <<github, refresh, failures>>

\* A slip: the old failure is not pruned.
ExpireInTheWindow(p) ==
  /\ pass.step = "idle"
  /\ failures[p] > 0
  /\ failures' = [failures EXCEPT ![p] = @ - 1]
  /\ UNCHANGED <<refreshVars, passVars, fileVars>>

\* The oldest failure of p is a day old: the next pass prunes it.
Expire(p) ==
  /\ pass.step = "idle"
  /\ failures[p] > 0
  /\ failures' = [failures EXCEPT ![p] = @ - 1]
  /\ history' = [history EXCEPT ![p] = IF @ > failures'[p] THEN failures'[p] ELSE @]
  /\ UNCHANGED <<refreshVars, passVars, controller>>

Starts(acts) ==
  \E weather \in Weathers, fresh \in BOOLEAN, blind \in {FALSE, acts} :
    StartPass(weather, acts, fresh, blind)
PassStep == Admit \/ Sync \/ Enqueued \/ UpdateBranch \/ Refused \/ Report \/ State
Apart == UNCHANGED <<passVars, fileVars, failures>>

Next ==
  \/ Starts(TRUE)
  \/ Starts(FALSE)
  \/ PassStep
  \/ Cancel
  \/ \E p \in Prs : Expire(p)
  \/ External /\ UNCHANGED refresh /\ Apart
  \/ RefreshNext /\ Apart

Spec == Init /\ [][Next]_vars

\* Applying passes start again and again: the workflow gets a workflow_run when Policy Guard,
\* which has a schedule, or a dispatched Validate ends on develop, or is dispatched with apply;
\* its own schedule starts dry runs.  A pass goes on until it is done or cancelled, and cancels
\* are mishaps, so only finitely many; what GitHub took shows and moves.  A refresh may hang.
FairSpec ==
  /\ Spec
  /\ SF_vars(Starts(TRUE))
  /\ WF_vars(PassStep)
  /\ WF_vars(Promotes /\ UNCHANGED refresh /\ Apart)

--------------------------------------------------------------------------------
\* The types.
TypeOK ==
  /\ PrTypeOK
  /\ RefreshTypeOK
  /\ pass \in [step : PassSteps, cap : 0 .. MaxInflight, blind : BOOLEAN,
               stale : SUBSET Prs, retried : BOOLEAN]
  /\ plan \in Seq(Prs)
  /\ memory \in [Prs -> 0 .. 2]
  /\ verdict \in States
  /\ history \in [Prs -> 0 .. 2]
  /\ controller \in States
  /\ failures \in [Prs -> 0 .. 2]

\* Whatever merges, ejections, armed pull requests and cancelled passes come between, the
\* supervisor puts no pull request in flight beyond the cap of its pass (capacity,
\* :1767-1768).  A promotion counts from the call that GitHub took, shown or not.  Those that a
\* queue refresh, or a pass without an answer from GraphQL, put there do not count, nor does one
\* that was still not shown when its merge-sync ended: the next pass does not see it.
Metered == (InFlight \cup (Open \cap pending)) \ unmetered
WithinCap == Metered' \subseteq Metered \/ Cardinality(Metered') <= pass.cap

AdmitsWithinCap == [][WithinCap]_vars

\* A pass does not try a pull request before one that it depends on (toTopoOrder, :607-646).
PlansFollowDependencies ==
  \A i, j \in 1 .. Len(plan) : i < j => plan[j] \notin DependsOn[plan[i]]

Quarantines == \A p \in Prs : p \in quarantined' \ quarantined => failures'[p] >= 2

\* queue-quarantine is for the second failure within a day (:2027-2041), with a history that
\* went through files that age, get lost and come from cancelled passes.
QuarantineIsEarned == [][Quarantines]_vars

\* A pull request that has dependencies, is eligible and reviewed, and stays so, is merged in
\* the end: other pull requests that fail, a refresh that dies half-way, lost calls, promotions
\* that show after their merge-sync gave up, and lost files do not keep it out (:1956-2053).
\* Provided that nothing in flight waits for its checks, that no pull request is quarantined,
\* and that passes apply again and again.
Ready(p) ==
  /\ p \in Eligible \cap reviewed
  /\ InFlight \subseteq sound
  /\ quarantined \subseteq merged

Dependents == {p \in Prs : DependsOn[p] # {}}

ReadyLands == \A p \in Dependents : []<>(p \in merged \/ ~Ready(p))

\* A pass that finds an upgrade pending applies it or gives it up
\* (queue-supervisor.test.mjs:381).
UpgradesApply ==
  [][controller.streak = 1 /\ pass.step = "idle" => verdict'.streak = 0]_vars

================================================================================
