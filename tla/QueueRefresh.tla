------------------------------ MODULE QueueRefresh ------------------------------
(******************************************************************************)
(* tools/priority/queue-refresh-pr.mjs, run by hand for one queued pull       *)
(* request: take it out of the merge queue, wait until it is out, rebase or   *)
(* amend and push it, and let merge-sync put it back.  Nothing undoes a step  *)
(* when a later one fails, and the process may be killed after any of them.   *)
(* What the receipt says is left out.                                         *)
(******************************************************************************)
EXTENDS PullRequests

VARIABLE refresh \* the pull request of the run and its step

RefreshSteps == {"idle", "look", "dequeue", "poll", "push", "requeue"}

refreshVars == <<prVars, refresh>>

RefreshInit == refresh = [pr |-> 0, step |-> "idle"]

--------------------------------------------------------------------------------
Refreshing(step) == refresh.step = step
RefreshGoto(step) == refresh' = [refresh EXCEPT !.step = step]
RefreshEnds == refresh' = [pr |-> 0, step |-> "idle"]

StartRefresh(p) ==
  /\ Mishap
  /\ Refreshing("idle")
  /\ refresh' = [pr |-> p, step |-> "look"]
  /\ UNCHANGED <<github, sync, unmetered>>

\* Not open or not queued: nothing to do.  An unclean work tree throws.
LookAtPr ==
  /\ Refreshing("look")
  /\ IF refresh.pr \in Open \cap Queued
       THEN RefreshGoto("dequeue") \/ RefreshEnds
       ELSE RefreshEnds
  /\ UNCHANGED prVars

Dequeue ==
  /\ Refreshing("dequeue")
  /\ \/ queue' = Dequeued(refresh.pr) /\ refresh.pr \in Queued /\ RefreshGoto("poll")
     \/ UNCHANGED queue /\ RefreshEnds
  /\ UNCHANGED <<merged, auto, pending, heads, labels, sync, unmetered, mishaps>>

\* Out of the queue, or no longer open.
Poll ==
  /\ Refreshing("poll")
  /\ IF refresh.pr \in Open \cap Queued THEN RefreshEnds ELSE RefreshGoto("push")
  /\ UNCHANGED prVars

\* Fetch, check out, rebase and push: any of them fails, or the branch is where it was,
\* or it has a new head.
Push ==
  /\ Refreshing("push")
  /\ \/ RefreshEnds /\ UNCHANGED prVars
     \/ /\ IF refresh.pr \in Open THEN NewHead(refresh.pr) ELSE UNCHANGED <<heads, queue>>
        /\ StartSync("refresh", refresh.pr)
        /\ RefreshGoto("requeue")
        /\ UNCHANGED <<merged, auto, pending, labels, unmetered, mishaps>>
     \/ /\ refresh.pr \notin behind
        /\ StartSync("refresh", refresh.pr)
        /\ RefreshGoto("requeue")
        /\ UNCHANGED <<github, unmetered, mishaps>>

Requeue ==
  /\ Refreshing("requeue")
  /\ \/ MergeSync("refresh", FALSE) /\ UNCHANGED refresh
     \/ /\ sync["refresh"].step \in {"ok", "failed"}
        /\ RefreshEnds
        /\ EndSync("refresh")
        /\ UNCHANGED <<github, mishaps>>

\* The process dies; a child merge-sync dies with it.
KillRefresh ==
  /\ Mishap
  /\ ~Refreshing("idle")
  /\ RefreshEnds
  /\ EndSync("refresh")
  /\ UNCHANGED github

RefreshStep == LookAtPr \/ Dequeue \/ Poll \/ Push \/ Requeue

RefreshNext == (\E p \in Prs : StartRefresh(p)) \/ RefreshStep \/ KillRefresh

--------------------------------------------------------------------------------
RefreshTypeOK ==
  refresh \in [pr : Prs \cup {0}, step : RefreshSteps]
================================================================================
