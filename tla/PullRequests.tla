------------------------------ MODULE PullRequests ------------------------------
(******************************************************************************)
(* Pull requests to a queue-managed branch, GitHub's merge queue, and         *)
(* tools/priority/merge-sync-pr.mjs, which puts one of them into it: it looks *)
(* at the pull request, checks the review of its head, asks gh to merge and   *)
(* polls until the promotion shows.  GitHub itself is external.  Base branch, *)
(* draft, conflicts and required checks are one fact: the pull request is     *)
(* sound.                                                                     *)
(******************************************************************************)
EXTENDS Naturals, FiniteSets, Sequences, SequencesExt

CONSTANTS
  Prs,       \* the open pull requests, by number
  MaxMishaps \* bound: calls that fail or take effect late, passes cancelled, commits pushed,
             \* checks that turn red, labels taken off by hand and refreshes, all together

ASSUME PrsAssumption == Prs \subseteq Nat \ {0} /\ IsFiniteSet(Prs)
ASSUME MishapsAssumption == MaxMishaps \in Nat

VARIABLES
  merged,      \* the pull requests that are merged
  queue,       \* the merge queue
  auto,        \* auto-merge is enabled: waits for its checks to enter the queue
  pending,     \* GitHub took the promotion and does not show it yet
  sound,       \* their checks are green, nothing else stands in the way
  reviewed,    \* the review of their current head is clear
  behind,      \* mergeStateStatus BEHIND
  blocked,     \* labelled queue-blocked
  quarantined, \* labelled queue-quarantine
  sync,        \* per caller: the run of merge-sync
  unmetered,   \* auxiliary: who was last put in flight by a caller that counts nothing, or by
               \* a promotion that outlived its merge-sync
  mishaps      \* the bound's counter

heads == <<sound, reviewed, behind>>
labels == <<blocked, quarantined>>
github == <<merged, queue, auto, pending, heads, labels>>
prVars == <<github, sync, unmetered, mishaps>>

\* merge-sync is a child of the queue supervisor, or called by the queue refresh.
Callers == {"supervisor", "refresh"}
SyncSteps == {"none", "view", "merge", "verify", "ok", "failed"}

Queued == ToSet(queue)
Open == Prs \ merged
InFlight == Open \cap (auto \cup Queued)

PrInit ==
  /\ merged = {}
  /\ queue = <<>>
  /\ auto = {}
  /\ pending = {}
  /\ sound \in SUBSET Prs
  /\ reviewed \in SUBSET Prs
  /\ behind = {}
  /\ blocked = {}
  /\ quarantined = {}
  /\ sync = [x \in Callers |-> [pr |-> 0, step |-> "none", before |-> FALSE]]
  /\ unmetered = {}
  /\ mishaps = 0

--------------------------------------------------------------------------------
Mishap == mishaps < MaxMishaps /\ mishaps' = mishaps + 1

\* The numbers of a finite set in their order.
LeastFirst(S) ==
  CHOOSE s \in [1 .. Cardinality(S) -> S] :
    \A i, j \in 1 .. Cardinality(S) : i < j => s[i] < s[j]

\* What is left of a sequence without the members of S.
Without(s, S) ==
  LET kept == LeastFirst({i \in DOMAIN s : s[i] \notin S})
  IN [i \in DOMAIN kept |-> s[kept[i]]]

Dequeued(p) == Without(queue, {p})

\* A new head: checks and review start over, and the queue ejects the entry.
NewHead(p) ==
  /\ sound' = sound \ {p}
  /\ reviewed' = reviewed \ {p}
  /\ behind' = behind \ {p}
  /\ queue' = Dequeued(p)

ChecksPass(p) ==
  /\ p \in Open \ sound
  /\ sound' = sound \cup {p}
  /\ UNCHANGED <<merged, queue, auto, pending, reviewed, behind, labels, sync, unmetered, mishaps>>

ReviewClears(p) ==
  /\ p \in Open \ reviewed
  /\ reviewed' = reviewed \cup {p}
  /\ UNCHANGED <<merged, queue, auto, pending, sound, behind, labels, sync, unmetered, mishaps>>

\* A check turns red, the base moves on, or the author pushes.
Setback(p) ==
  /\ Mishap
  /\ p \in Open
  /\ \/ sound' = sound \ {p} /\ UNCHANGED <<queue, reviewed, behind>>
     \/ behind' = behind \cup {p} /\ UNCHANGED <<queue, sound, reviewed>>
     \/ NewHead(p)
  /\ UNCHANGED <<merged, auto, pending, labels, sync, unmetered>>

\* Somebody takes the labels off by hand.
Unlabel(p) ==
  /\ Mishap
  /\ p \in blocked \cup quarantined
  /\ blocked' = blocked \ {p}
  /\ quarantined' = quarantined \ {p}
  /\ UNCHANGED <<merged, queue, auto, pending, heads, sync, unmetered>>

AutoEnqueues(p) ==
  /\ p \in auto \cap sound
  /\ auto' = auto \ {p}
  /\ queue' = Append(queue, p)
  /\ UNCHANGED <<merged, pending, heads, labels, sync, unmetered, mishaps>>

\* A promotion puts a pull request into the queue, or arms it until its checks are green.
Promoted(p) ==
  IF p \in sound THEN queue' = Append(queue, p) /\ UNCHANGED auto
  ELSE auto' = auto \cup {p} /\ UNCHANGED queue

\* It shows, late.
Lands(p) ==
  /\ p \in pending
  /\ pending' = pending \ {p}
  /\ Promoted(p)
  /\ UNCHANGED <<merged, heads, labels, sync, unmetered, mishaps>>

\* The first entry is merged, or ejected if it does not pass.
QueueAdvances ==
  /\ queue # <<>>
  /\ queue' = Tail(queue)
  /\ IF Head(queue) \in sound
       THEN merged' = merged \cup {Head(queue)} /\ behind' = behind \ {Head(queue)}
       ELSE UNCHANGED <<merged, behind>>
  /\ unmetered' = unmetered \ {Head(queue)}
  /\ UNCHANGED <<auto, pending, sound, reviewed, labels, sync, mishaps>>

Promotes == QueueAdvances \/ \E p \in Prs : AutoEnqueues(p) \/ Lands(p)

External ==
  \/ \E p \in Prs : ChecksPass(p) \/ ReviewClears(p) \/ Setback(p) \/ Unlabel(p)
  \/ Promotes

--------------------------------------------------------------------------------
SyncGoto(x, step) == sync' = [sync EXCEPT ![x].step = step]
SyncIs(x, step) == sync[x].step = step

\* A slip: no --pr.
StartSyncOfNone(x, p) == sync' = [sync EXCEPT ![x].step = "view", ![x].before = FALSE]
StartSync(x, p) ==
  sync' = [sync EXCEPT ![x] = [pr |-> p, step |-> "view", before |-> FALSE]]
EndSync(x) ==
  /\ sync' = [sync EXCEPT ![x] = [pr |-> 0, step |-> "none", before |-> FALSE]]
  /\ unmetered' = unmetered \cup (pending \cap {sync[x].pr})

\* selectMergeMode: conflicts are one way not to be sound.
MayConflict(p) == p \notin sound

\* evaluatePromotionReviewClearance: a receipt or a review for the current head.
ReviewIsClear(p) == p \in reviewed

\* A merged pull request needs nothing; one with conflicts or without the review of its head
\* is refused.
View(x) ==
  /\ SyncIs(x, "view")
  /\ LET p == sync[x].pr IN
     \/ p \in merged /\ SyncGoto(x, "ok") /\ UNCHANGED mishaps
     \/ /\ p \in Open
        /\ MayConflict(p) \/ ~ReviewIsClear(p)
        /\ SyncGoto(x, "failed")
        /\ UNCHANGED mishaps
     \/ Mishap /\ SyncGoto(x, "failed")
     \/ /\ p \in Open
        /\ ReviewIsClear(p)
        /\ sync' = [sync EXCEPT ![x].step = "merge", ![x].before = p \in InFlight]
        /\ UNCHANGED mishaps
  /\ UNCHANGED <<github, unmetered>>

\* gh pr merge --auto.  It may fail, with nothing done or with its promotion under way, and a
\* promotion may be late to show.
MergeCall(x, metered) ==
  /\ SyncIs(x, "merge")
  /\ LET p == sync[x].pr IN
     \/ /\ Mishap /\ SyncGoto(x, "failed")
        /\ UNCHANGED <<queue, auto, pending, unmetered>>
     \/ /\ p \in InFlight \cup merged \cup pending
        /\ SyncGoto(x, "verify")
        /\ UNCHANGED <<queue, auto, pending, unmetered, mishaps>>
     \/ /\ p \notin InFlight \cup merged \cup pending
        /\ \/ Promoted(p) /\ SyncGoto(x, "verify") /\ UNCHANGED <<pending, mishaps>>
           \/ /\ Mishap
              /\ pending' = pending \cup {p}
              /\ SyncGoto(x, "verify") \/ SyncGoto(x, "failed")
              /\ UNCHANGED <<queue, auto>>
        /\ unmetered' = IF metered THEN unmetered \ {p} ELSE unmetered \cup {p}
  /\ UNCHANGED <<merged, heads, labels>>

\* verifyPromotionActivation: in flight before, in flight now or merged.  The last poll may come
\* before the promotion shows.
Materialized(x) == sync[x].before \/ sync[x].pr \in InFlight \cup merged

Verify(x) ==
  /\ SyncIs(x, "verify")
  /\ SyncGoto(x, IF Materialized(x) THEN "ok" ELSE "failed")
  /\ UNCHANGED <<github, unmetered, mishaps>>

MergeSync(x, metered) == View(x) \/ MergeCall(x, metered) \/ Verify(x)

--------------------------------------------------------------------------------
\* The types of GitHub's side and of merge-sync.
PrTypeOK ==
  /\ merged \subseteq Prs
  /\ queue \in Seq(Prs)
  /\ auto \subseteq Prs
  /\ pending \subseteq Prs
  /\ sound \subseteq Prs
  /\ reviewed \subseteq Prs
  /\ behind \subseteq Prs
  /\ blocked \subseteq Prs
  /\ quarantined \subseteq Prs
  /\ sync \in [Callers -> [pr : Prs \cup {0}, step : SyncSteps, before : BOOLEAN]]
  /\ \A x \in Callers : sync[x].step # "none" => sync[x].pr \in Prs
  /\ unmetered \subseteq Prs
  /\ mishaps \in Nat
================================================================================
