-------------------------------- MODULE SafeGit --------------------------------
(******************************************************************************)
(* runGitWithSafety of tools/priority/lib/safe-git.mjs, through which the     *)
(* agents' scripts run the git commands that change a checkout.  A call       *)
(* looks for the lock files that git processes leave in .git, lists the git   *)
(* processes of the machine, kills them over an old lock, removes the locks   *)
(* it dares to remove, and then runs its own git; what is still locked is     *)
(* tried again, a bounded number of times.  None of these steps is atomic     *)
(* with the next, and other calls and other gits go on between them.          *)
(*                                                                            *)
(* Not every git goes through it.  queue-refresh-pr.mjs runs its fetches,     *)
(* checkouts, rebases and pushes directly, and a guarded script hands git the *)
(* commands that isMutatingGitCommand does not know, fetch among them: such   *)
(* gits come up at any time, make locks and change the checkout.              *)
(*                                                                            *)
(* Git itself is external: a git makes one lock file, exclusively, changes    *)
(* the checkout and removes it, or makes none.  The order in which locks are  *)
(* repaired is left open, and the telemetry is left out.                      *)
(******************************************************************************)
EXTENDS Naturals

CONSTANTS
  Callers,      \* processes that make one call each
  Others,       \* gits that no guarded call runs, in this checkout or in another
  Locks,        \* the lock files of .git
  NoCaller,
  MaxAttempts,  \* maxRetries + 1
  AllowKill,    \* allowProcessKill
  MaxDeaths     \* bound: processes that die by themselves

ASSUME CallersAssumption == NoCaller \notin Callers \cup Others /\ Callers \cap Others = {}
ASSUME AttemptsAssumption == MaxAttempts \in Nat \ {0} /\ MaxDeaths \in Nat
ASSUME KillAssumption == AllowKill \in BOOLEAN

VARIABLES
  lock,    \* per lock file: the git that made it, named as its caller is
  aged,    \* the lock files older than staleLockAgeMs
  merging, \* whether a marker says that an operation was left half-done
  git,     \* per caller its git, and the gits that no guarded call runs
  applied, \* per caller: how often its command took effect, up to twice
  cmd,     \* per caller: what its command does
  call,    \* per caller: its call
  deaths,  \* the bound's counter
  met,     \* auxiliary: per caller, whether anything stood in its call's way
  strayed  \* auxiliary: whether a listing has failed, or a lock that a call had seen and not
           \* yet treated has gone by another hand

checkout == <<lock, aged, merging, git, applied>>
vars == <<checkout, cmd, call, deaths, met, strayed>>

Gits == Callers \cup Others
Commands == {"change", "abort"}
Steps == {"look", "list", "repair", "relist", "run", "wait"}
Ends == {"idle", "ok", "failed", "blocked", "unfinished", "dead"}
Results == {"ok", "locked", "unfinished", "failed", "killed"}
Running == {g \in Gits : git[g] \in {"started", "inside"}}

\* A call: its step, or how it ended; the attempt; the locks it saw and has not treated, those
\* of them that were stale, those it had to leave, the one for which it has just killed; and
\* the gits in its last listing.
NewCall == [step |-> "idle", attempt |-> 1, todo |-> {}, old |-> {}, stuck |-> {},
            fixing |-> {}, pids |-> {}]
At(c, step) == call[c].step = step
InCall(c) == call[c].step \in Steps

Init ==
  /\ lock = [l \in Locks |-> NoCaller]
  /\ aged = {}
  /\ merging = FALSE
  /\ git = [g \in Gits |-> "none"]
  /\ applied = [c \in Callers |-> 0]
  /\ cmd = [c \in Callers |-> "change"]
  /\ call = [c \in Callers |-> NewCall]
  /\ deaths = 0
  /\ met = [c \in Callers |-> FALSE]
  /\ strayed = FALSE

\* The call goes on with what it knows; or it begins a step, or ends, with nothing but the
\* attempt.
Now(c, record) == call' = [call EXCEPT ![c] = record]
GoTo(c, step) == Now(c, [NewCall EXCEPT !.step = step, !.attempt = call[c].attempt])

\* A git that comes up is met by everybody else's call.
Meets(c) == met' = [d \in Callers |-> d # c \/ met[d]]

\* The locks in G go by the hand of c.
Go(c, G) == strayed' = (strayed \/ \E d \in Callers \ {c} : call[d].todo \cap G # {})

--------------------------------------------------------------------------------
(* The call.                                                                  *)

Begin(c, command) ==
  /\ At(c, "idle")
  /\ GoTo(c, "look")
  /\ cmd' = [cmd EXCEPT ![c] = command]
  /\ met' = [met EXCEPT ![c] = Running # {}]
  /\ UNCHANGED <<checkout, deaths, strayed>>

\* collectLockFiles and collectInProgressStates.  A half-done operation lets nothing through
\* but what ends it; without locks nobody asks for processes.
Look(c) ==
  LET seen == {l \in Locks : lock[l] # NoCaller} IN
  /\ At(c, "look")
  /\ IF merging /\ cmd[c] # "abort" THEN GoTo(c, "unfinished")
     ELSE IF seen = {} THEN GoTo(c, "run")
     ELSE Now(c, [call[c] EXCEPT !.step = "list", !.todo = seen, !.old = seen \cap aged])
  /\ UNCHANGED <<checkout, cmd, deaths, met, strayed>>

\* listGitProcesses lists every git of the machine; a listing that fails is an empty one.
Listings == {Running, {}}
Lists(listed) == strayed' = (strayed \/ listed # Running)

List(c) ==
  /\ At(c, "list")
  /\ \E listed \in Listings :
       /\ Now(c, [call[c] EXCEPT !.step = "repair", !.pids = listed])
       /\ Lists(listed)
  /\ UNCHANGED <<checkout, cmd, deaths, met>>

\* repairLocks takes the locks one by one.
Treats(c, l) == At(c, "repair") /\ l \in call[c].todo
Leaves(c, l) == Now(c, [call[c] EXCEPT !.todo = @ \ {l}, !.stuck = @ \cup {l}])

\* Gits that run protect a fresh lock, and an old one if they may not be killed.
Protected(c, l) == call[c].pids # {} /\ (l \notin call[c].old \/ ~AllowKill)

Leave(c, l) ==
  /\ Treats(c, l)
  /\ Protected(c, l)
  /\ Leaves(c, l)
  /\ UNCHANGED <<checkout, cmd, deaths, met, strayed>>

\* killGitProcess for each listed git, whatever it works on and whether or not it made the
\* lock; some kills may fail.  A git that is killed is gone at once and leaves its lock.
Kill(c, l) ==
  /\ Treats(c, l)
  /\ call[c].pids # {} /\ ~Protected(c, l)
  /\ \E K \in SUBSET (call[c].pids \cap Running) :
       git' = [g \in Gits |-> IF g \in K THEN "killed" ELSE git[g]]
  /\ Now(c, [call[c] EXCEPT !.step = "relist", !.fixing = {l}])
  /\ UNCHANGED <<lock, aged, merging, applied, cmd, deaths, met, strayed>>

\* What still runs after the kills protects the lock after all.
Relist(c) ==
  /\ At(c, "relist")
  /\ \E listed \in Listings :
       LET kept == IF listed = {} THEN {} ELSE call[c].fixing IN
       /\ Now(c, [call[c] EXCEPT !.step = "repair", !.pids = listed, !.fixing = {},
                                 !.todo = @ \ kept, !.stuck = @ \cup kept])
       /\ Lists(listed)
  /\ UNCHANGED <<checkout, cmd, deaths, met>>

\* Slips: only old locks go, and the others stay; old locks go whatever still runs.
MayRemoveOld(c, l) == call[c].pids = {} /\ l \in call[c].old
MayRemoveAnyOld(c, l) == call[c].pids = {} \/ l \in call[c].old

\* With no git in the last listing a lock may go, old or not.
MayRemove(c, l) == call[c].pids = {}

\* rmSync with force removes what is there by now, if anything is.
Remove(c, l) ==
  /\ Treats(c, l)
  /\ MayRemove(c, l)
  /\ lock' = [lock EXCEPT ![l] = NoCaller]
  /\ aged' = aged \ {l}
  /\ Now(c, [call[c] EXCEPT !.todo = @ \ {l}])
  /\ Go(c, {l})
  /\ UNCHANGED <<merging, git, applied, cmd, deaths, met>>

\* What may not be removed stays, and so does what cannot be: for a permission, or because
\* somebody has it open.
RemoveFails(c, l) ==
  /\ Treats(c, l)
  /\ call[c].pids = {}
  /\ Leaves(c, l)
  /\ met' = [met EXCEPT ![c] = MayRemove(c, l) \/ @]
  /\ UNCHANGED <<checkout, cmd, deaths, strayed>>

\* Slips: rounds are not counted; one round too many.
AgainForever(c, end) == GoTo(c, "look")
AgainOnceMore(c, end) ==
  IF call[c].attempt <= MaxAttempts
    THEN Now(c, [NewCall EXCEPT !.step = "look", !.attempt = call[c].attempt + 1])
    ELSE GoTo(c, end)

\* sleepSync and the loop's next round, while there is one.
Again(c, end) ==
  IF call[c].attempt < MaxAttempts
    THEN Now(c, [NewCall EXCEPT !.step = "look", !.attempt = call[c].attempt + 1])
    ELSE GoTo(c, end)

Repaired(c) ==
  /\ At(c, "repair")
  /\ call[c].todo = {}
  /\ IF call[c].stuck = {} THEN GoTo(c, "run") ELSE Again(c, "blocked")
  /\ UNCHANGED <<checkout, cmd, deaths, met, strayed>>

Run(c) ==
  /\ At(c, "run")
  /\ git' = [git EXCEPT ![c] = "started"]
  /\ GoTo(c, "wait")
  /\ Meets(c)
  /\ UNCHANGED <<lock, aged, merging, applied, cmd, deaths, strayed>>

\* A slip: whatever fails is run again.
WorthAgainAlways(result) == result # "ok"

\* looksLikeLockConflict: the failures that another attempt may mend.
WorthAgain(result) == result = "locked"

Result(c) ==
  /\ At(c, "wait")
  /\ git[c] \in Results
  /\ IF WorthAgain(git[c]) THEN Again(c, "failed")
     ELSE GoTo(c, IF git[c] \in {"ok", "unfinished"} THEN git[c] ELSE "failed")
  /\ UNCHANGED <<checkout, cmd, deaths, met, strayed>>

\* The caller dies at any step; the git it runs lives on.
Die(c) ==
  /\ InCall(c)
  /\ deaths < MaxDeaths
  /\ deaths' = deaths + 1
  /\ GoTo(c, "dead")
  /\ UNCHANGED <<checkout, cmd, met, strayed>>

--------------------------------------------------------------------------------
(* Git.                                                                       *)

\* What a git may do, and how often its caller's command has taken effect then.
Does(g) == IF g \in Callers THEN {cmd[g]} ELSE Commands
Applied(g) == IF g \in Callers /\ applied[g] < 2 THEN [applied EXCEPT ![g] = @ + 1] ELSE applied

GitLocks(g, l) ==
  /\ git[g] = "started"
  /\ lock[l] = NoCaller
  /\ lock' = [lock EXCEPT ![l] = g]
  /\ git' = [git EXCEPT ![g] = "inside"]
  /\ UNCHANGED <<aged, merging, applied, cmd, call, deaths, met, strayed>>

\* The lock file is there, an operation is half-done, the command fails for its own reasons or
\* it only read.
GitFails(g) ==
  /\ git[g] = "started"
  /\ \E result \in {"locked", "unfinished", "failed"} :
       /\ result = "locked" => \E l \in Locks : lock[l] # NoCaller
       /\ result = "unfinished" => merging
       /\ git' = [git EXCEPT ![g] = result]
  /\ UNCHANGED <<lock, aged, merging, applied, cmd, call, deaths, met, strayed>>

OwnLocks(g) == {l \in Locks : lock[l] = g}
Unlocked(g) == [l \in Locks |-> IF lock[l] = g THEN NoCaller ELSE lock[l]]

\* The change is made and the lock removed; a merge or a rebase may stop at a conflict.
GitFinishes(g) ==
  /\ git[g] = "inside"
  /\ lock' = Unlocked(g)
  /\ aged' = aged \ OwnLocks(g)
  /\ \E conflict \in BOOLEAN, command \in Does(g) :
       /\ conflict => command = "change"
       /\ merging' = (conflict \/ (merging /\ command # "abort"))
       /\ git' = [git EXCEPT ![g] = IF conflict THEN "failed" ELSE "ok"]
  /\ applied' = Applied(g)
  /\ Go(NoCaller, OwnLocks(g))
  /\ UNCHANGED <<cmd, call, deaths, met>>

\* A git dies, before its change or after it, and leaves its lock behind.
GitDies(g) ==
  /\ git[g] \in {"started", "inside"}
  /\ deaths < MaxDeaths
  /\ deaths' = deaths + 1
  /\ git' = [git EXCEPT ![g] = "killed"]
  /\ \E done \in BOOLEAN : applied' = IF done /\ git[g] = "inside" THEN Applied(g) ELSE applied
  /\ UNCHANGED <<lock, aged, merging, cmd, call, met, strayed>>

\* staleLockAgeMs has passed since the lock was made.
Age(l) ==
  /\ lock[l] # NoCaller
  /\ aged' = aged \cup {l}
  /\ UNCHANGED <<lock, merging, git, applied, cmd, call, deaths, met, strayed>>

\* A git that no guarded call runs comes up.
OtherStarts(o) ==
  /\ git[o] = "none"
  /\ git' = [git EXCEPT ![o] = "started"]
  /\ Meets(NoCaller)
  /\ UNCHANGED <<lock, aged, merging, applied, cmd, call, deaths, strayed>>

CallStep(c) ==
  \/ Look(c) \/ List(c) \/ Relist(c) \/ Repaired(c) \/ Run(c) \/ Result(c)
  \/ \E l \in Locks : Leave(c, l) \/ Kill(c, l) \/ Remove(c, l) \/ RemoveFails(c, l)

GitStep(g) == GitFails(g) \/ GitFinishes(g) \/ \E l \in Locks : GitLocks(g, l)

Next ==
  \/ \E c \in Callers :
       \/ \E command \in Commands : Begin(c, command)
       \/ CallStep(c) \/ Die(c)
  \/ \E g \in Gits : GitStep(g) \/ GitDies(g)
  \/ \E l \in Locks : Age(l)
  \/ \E o \in Others : OtherStarts(o)

Spec == Init /\ [][Next]_vars

\* A call goes on, and so does the git it waits for; nobody else's need.
Fairness ==
  \A c \in Callers : WF_vars(CallStep(c)) /\ WF_vars(At(c, "wait") /\ GitStep(c))
FairSpec == Spec /\ Fairness

--------------------------------------------------------------------------------
\* Types; a call is never beyond its last attempt (maxAttempts of runGitWithSafety).
TypeOK ==
  /\ lock \in [Locks -> Gits \cup {NoCaller}]
  /\ aged \in SUBSET Locks
  /\ merging \in BOOLEAN
  /\ git \in [Gits -> Results \cup {"none", "started", "inside"}]
  /\ applied \in [Callers -> 0..2]
  /\ cmd \in [Callers -> Commands]
  /\ call \in [Callers -> [step : Steps \cup Ends, attempt : 1..MaxAttempts,
                           todo : SUBSET Locks, old : SUBSET Locks, stuck : SUBSET Locks,
                           fixing : SUBSET Locks, pids : SUBSET Gits]]
  /\ deaths \in 0..MaxDeaths
  /\ met \in [Callers -> BOOLEAN]
  /\ strayed \in BOOLEAN

\* A git that is at work has the lock it made: no call of runGitWithSafety takes a lock from
\* under a living git, though it removes what it saw two steps earlier, though calls overlap,
\* callers die and leave their gits behind, and gits that no call guards (queue-refresh-pr.mjs)
\* come up between the listing and the removal.  It ends where a listing fails, and where a
\* lock that a call had seen goes by another hand before the call has treated it: a git that
\* makes that file anew would lose it.
WorkersHaveTheirLock ==
  ~strayed => \A g \in Gits : git[g] = "inside" => OwnLocks(g) # {}

\* A command takes effect once at most, however often runGitWithSafety runs it again.
AppliedOnce == \A c \in Callers : applied[c] <= 1

\* A call gives up over locks only if something stood in its way: a git that ran meanwhile
\* or a file that could not be removed.  What dead gits left behind stops nobody.
OrphansBlockNobody == \A c \in Callers : At(c, "blocked") => met[c]

\* Every call returns, though locks may never go away and other gits never end (the bounded
\* loop of runGitWithSafety).
CallsReturn == \A c \in Callers : InCall(c) ~> ~InCall(c)

================================================================================
