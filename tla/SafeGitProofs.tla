----------------------------- MODULE SafeGitProofs -----------------------------
(******************************************************************************)
(* What holds of the calls of runGitWithSafety for every set of callers,      *)
(* locks and unguarded gits, and any number of attempts.                      *)
(******************************************************************************)
EXTENDS SafeGit, TLAPS

Records == [step : Steps \cup Ends, attempt : 1..MaxAttempts, todo : SUBSET Locks,
            old : SUBSET Locks, stuck : SUBSET Locks, fixing : SUBSET Locks,
            pids : SUBSET Gits]

\* A call that goes to another step, or into another round, knows nothing but the attempt.
LEMMA GoingOn ==
  ASSUME TypeOK, NEW c \in Callers, NEW step \in Steps \cup Ends, GoTo(c, step)
  PROVE  /\ call' \in [Callers -> Records]
         /\ call' = [call EXCEPT ![c] = call'[c]]
         /\ call'[c] = [NewCall EXCEPT !.step = step, !.attempt = call[c].attempt]
<1>1. [NewCall EXCEPT !.step = step, !.attempt = call[c].attempt] \in Records
  BY DEF TypeOK, NewCall, Records
<1> QED BY <1>1 DEF TypeOK, GoTo, Now, Records

LEMMA Arrives ==
  ASSUME TypeOK, NEW c \in Callers, NEW step \in Steps \cup Ends, GoTo(c, step)
  PROVE  call'[c].step = step
<1>1. call'[c] = [NewCall EXCEPT !.step = step, !.attempt = call[c].attempt]
  BY GoingOn
<1> QED BY <1>1 DEF NewCall

\* The next round comes only after a round that was not the last.
LEMMA Rounds ==
  ASSUME TypeOK, NEW c \in Callers, NEW end \in Ends, Again(c, end)
  PROVE  /\ call' \in [Callers -> Records]
         /\ call' = [call EXCEPT ![c] = call'[c]]
         /\ \E step \in {"look", end}, n \in 1..MaxAttempts :
              call'[c] = [NewCall EXCEPT !.step = step, !.attempt = n]
<1>1. call[c].attempt \in 1..MaxAttempts /\ call \in [Callers -> Records]
  BY DEF TypeOK, Records
<1>2. CASE call[c].attempt < MaxAttempts
  <2>1. call[c].attempt + 1 \in 1..MaxAttempts
    BY <1>1, <1>2, AttemptsAssumption
  <2>2. [NewCall EXCEPT !.step = "look", !.attempt = call[c].attempt + 1] \in Records
    BY <2>1 DEF NewCall, Records, Steps
  <2>3. call' = [call EXCEPT ![c] = [NewCall EXCEPT !.step = "look",
                                                    !.attempt = call[c].attempt + 1]]
    BY <1>2 DEF Again, Now
  <2> QED BY <1>1, <2>1, <2>2, <2>3
<1>3. CASE ~(call[c].attempt < MaxAttempts)
  <2>1. GoTo(c, end)
    BY <1>3 DEF Again
  <2> QED BY <1>1, <2>1, GoingOn
<1> QED BY <1>2, <1>3

LEMMA TypeStep == ASSUME TypeOK, [Next]_vars PROVE TypeOK'
<1> USE AttemptsAssumption, CallersAssumption
<1>0. call \in [Callers -> Records]
  BY DEF TypeOK, Records
<1>1. ASSUME NEW c \in Callers, NEW command \in Commands, Begin(c, command)
      PROVE  TypeOK'
  <2>1. call' \in [Callers -> Records]
    BY <1>1, GoingOn DEF Begin, Steps
  <2> QED BY <1>1, <2>1 DEF TypeOK, Begin, checkout, Records
<1>2. ASSUME NEW c \in Callers, Look(c) PROVE TypeOK'
  <2> DEFINE seen == {l \in Locks : lock[l] # NoCaller}
  <2>1. [call[c] EXCEPT !.step = "list", !.todo = seen, !.old = seen \cap aged] \in Records
    BY <1>0 DEF Records, Steps
  <2>2. call' \in [Callers -> Records]
    BY <1>0, <1>2, <2>1, GoingOn DEF Look, Now, Steps, Ends
  <2> QED BY <1>2, <2>2 DEF TypeOK, Look, checkout, Records
<1>3. ASSUME NEW c \in Callers, List(c) PROVE TypeOK'
  <2>1. PICK listed \in Listings :
          /\ call' = [call EXCEPT ![c] = [call[c] EXCEPT !.step = "repair", !.pids = listed]]
          /\ Lists(listed)
    BY <1>3 DEF List, Now
  <2>2. listed \in SUBSET Gits
    BY <2>1 DEF Listings, Running
  <2>3. call' \in [Callers -> Records]
    BY <1>0, <2>1, <2>2 DEF Records, Steps
  <2> QED BY <1>3, <2>1, <2>3 DEF TypeOK, List, Lists, checkout, Records
<1>4. ASSUME NEW c \in Callers, NEW l \in Locks, Leaves(c, l)
      PROVE  call' \in [Callers -> Records]
  BY <1>0, <1>4 DEF Leaves, Now, Records
<1>5. ASSUME NEW c \in Callers, NEW l \in Locks, Leave(c, l) PROVE TypeOK'
  BY <1>4, <1>5 DEF TypeOK, Leave, checkout, Records
<1>6. ASSUME NEW c \in Callers, NEW l \in Locks, Kill(c, l) PROVE TypeOK'
  <2>1. call' \in [Callers -> Records]
    BY <1>0, <1>6 DEF Kill, Now, Records, Steps
  <2>2. git' \in [Gits -> Results \cup {"none", "started", "inside"}]
    BY <1>6 DEF TypeOK, Kill, Results
  <2> QED BY <1>6, <2>1, <2>2 DEF TypeOK, Kill, Records
<1>7. ASSUME NEW c \in Callers, Relist(c) PROVE TypeOK'
  <2>1. PICK listed \in Listings :
          LET kept == IF listed = {} THEN {} ELSE call[c].fixing IN
          /\ Now(c, [call[c] EXCEPT !.step = "repair", !.pids = listed, !.fixing = {},
                                    !.todo = @ \ kept, !.stuck = @ \cup kept])
          /\ Lists(listed)
    BY <1>7 DEF Relist
  <2>2. listed \in SUBSET Gits
    BY <2>1 DEF Listings, Running
  <2> DEFINE kept == IF listed = {} THEN {} ELSE call[c].fixing
  <2>3. kept \in SUBSET Locks
    BY <1>0 DEF Records
  <2>4. Now(c, [call[c] EXCEPT !.step = "repair", !.pids = listed, !.fixing = {},
                               !.todo = @ \ kept, !.stuck = @ \cup kept])
    BY <2>1
  <2> HIDE DEF kept
  <2>5. call' \in [Callers -> Records]
    BY <1>0, <2>2, <2>3, <2>4 DEF Now, Records, Steps
  <2>6. strayed' \in BOOLEAN
    BY <2>1 DEF TypeOK, Lists
  <2> QED BY <1>7, <2>5, <2>6 DEF TypeOK, Relist, checkout, Records
<1>8. ASSUME NEW c \in Callers, NEW l \in Locks, Remove(c, l) PROVE TypeOK'
  <2>1. call' \in [Callers -> Records]
    BY <1>0, <1>8 DEF Remove, Now, Records
  <2>2. strayed' \in BOOLEAN
    BY <1>8 DEF TypeOK, Remove, Go
  <2> QED BY <1>8, <2>1, <2>2 DEF TypeOK, Remove, Records
<1>9. ASSUME NEW c \in Callers, NEW l \in Locks, RemoveFails(c, l) PROVE TypeOK'
  <2>1. met' \in [Callers -> BOOLEAN]
    BY <1>9 DEF TypeOK, RemoveFails, MayRemove
  <2> QED BY <1>4, <1>9, <2>1 DEF TypeOK, RemoveFails, checkout, Records
<1>10. ASSUME NEW c \in Callers, Repaired(c) PROVE TypeOK'
  <2>1. call' \in [Callers -> Records]
    BY <1>10, GoingOn, Rounds DEF Repaired, Steps, Ends
  <2> QED BY <1>10, <2>1 DEF TypeOK, Repaired, checkout, Records
<1>11. ASSUME NEW c \in Callers, Run(c) PROVE TypeOK'
  <2>1. call' \in [Callers -> Records]
    BY <1>11, GoingOn DEF Run, Steps
  <2> QED BY <1>11, <2>1 DEF TypeOK, Run, Meets, Records
<1>12. ASSUME NEW c \in Callers, Result(c) PROVE TypeOK'
  <2>1. call' \in [Callers -> Records]
    BY <1>12, GoingOn, Rounds DEF Result, Ends
  <2> QED BY <1>12, <2>1 DEF TypeOK, Result, checkout, Records
<1>13. ASSUME NEW c \in Callers, Die(c) PROVE TypeOK'
  <2>1. call' \in [Callers -> Records]
    BY <1>13, GoingOn DEF Die, Ends
  <2> QED BY <1>13, <2>1 DEF TypeOK, Die, checkout, Records
<1>14. ASSUME NEW g \in Gits, GitStep(g) \/ GitDies(g) PROVE TypeOK'
  <2>0. Applied(g) \in [Callers -> 0..2]
    BY DEF TypeOK, Applied
  <2>1. CASE GitFails(g)
    BY <2>1 DEF TypeOK, GitFails, Results
  <2>2. CASE GitFinishes(g)
    <3>1. git' \in [Gits -> Results \cup {"none", "started", "inside"}] /\ merging' \in BOOLEAN
      BY <2>2 DEF TypeOK, GitFinishes, Results
    <3>2. strayed' \in BOOLEAN
      BY <2>2 DEF TypeOK, GitFinishes, Go
    <3> QED BY <2>0, <2>2, <3>1, <3>2 DEF TypeOK, GitFinishes, Unlocked, OwnLocks
  <2>3. ASSUME NEW l \in Locks, GitLocks(g, l) PROVE TypeOK'
    BY <2>3 DEF TypeOK, GitLocks
  <2>4. CASE GitDies(g)
    BY <2>0, <2>4 DEF TypeOK, GitDies, Results
  <2> QED BY <1>14, <2>1, <2>2, <2>3, <2>4 DEF GitStep
<1>15. ASSUME NEW l \in Locks, Age(l) PROVE TypeOK'
  BY <1>15 DEF TypeOK, Age
<1>16. ASSUME NEW o \in Others, OtherStarts(o) PROVE TypeOK'
  BY <1>16 DEF TypeOK, OtherStarts, Meets, Gits
<1>17. ASSUME UNCHANGED vars PROVE TypeOK'
  BY <1>17 DEF TypeOK, vars, checkout
<1> QED
  BY <1>1, <1>2, <1>3, <1>5, <1>6, <1>7, <1>8, <1>9, <1>10, <1>11, <1>12, <1>13, <1>14,
     <1>15, <1>16, <1>17 DEF Next, CallStep

LEMMA TypeInit == ASSUME Init PROVE TypeOK
<1>1. NewCall \in Records
  BY AttemptsAssumption DEF NewCall, Records, Ends
<1>2. MaxDeaths \in Nat
  BY AttemptsAssumption
<1>3. call \in [Callers -> Records]
  BY <1>1 DEF Init
<1>4. 0 \in 0..2 /\ 0 \in 0..MaxDeaths
  BY <1>2
<1> QED BY <1>3, <1>4 DEF Init, TypeOK, Records, Commands

\* Types, and a call of runGitWithSafety is never beyond its last attempt.
THEOREM TypeCorrect == Spec => []TypeOK
<1>1. Init => TypeOK
  BY TypeInit
<1>2. TypeOK /\ [Next]_vars => TypeOK'
  BY TypeStep
<1> QED BY <1>1, <1>2, PTL DEF Spec

--------------------------------------------------------------------------------
(* Who runs a git, and when.                                                  *)

\* A call's git works only while the call waits for it, or after it died or was left; and a
\* git that could not get its lock has changed nothing.
Calm(c) ==
  (call[c].step \in Steps \ {"wait"} \/ call[c].step = "idle") => git[c] \in {"none", "locked"}
Once(c) ==
  /\ applied[c] <= 1
  /\ git[c] \in {"none", "locked", "started", "inside"} => applied[c] = 0
GitsFit == TypeOK /\ \A c \in Callers : Calm(c) /\ Once(c)

\* What a step of one call may make of the others, and of its own.
LEMMA OneMoves ==
  ASSUME TypeOK, NEW c \in Callers, NEW d \in Callers, d # c,
         Begin(c, "change") \/ Begin(c, "abort") \/ CallStep(c) \/ Die(c)
  PROVE  call'[d] = call[d]
<1> USE DEF TypeOK
<1>1. ASSUME NEW step, GoTo(c, step) PROVE call'[d] = call[d]
  BY <1>1 DEF GoTo, Now
<1>2. ASSUME NEW end, Again(c, end) PROVE call'[d] = call[d]
  BY <1>1, <1>2 DEF Again, Now
<1>3. ASSUME NEW l \in Locks, Leave(c, l) \/ Kill(c, l) \/ Remove(c, l) \/ RemoveFails(c, l)
      PROVE  call'[d] = call[d]
  BY <1>3 DEF Leave, Kill, Remove, RemoveFails, Leaves, Now
<1>4. CASE Look(c) \/ List(c) \/ Relist(c)
  BY <1>1, <1>4 DEF Look, List, Relist, Now
<1>5. CASE Repaired(c) \/ Run(c) \/ Result(c) \/ Die(c)
  BY <1>1, <1>2, <1>5 DEF Repaired, Run, Result, Die
<1>6. CASE Begin(c, "change") \/ Begin(c, "abort")
  BY <1>1, <1>6 DEF Begin
<1> QED BY <1>3, <1>4, <1>5, <1>6 DEF CallStep

LEMMA GitsStep == ASSUME GitsFit, [Next]_vars PROVE GitsFit'
<1> USE DEF GitsFit
<1>0. TypeOK' /\ CallersAssumption
  BY TypeStep, CallersAssumption
<1>a. git \in [Gits -> Results \cup {"none", "started", "inside"}] /\ Callers \subseteq Gits
      /\ call \in [Callers -> Records] /\ applied \in [Callers -> 0..2]
  BY DEF TypeOK, Records, Gits
<1>1. ASSUME NEW c \in Callers, NEW command \in Commands, Begin(c, command)
      PROVE  GitsFit'
  <2>1. \A d \in Callers : d # c => call'[d] = call[d]
    BY <1>1, OneMoves DEF Commands
  <2>2. git[c] \in {"none", "locked"}
    BY <1>1 DEF Begin, At, Calm
  <2>3. git' = git /\ applied' = applied
    BY <1>1 DEF Begin, checkout
  <2> QED BY <1>0, <2>1, <2>2, <2>3 DEF Calm, Once
<1>2. ASSUME NEW c \in Callers, CallStep(c) \/ Die(c), git' = git, applied' = applied,
             ~Result(c)
      PROVE  GitsFit'
  <2>1. \A d \in Callers : d # c => call'[d] = call[d]
    BY <1>2, OneMoves
  <2>2. call[c].step \in Steps \ {"wait"} \/ call'[c].step = "dead"
    <3>1. CASE Die(c)
      <4>1. GoTo(c, "dead")
        BY <3>1 DEF Die
      <4> QED BY <4>1, Arrives DEF Ends
    <3>2. CASE CallStep(c)
      BY <1>2, <3>2 DEF CallStep, Look, List, Leave, Kill, Relist, Remove, RemoveFails,
         Repaired, Run, At, Treats, Steps
    <3> QED BY <1>2, <3>1, <3>2
  <2> QED BY <1>0, <1>2, <2>1, <2>2 DEF Calm, Once, Steps
<1>3. ASSUME NEW c \in Callers, Result(c) PROVE GitsFit'
  <2>1. \A d \in Callers : d # c => call'[d] = call[d]
    BY <1>3, OneMoves DEF CallStep
  <2>2. git' = git /\ applied' = applied
    BY <1>3 DEF Result, checkout
  <2>3. CASE git[c] = "locked"
    BY <1>0, <2>1, <2>2, <2>3 DEF Calm, Once
  <2>4. CASE git[c] # "locked"
    <3>0. GoTo(c, IF git[c] \in {"ok", "unfinished"} THEN git[c] ELSE "failed")
      BY <1>3, <2>4 DEF Result, WorthAgain
    <3>1. PICK end \in {"ok", "unfinished", "failed"} : GoTo(c, end)
      BY <3>0
    <3>2. call'[c].step = end
      BY <3>1, Arrives DEF Ends
    <3> QED BY <1>0, <2>1, <2>2, <3>1, <3>2 DEF Calm, Once, Steps, Ends
  <2> QED BY <2>3, <2>4
<1>4. ASSUME NEW c \in Callers, NEW l \in Locks, Kill(c, l) PROVE GitsFit'
  <2>1. \A d \in Callers : d # c => call'[d] = call[d]
    BY <1>4, OneMoves DEF CallStep
  <2>2. call[c].step = "repair" /\ applied' = applied
    BY <1>4 DEF Kill, Treats, At
  <2>3. \A g \in Callers : \/ git'[g] = git[g]
                           \/ git[g] \in {"started", "inside"} /\ git'[g] = "killed"
    <3>1. PICK K \in SUBSET (call[c].pids \cap Running) :
            git' = [g \in Gits |-> IF g \in K THEN "killed" ELSE git[g]]
      BY <1>4 DEF Kill
    <3> QED BY <3>1, <1>a DEF Running
  <2> QED BY <1>0, <2>1, <2>2, <2>3 DEF Calm, Once, Steps
<1>5. ASSUME NEW c \in Callers, Run(c) PROVE GitsFit'
  <2>1. \A d \in Callers : d # c => call'[d] = call[d]
    BY <1>5, OneMoves DEF CallStep
  <2>2. call[c].step = "run" /\ applied' = applied /\ git' = [git EXCEPT ![c] = "started"]
    BY <1>5 DEF Run, At
  <2>3. call'[c].step = "wait"
    <3>1. GoTo(c, "wait")
      BY <1>5 DEF Run
    <3> QED BY <3>1, Arrives DEF Steps
  <2>4. applied[c] = 0
    BY <2>2 DEF Calm, Once, Steps
  <2> QED BY <1>0, <1>a, <2>1, <2>2, <2>3, <2>4 DEF Calm, Once, Steps
<1>6. ASSUME NEW g \in Gits, GitStep(g) \/ GitDies(g) PROVE GitsFit'
  <2>1. call' = call /\ git[g] \in {"started", "inside"}
    BY <1>6 DEF GitStep, GitFails, GitFinishes, GitLocks, GitDies
  <2>2. \A d \in Callers : d # g => git'[d] = git[d] /\ applied'[d] = applied[d]
    BY <1>6, <1>a DEF GitStep, GitFails, GitFinishes, GitLocks, GitDies, Applied
  <2>3. ASSUME g \in Callers PROVE ~(call[g].step \in Steps \ {"wait"} \/ call[g].step = "idle")
    BY <2>1, <2>3 DEF Calm
  <2>4. ASSUME g \in Callers PROVE Once(g)'
    <3>0. applied[g] = 0 /\ Applied(g) = [applied EXCEPT ![g] = 1]
      <4>1. applied[g] = 0
        BY <2>1, <2>4 DEF Once
      <4> QED BY <2>4, <4>1 DEF Applied
    <3>1. CASE GitFails(g)
      BY <1>a, <3>0, <3>1 DEF GitFails, Once
    <3>2. CASE GitFinishes(g)
      <4>1. git'[g] \in {"failed", "ok"} /\ applied'[g] = 1
        BY <1>a, <2>4, <3>0, <3>2 DEF GitFinishes
      <4> QED BY <4>1 DEF Once
    <3>3. CASE GitDies(g)
      BY <1>a, <2>4, <3>0, <3>3 DEF GitDies, Once
    <3>4. ASSUME NEW l \in Locks, GitLocks(g, l) PROVE Once(g)'
      BY <1>a, <3>0, <3>4 DEF GitLocks, Once
    <3> QED BY <1>6, <3>1, <3>2, <3>3, <3>4 DEF GitStep
  <2> QED BY <1>0, <2>1, <2>2, <2>3, <2>4 DEF Calm, Once
<1>7. ASSUME NEW o \in Others, OtherStarts(o) PROVE GitsFit'
  <2>1. call' = call /\ applied' = applied /\ \A d \in Callers : git'[d] = git[d]
    BY <1>0, <1>7, <1>a DEF OtherStarts, CallersAssumption
  <2> QED BY <1>0, <2>1 DEF Calm, Once
<1>8. ASSUME (\E l \in Locks : Age(l)) \/ UNCHANGED vars PROVE GitsFit'
  <2>1. call' = call /\ applied' = applied /\ git' = git
    BY <1>8 DEF Age, vars, checkout
  <2> QED BY <1>0, <2>1 DEF Calm, Once
<1>9. ASSUME NEW c \in Callers, CallStep(c) \/ Die(c) PROVE GitsFit'
  <2>1. CASE Look(c) \/ List(c) \/ Relist(c) \/ Repaired(c) \/ Die(c)
    <3>1. git' = git /\ applied' = applied /\ (~Result(c) \/ Result(c))
      BY <2>1 DEF Look, List, Relist, Repaired, Die, checkout
    <3> QED BY <1>2, <1>3, <1>9, <3>1
  <2>2. ASSUME NEW l \in Locks, Leave(c, l) \/ Remove(c, l) \/ RemoveFails(c, l)
        PROVE  GitsFit'
    <3>1. git' = git /\ applied' = applied /\ CallStep(c)
      BY <2>2 DEF Leave, Remove, RemoveFails, checkout, CallStep
    <3> QED BY <1>2, <1>3, <3>1
  <2> QED BY <1>3, <1>4, <1>5, <1>9, <2>1, <2>2 DEF CallStep
<1> QED BY <1>1, <1>6, <1>7, <1>8, <1>9 DEF Next

LEMMA GitsInit == ASSUME Init PROVE GitsFit
<1>1. TypeOK
  BY TypeInit
<1> QED BY <1>1 DEF Init, GitsFit, Calm, Once, Gits

\* A command takes effect once at most, however often runGitWithSafety runs it again, and
\* whatever other calls do to its git.
THEOREM RunsAgainSafely == Spec => []AppliedOnce
<1>1. Init => GitsFit
  BY GitsInit
<1>2. GitsFit /\ [Next]_vars => GitsFit'
  BY GitsStep
<1>3. GitsFit => AppliedOnce
  BY DEF GitsFit, Once, AppliedOnce
<1> QED BY <1>1, <1>2, <1>3, PTL DEF Spec

--------------------------------------------------------------------------------
(* Whose locks go.                                                            *)

\* What a call knows after it went to another step or round.
LEMMA Forgets ==
  ASSUME TypeOK, NEW c \in Callers, NEW end \in Steps \cup Ends,
         GoTo(c, end) \/ (end \in Ends /\ Again(c, end))
  PROVE  /\ call'[c].step \in {"look", end}
         /\ call'[c].todo = {} /\ call'[c].stuck = {} /\ call'[c].pids = {}
<1>1. CASE GoTo(c, end)
  <2>1. call'[c] = [NewCall EXCEPT !.step = end, !.attempt = call[c].attempt]
    BY <1>1, GoingOn
  <2> QED BY <2>1 DEF NewCall
<1>2. CASE end \in Ends /\ Again(c, end)
  <2>1. PICK step \in {"look", end}, n \in 1..MaxAttempts :
          call'[c] = [NewCall EXCEPT !.step = step, !.attempt = n]
    BY <1>2, Rounds
  <2> QED BY <2>1 DEF NewCall
<1> QED BY <1>1, <1>2

\* A git at work has its lock, and one that has not made a lock has none.  Until calls stray, a
\* lock that a call has seen and not treated is still there, and when the listing was empty no
\* git that made it is at work: who works by then has made another.
HasLock(g) == git[g] = "inside" => \E l \in Locks : lock[l] = g
HasNone(g) == git[g] \in {"none", "locked", "started"} => \A l \in Locks : lock[l] # g
StillThere(c) == \A l \in call[c].todo : lock[l] # NoCaller
Orphaned(c) ==
  At(c, "repair") /\ call[c].pids = {} => \A l \in call[c].todo : git[lock[l]] # "inside"
LocksFit ==
  /\ \A g \in Gits : HasLock(g)
  /\ \A c \in Callers : StillThere(c) /\ Orphaned(c)
StrayFits == GitsFit /\ (\A g \in Gits : HasNone(g)) /\ (~strayed => LocksFit)

\* A git that begins has no lock yet.
LEMMA NoneStep ==
  ASSUME GitsFit, \A g \in Gits : HasNone(g), [Next]_vars
  PROVE  \A g \in Gits : HasNone(g)'
<1>0. TypeOK /\ CallersAssumption
  BY CallersAssumption DEF GitsFit
<1>a. git \in [Gits -> Results \cup {"none", "started", "inside"}] /\ Callers \subseteq Gits
      /\ lock \in [Locks -> Gits \cup {NoCaller}] /\ NoCaller \notin Gits
  BY <1>0 DEF TypeOK, Gits, CallersAssumption
<1>1. ASSUME git' = git, \A l \in Locks : lock'[l] \in {lock[l], NoCaller}
      PROVE  \A g \in Gits : HasNone(g)'
  BY <1>a, <1>1 DEF HasNone
<1>2. ASSUME NEW c \in Callers, CallStep(c) \/ Die(c) PROVE \A g \in Gits : HasNone(g)'
  <2>1. CASE Look(c) \/ List(c) \/ Relist(c) \/ Repaired(c) \/ Result(c) \/ Die(c)
    BY <1>1, <2>1 DEF Look, List, Relist, Repaired, Result, Die, checkout
  <2>2. ASSUME NEW l \in Locks, Leave(c, l) \/ RemoveFails(c, l)
        PROVE  \A g \in Gits : HasNone(g)'
    BY <1>1, <2>2 DEF Leave, RemoveFails, checkout
  <2>3. ASSUME NEW l \in Locks, Remove(c, l) PROVE \A g \in Gits : HasNone(g)'
    BY <1>1, <1>a, <2>3 DEF Remove
  <2>4. ASSUME NEW l \in Locks, Kill(c, l) PROVE \A g \in Gits : HasNone(g)'
    BY <1>a, <2>4 DEF Kill, HasNone
  <2>5. CASE Run(c)
    <3>1. git' = [git EXCEPT ![c] = "started"] /\ lock' = lock /\ git[c] \in {"none", "locked"}
      BY <2>5 DEF Run, At, GitsFit, Calm, Steps
    <3> QED BY <1>a, <3>1 DEF HasNone
  <2> QED BY <1>2, <2>1, <2>2, <2>3, <2>4, <2>5 DEF CallStep
<1>3. ASSUME NEW c \in Callers, NEW command \in Commands, Begin(c, command)
      PROVE  \A g \in Gits : HasNone(g)'
  BY <1>1, <1>3 DEF Begin, checkout
<1>4. ASSUME NEW g \in Gits, GitStep(g) \/ GitDies(g) PROVE \A h \in Gits : HasNone(h)'
  <2>1. CASE GitFails(g) \/ GitDies(g)
    BY <1>a, <2>1 DEF GitFails, GitDies, HasNone
  <2>2. CASE GitFinishes(g)
    BY <1>a, <2>2 DEF GitFinishes, Unlocked, HasNone
  <2>3. ASSUME NEW l \in Locks, GitLocks(g, l) PROVE \A h \in Gits : HasNone(h)'
    BY <1>a, <2>3 DEF GitLocks, HasNone
  <2> QED BY <1>4, <2>1, <2>2, <2>3 DEF GitStep
<1>5. ASSUME NEW o \in Others, OtherStarts(o) PROVE \A g \in Gits : HasNone(g)'
  BY <1>a, <1>5 DEF OtherStarts, HasNone
<1>6. ASSUME (\E l \in Locks : Age(l)) \/ UNCHANGED vars PROVE \A g \in Gits : HasNone(g)'
  BY <1>1, <1>6 DEF Age, vars, checkout
<1> QED BY <1>2, <1>3, <1>4, <1>5, <1>6 DEF Next

\* A step of one call that leaves locks and gits alone.
LEMMA LocksCall ==
  ASSUME LocksFit, NEW c \in Callers, UNCHANGED <<lock, git>>,
         \A d \in Callers : d # c => call'[d] = call[d],
         StillThere(c)', Orphaned(c)'
  PROVE  LocksFit'
<1>1. \A g \in Gits : HasLock(g)'
  BY DEF LocksFit, HasLock
<1>2. \A d \in Callers : d # c => StillThere(d)' /\ Orphaned(d)'
  BY DEF LocksFit, StillThere, Orphaned, At
<1> QED BY <1>1, <1>2 DEF LocksFit

\* Until calls stray, only a call that listed no git removes a lock, and nobody else's.
LEMMA LocksStep ==
  ASSUME GitsFit, \A g \in Gits : HasNone(g), ~strayed', LocksFit, [Next]_vars
  PROVE  LocksFit'
<1>0. TypeOK /\ CallersAssumption
  BY CallersAssumption DEF GitsFit
<1>a. git \in [Gits -> Results \cup {"none", "started", "inside"}] /\ Callers \subseteq Gits
      /\ lock \in [Locks -> Gits \cup {NoCaller}] /\ NoCaller \notin Gits
      /\ call \in [Callers -> Records]
  BY <1>0 DEF TypeOK, Gits, Records, CallersAssumption
<1>b. ASSUME NEW c \in Callers PROVE call[c] \in Records /\ call[c].todo \subseteq Locks
  BY <1>a DEF Records
<1>1. ASSUME NEW c \in Callers, UNCHANGED <<lock, git>>,
             \A d \in Callers : d # c => call'[d] = call[d], call'[c].todo = {}
      PROVE  LocksFit'
  BY <1>1, LocksCall DEF StillThere, Orphaned
<1>2. ASSUME NEW c \in Callers, NEW command \in Commands, Begin(c, command)
      PROVE  LocksFit'
  <2>1. \A d \in Callers : d # c => call'[d] = call[d]
    BY <1>0, <1>2, OneMoves DEF Commands
  <2>2. GoTo(c, "look") /\ UNCHANGED <<lock, git>>
    BY <1>2 DEF Begin, checkout
  <2>3. call'[c].todo = {}
    BY <1>0, <2>2, Forgets DEF Steps
  <2> QED BY <1>1, <2>1, <2>2, <2>3
<1>3. ASSUME NEW c \in Callers, CallStep(c) \/ Die(c) PROVE LocksFit'
  <2>1. \A d \in Callers : d # c => call'[d] = call[d]
    BY <1>0, <1>3, OneMoves
  <2>2. StillThere(c) /\ Orphaned(c)
    BY DEF LocksFit
  <2>3. CASE Look(c)
    <3>1. UNCHANGED <<lock, git>>
      BY <2>3 DEF Look, checkout
    <3>2. CASE GoTo(c, "unfinished") \/ GoTo(c, "run")
      <4>1. call'[c].todo = {}
        BY <1>0, <3>2, Forgets DEF Steps, Ends
      <4> QED BY <1>1, <2>1, <3>1, <4>1
    <3>3. CASE ~(GoTo(c, "unfinished") \/ GoTo(c, "run"))
      <4>1. call'[c].step = "list" /\ call'[c].todo = {l \in Locks : lock[l] # NoCaller}
        <5> DEFINE seen == {l \in Locks : lock[l] # NoCaller}
        <5>1. call' = [call EXCEPT ![c] = [call[c] EXCEPT !.step = "list", !.todo = seen,
                                                          !.old = seen \cap aged]]
          BY <2>3, <3>3 DEF Look, Now
        <5> HIDE DEF seen
        <5>2. call'[c].step = "list" /\ call'[c].todo = seen
          BY <1>a, <1>b, <5>1 DEF Records
        <5> QED BY <5>2 DEF seen
      <4> QED BY <2>1, <3>1, <4>1, LocksCall DEF StillThere, Orphaned, At
    <3> QED BY <3>2, <3>3
  <2>4. CASE List(c) \/ Relist(c)
    <3>1. \A listed : Lists(listed) => listed = Running
      BY DEF Lists
    <3>2. call'[c].pids = Running /\ call'[c].todo \subseteq call[c].todo
      <4>1. CASE List(c)
        <5>1. call' = [call EXCEPT ![c] = [call[c] EXCEPT !.step = "repair", !.pids = Running]]
          BY <3>1, <4>1 DEF List, Now
        <5> QED BY <1>a, <1>b, <5>1 DEF Records
      <4>2. CASE Relist(c)
        <5>1. PICK kept \in SUBSET Locks :
                call' = [call EXCEPT ![c] =
                           [call[c] EXCEPT !.step = "repair", !.pids = Running, !.fixing = {},
                                           !.todo = @ \ kept, !.stuck = @ \cup kept]]
          <6>1. call[c].fixing \in SUBSET Locks
            BY <1>b DEF Records
          <6>2. (IF Running = {} THEN {} ELSE call[c].fixing) \in SUBSET Locks
            BY <6>1
          <6> QED BY <3>1, <4>2, <6>2 DEF Relist, Now
        <5> QED BY <1>a, <1>b, <5>1 DEF Records
      <4> QED BY <2>4, <4>1, <4>2
    <3>3. UNCHANGED <<lock, git>>
      BY <2>4 DEF List, Relist, checkout
    <3>4. StillThere(c)'
      BY <2>2, <3>2, <3>3 DEF StillThere
    <3>5. Orphaned(c)'
      <4> SUFFICES ASSUME Running = {}, NEW l \in call[c].todo PROVE git[lock[l]] # "inside"
        BY <3>2, <3>3 DEF Orphaned
      <4>1. lock[l] \in Gits
        BY <1>a, <1>b, <2>2 DEF StillThere
      <4> QED BY <4>1 DEF Running
    <3> QED BY <2>1, <3>3, <3>4, <3>5, LocksCall
  <2>5. ASSUME NEW l \in Locks, Leave(c, l) \/ RemoveFails(c, l) PROVE LocksFit'
    <3>1. call'[c].pids = call[c].pids /\ At(c, "repair") /\ call'[c].todo \subseteq call[c].todo
      <4>1. At(c, "repair") /\ Leaves(c, l)
        BY <2>5 DEF Leave, RemoveFails, Treats
      <4>2. call' = [call EXCEPT ![c] = [call[c] EXCEPT !.todo = @ \ {l},
                                                        !.stuck = @ \cup {l}]]
        BY <4>1 DEF Leaves, Now
      <4> QED BY <1>a, <1>b, <4>1, <4>2 DEF Records
    <3>2. UNCHANGED <<lock, git>>
      BY <2>5 DEF Leave, RemoveFails, checkout
    <3>3. StillThere(c)' /\ Orphaned(c)'
      BY <2>2, <3>1, <3>2 DEF StillThere, Orphaned
    <3> QED BY <2>1, <3>2, <3>3, LocksCall
  <2>6. ASSUME NEW l \in Locks, Kill(c, l) PROVE LocksFit'
    <3>1. lock' = lock /\ call'[c].step = "relist" /\ call'[c].todo = call[c].todo
      BY <1>a, <1>b, <2>6 DEF Kill, Now, Records
    <3>2. PICK K \in SUBSET (call[c].pids \cap Running) :
            git' = [g \in Gits |-> IF g \in K THEN "killed" ELSE git[g]]
      BY <2>6 DEF Kill
    <3>3. \A g \in Gits : HasLock(g)' /\ (git'[g] = "inside" => git[g] = "inside")
      BY <1>a, <3>1, <3>2 DEF LocksFit, HasLock
    <3>4. \A d \in Callers : StillThere(d)'
      BY <2>1, <3>1 DEF LocksFit, StillThere
    <3>5. ASSUME NEW d \in Callers, d # c PROVE Orphaned(d)'
      <4> SUFFICES ASSUME At(d, "repair"), call[d].pids = {}, NEW k \in call[d].todo
                   PROVE  git'[lock[k]] # "inside"
        BY <2>1, <3>1, <3>5 DEF Orphaned, At
      <4>1. lock[k] \in Gits /\ git[lock[k]] # "inside"
        BY <1>a, <1>b DEF LocksFit, StillThere, Orphaned
      <4> QED BY <3>3, <4>1
    <3>6. Orphaned(c)'
      BY <3>1 DEF Orphaned, At
    <3> QED BY <3>3, <3>4, <3>5, <3>6 DEF LocksFit
  <2>7. ASSUME NEW l \in Locks, Remove(c, l) PROVE LocksFit'
    <3>1. /\ call[c].pids = {} /\ At(c, "repair") /\ l \in call[c].todo
          /\ git' = git /\ lock' = [lock EXCEPT ![l] = NoCaller]
      BY <2>7 DEF Remove, Treats, MayRemove
    <3>2. call'[c].pids = call[c].pids /\ call'[c].step = call[c].step
          /\ call'[c].todo = call[c].todo \ {l}
      BY <1>a, <1>b, <2>7 DEF Remove, Now, Records
    <3>3. \A d \in Callers : d # c => l \notin call[d].todo
      BY <2>7 DEF Remove, Go
    <3>4. \A g \in Gits : HasLock(g)'
      <4>1. git[lock[l]] # "inside"
        BY <2>2, <3>1 DEF Orphaned
      <4> QED BY <1>a, <3>1, <4>1 DEF LocksFit, HasLock
    <3>5. \A d \in Callers : l \notin call'[d].todo /\ call'[d].todo \subseteq call[d].todo
      BY <2>1, <3>2, <3>3
    <3>6. \A d \in Callers : \A k \in call'[d].todo : lock'[k] = lock[k] /\ k \in call[d].todo
      BY <1>a, <1>b, <3>1, <3>5
    <3>7. \A d \in Callers : call'[d].pids = call[d].pids /\ (At(d, "repair")' => At(d, "repair"))
      BY <2>1, <3>2 DEF At
    <3>8. \A d \in Callers : StillThere(d)'
      BY <3>6 DEF LocksFit, StillThere
    <3>9. \A d \in Callers : Orphaned(d)'
      BY <3>1, <3>6, <3>7 DEF LocksFit, Orphaned
    <3> QED BY <3>4, <3>8, <3>9 DEF LocksFit
  <2>8. CASE Repaired(c) \/ Result(c) \/ Die(c)
    <3>1. \E end \in Steps \cup Ends : GoTo(c, end) \/ (end \in Ends /\ Again(c, end))
      <4>1. GoTo(c, "dead") \/ GoTo(c, "run") \/ Again(c, "blocked") \/ Again(c, "failed")
            \/ GoTo(c, "ok") \/ GoTo(c, "unfinished") \/ GoTo(c, "failed")
        BY <2>8 DEF Repaired, Result, Die
      <4> QED BY <4>1 DEF Steps, Ends
    <3>2. call'[c].todo = {}
      BY <1>0, <3>1, Forgets
    <3>3. UNCHANGED <<lock, git>>
      BY <2>8 DEF Repaired, Result, Die, checkout
    <3> QED BY <1>1, <2>1, <3>2, <3>3
  <2>9. CASE Run(c)
    <3>1. GoTo(c, "wait") /\ lock' = lock /\ git' = [git EXCEPT ![c] = "started"]
      BY <2>9 DEF Run
    <3>2. call'[c].todo = {}
      BY <1>0, <3>1, Forgets DEF Steps
    <3>3. \A g \in Gits : HasLock(g)' /\ (git'[g] = "inside" => git[g] = "inside")
      BY <1>a, <3>1 DEF LocksFit, HasLock
    <3>4. ASSUME NEW d \in Callers, d # c PROVE StillThere(d)' /\ Orphaned(d)'
      <4>1. StillThere(d)'
        BY <2>1, <3>1, <3>4 DEF LocksFit, StillThere
      <4>2. ASSUME At(d, "repair"), call[d].pids = {}, NEW k \in call[d].todo
            PROVE  git'[lock[k]] # "inside"
        <5>1. lock[k] \in Gits /\ git[lock[k]] # "inside"
          BY <1>a, <1>b, <4>2 DEF LocksFit, StillThere, Orphaned
        <5> QED BY <3>3, <5>1
      <4> QED BY <2>1, <3>1, <3>4, <4>1, <4>2 DEF Orphaned, At
    <3>5. StillThere(c)' /\ Orphaned(c)'
      BY <3>2 DEF StillThere, Orphaned
    <3> QED BY <3>3, <3>4, <3>5 DEF LocksFit
  <2> QED BY <1>3, <2>3, <2>4, <2>5, <2>6, <2>7, <2>8, <2>9 DEF CallStep
<1>4. ASSUME call' = call, \A g \in Gits : HasLock(g)',
             \A c \in Callers : \A l \in call[c].todo :
               lock'[l] = lock[l] /\ (git'[lock[l]] = "inside" => git[lock[l]] = "inside")
      PROVE  LocksFit'
  <2>1. \A c \in Callers : StillThere(c)'
    BY <1>4 DEF LocksFit, StillThere
  <2>2. \A c \in Callers : Orphaned(c)'
    BY <1>4 DEF LocksFit, Orphaned, At
  <2> QED BY <1>4, <2>1, <2>2 DEF LocksFit
<1>5. ASSUME NEW g \in Gits, GitStep(g) \/ GitDies(g) PROVE LocksFit'
  <2>0. \A c \in Callers : \A l \in call[c].todo : l \in Locks /\ lock[l] \in Gits
    BY <1>a, <1>b DEF LocksFit, StillThere
  <2>1. CASE GitFails(g) \/ GitDies(g)
    <3>1. call' = call /\ lock' = lock /\ \A h \in Gits : git'[h] = "inside" => git[h] = "inside"
      BY <1>a, <2>1 DEF GitFails, GitDies
    <3>2. \A h \in Gits : HasLock(h)'
      BY <3>1 DEF LocksFit, HasLock
    <3> QED BY <1>4, <2>0, <3>1, <3>2
  <2>2. CASE GitFinishes(g)
    <3>1. call' = call /\ lock' = Unlocked(g)
          /\ \A h \in Gits : git'[h] = "inside" => git[h] = "inside" /\ h # g
      BY <1>a, <2>2 DEF GitFinishes
    <3>2. \A h \in Gits : HasLock(h)'
      BY <3>1 DEF LocksFit, HasLock, Unlocked
    <3>3. \A c \in Callers : \A l \in call[c].todo : lock[l] # g
      <4>1. \A c \in Callers \ {NoCaller} : call[c].todo \cap OwnLocks(g) = {}
        BY <2>2 DEF GitFinishes, Go
      <4>2. \A c \in Callers : c # NoCaller
        BY <1>a
      <4> QED BY <2>0, <4>1, <4>2 DEF OwnLocks
    <3> QED BY <1>4, <2>0, <3>1, <3>2, <3>3 DEF Unlocked
  <2>3. ASSUME NEW l \in Locks, GitLocks(g, l) PROVE LocksFit'
    <3>1. call' = call /\ lock[l] = NoCaller /\ lock' = [lock EXCEPT ![l] = g]
          /\ git' = [git EXCEPT ![g] = "inside"] /\ git[g] = "started"
      BY <2>3 DEF GitLocks
    <3>2. \A h \in Gits : HasLock(h)'
      BY <1>a, <3>1 DEF LocksFit, HasLock
    <3>3. \A c \in Callers : \A k \in call[c].todo : k # l /\ lock[k] # g
      BY <2>0, <3>1 DEF LocksFit, StillThere, HasNone
    <3> QED BY <1>4, <1>a, <2>0, <3>1, <3>2, <3>3
  <2> QED BY <1>5, <2>1, <2>2, <2>3 DEF GitStep
<1>6. ASSUME NEW o \in Others, OtherStarts(o) PROVE LocksFit'
  <2>1. call' = call /\ lock' = lock /\ \A g \in Gits : git'[g] = "inside" => git[g] = "inside"
    BY <1>6, <1>a DEF OtherStarts
  <2>2. \A c \in Callers : \A l \in call[c].todo : lock[l] \in Gits
    BY <1>a, <1>b DEF LocksFit, StillThere
  <2>3. \A g \in Gits : HasLock(g)'
    BY <2>1 DEF LocksFit, HasLock
  <2> QED BY <1>4, <2>1, <2>2, <2>3
<1>7. ASSUME (\E l \in Locks : Age(l)) \/ UNCHANGED vars PROVE LocksFit'
  <2>1. call' = call /\ lock' = lock /\ git' = git
    BY <1>7 DEF Age, vars, checkout
  <2>2. \A g \in Gits : HasLock(g)'
    BY <2>1 DEF LocksFit, HasLock
  <2> QED BY <1>4, <2>1, <2>2
<1> QED BY <1>2, <1>3, <1>5, <1>6, <1>7 DEF Next

\* Calls that have strayed have strayed.
LEMMA Strays == ASSUME TypeOK, [Next]_vars, strayed PROVE strayed'
<1> USE DEF Begin, Look, List, Leave, Kill, Relist, Remove, RemoveFails, Repaired, Run, Result,
            Die, Lists, Go
<1>1. ASSUME NEW c \in Callers, CallStep(c) PROVE strayed'
  BY <1>1 DEF CallStep
<1>2. ASSUME NEW g \in Gits, GitStep(g) \/ GitDies(g) PROVE strayed'
  BY <1>2 DEF GitStep, GitFails, GitFinishes, GitLocks, GitDies
<1> QED BY <1>1, <1>2 DEF Next, Age, OtherStarts, vars

\* No call takes a lock from under a living git, guarded or not, whether or not the git's own
\* caller lives and whatever other calls do (repairLocks of runGitWithSafety), until a listing
\* fails or a lock that a call had seen goes by another hand before it is treated.
THEOREM LivingGitsKeepLocks == Spec => []WorkersHaveTheirLock
<1>1. Init => StrayFits
  <2>1. ASSUME Init PROVE StrayFits
    <3>1. NoCaller \notin Gits
      BY CallersAssumption DEF Gits
    <3> QED BY <2>1, <3>1, GitsInit DEF Init, StrayFits, LocksFit, HasLock, HasNone, StillThere,
           Orphaned, At, NewCall
  <2> QED BY <2>1
<1>2. StrayFits /\ [Next]_vars => StrayFits'
  <2>1. ASSUME StrayFits, [Next]_vars PROVE StrayFits'
    <3>1. GitsFit' /\ TypeOK
      BY <2>1, GitsStep DEF StrayFits, GitsFit
    <3>2. ~strayed' => ~strayed
      BY <2>1, <3>1, Strays
    <3> QED BY <2>1, <3>1, <3>2, NoneStep, LocksStep DEF StrayFits
  <2> QED BY <2>1
<1>3. StrayFits => WorkersHaveTheirLock
  BY DEF StrayFits, LocksFit, HasLock, WorkersHaveTheirLock, OwnLocks
<1> QED BY <1>1, <1>2, <1>3, PTL DEF Spec

--------------------------------------------------------------------------------
(* What a call gives up over.                                                 *)

\* Whoever runs beside a call is noted, and so is whatever the call found in its way.
Noted(c) ==
  /\ InCall(c) => /\ \A g \in Running \ {c} : met[c]
                  /\ call[c].pids # {} \/ call[c].stuck # {} => met[c]
  /\ At(c, "blocked") => met[c]
OrphansFit == GitsFit /\ \A c \in Callers : Noted(c)

LEMMA OrphansStep == ASSUME OrphansFit, [Next]_vars PROVE OrphansFit'
<1>0. GitsFit' /\ TypeOK /\ CallersAssumption
  BY GitsStep, CallersAssumption DEF OrphansFit, GitsFit
<1>a. /\ call \in [Callers -> Records] /\ met \in [Callers -> BOOLEAN]
      /\ git \in [Gits -> Results \cup {"none", "started", "inside"}] /\ Callers \subseteq Gits
  BY <1>0 DEF TypeOK, Records, Gits
<1>1. ASSUME call' = call, Running' \subseteq Running, met' = met PROVE OrphansFit'
  BY <1>0, <1>1 DEF OrphansFit, Noted, InCall, At
<1>2. ASSUME NEW c \in Callers, NEW command \in Commands, Begin(c, command)
      PROVE  OrphansFit'
  <2>1. \A d \in Callers : d # c => call'[d] = call[d]
    BY <1>0, <1>2, OneMoves DEF Commands
  <2>2. GoTo(c, "look") /\ At(c, "idle")
    BY <1>2 DEF Begin
  <2>3. call'[c].step = "look" /\ call'[c].stuck = {} /\ call'[c].pids = {}
    BY <1>0, <2>2, Forgets DEF Steps
  <2>4. Running' = Running /\ met' = [met EXCEPT ![c] = Running # {}]
    BY <1>2 DEF Begin, checkout, Running
  <2>5. Noted(c)'
    BY <1>a, <2>3, <2>4 DEF Noted, At
  <2>6. \A d \in Callers : d # c => Noted(d)'
    BY <1>a, <2>1, <2>4 DEF OrphansFit, Noted, At, InCall
  <2> QED BY <1>0, <2>5, <2>6 DEF OrphansFit
<1>3. ASSUME NEW c \in Callers, CallStep(c) \/ Die(c) PROVE OrphansFit'
  <2>1. \A d \in Callers : d # c => call'[d] = call[d]
    BY <1>0, <1>3, OneMoves
  <2>2. Noted(c) /\ InCall(c)
    BY <1>3 DEF OrphansFit, CallStep, Look, List, Leave, Kill, Relist, Remove, RemoveFails,
       Repaired, Run, Result, Die, At, Treats, InCall, Steps
  <2>3. ASSUME Running' \subseteq Running, met' = met,
               call'[c].pids # {} \/ call'[c].stuck # {} \/ At(c, "blocked")' => met[c]
        PROVE  OrphansFit'
    <3>1. Noted(c)'
      BY <2>2, <2>3 DEF Noted, At, InCall
    <3>2. \A d \in Callers : d # c => Noted(d)'
      BY <2>1, <2>3 DEF OrphansFit, Noted, At, InCall
    <3> QED BY <1>0, <3>1, <3>2 DEF OrphansFit
  <2>4. ASSUME NEW end \in (Steps \cup Ends) \ {"blocked"}, UNCHANGED <<git, met>>,
               GoTo(c, end) \/ (end \in Ends /\ Again(c, end))
        PROVE  OrphansFit'
    <3>1. call'[c].step # "blocked" /\ call'[c].stuck = {} /\ call'[c].pids = {}
      BY <1>0, <2>4, Forgets
    <3> QED BY <2>3, <2>4, <3>1 DEF Running, At
  <2>5. CASE Look(c)
    <3>1. UNCHANGED <<git, met>>
      BY <2>5 DEF Look, checkout
    <3>2. CASE GoTo(c, "unfinished") \/ GoTo(c, "run")
      BY <2>4, <3>1, <3>2 DEF Steps, Ends
    <3>3. CASE ~(GoTo(c, "unfinished") \/ GoTo(c, "run"))
      <4>1. /\ call'[c].step = "list" /\ call'[c].pids = call[c].pids
            /\ call'[c].stuck = call[c].stuck
        BY <1>a, <2>5, <3>3 DEF Look, Now, Records
      <4> QED BY <2>2, <2>3, <3>1, <4>1 DEF Noted, At, Running
    <3> QED BY <3>2, <3>3
  <2>6. ASSUME NEW listed \in Listings, At(c, "list") \/ At(c, "relist")
        PROVE  listed # {} => met[c]
    <3>1. git[c] \in {"none", "locked"}
      BY <2>6 DEF OrphansFit, GitsFit, Calm, At, Steps
    <3>2. c \notin Running
      BY <3>1 DEF Running
    <3> QED BY <2>2, <2>6, <3>2 DEF Listings, Noted
  <2>7. CASE List(c)
    <3>1. PICK listed \in Listings :
            call' = [call EXCEPT ![c] = [call[c] EXCEPT !.step = "repair", !.pids = listed]]
      BY <2>7 DEF List, Now
    <3>2. call'[c].step = "repair" /\ call'[c].pids = listed /\ call'[c].stuck = call[c].stuck
      BY <1>a, <3>1 DEF Records
    <3>3. listed # {} => met[c]
      BY <2>6, <2>7 DEF List
    <3>4. UNCHANGED <<git, met>>
      BY <2>7 DEF List, checkout
    <3> QED BY <2>2, <2>3, <3>2, <3>3, <3>4 DEF Noted, At, Running
  <2>8. CASE Relist(c)
    <3>1. PICK listed \in Listings :
            LET kept == IF listed = {} THEN {} ELSE call[c].fixing IN
            /\ Now(c, [call[c] EXCEPT !.step = "repair", !.pids = listed, !.fixing = {},
                                      !.todo = @ \ kept, !.stuck = @ \cup kept])
            /\ Lists(listed)
      BY <2>8 DEF Relist
    <3> DEFINE kept == IF listed = {} THEN {} ELSE call[c].fixing
    <3>2. Now(c, [call[c] EXCEPT !.step = "repair", !.pids = listed, !.fixing = {},
                                 !.todo = @ \ kept, !.stuck = @ \cup kept])
      BY <3>1
    <3>3. kept # {} => listed # {}
      OBVIOUS
    <3> HIDE DEF kept
    <3>4. /\ call'[c].step = "repair" /\ call'[c].pids = listed
          /\ call'[c].stuck = call[c].stuck \cup kept
      BY <1>a, <3>2 DEF Now, Records
    <3>5. listed # {} => met[c]
      BY <2>6, <2>8 DEF Relist
    <3>6. UNCHANGED <<git, met>>
      BY <2>8 DEF Relist, checkout
    <3> QED BY <2>2, <2>3, <3>3, <3>4, <3>5, <3>6 DEF Noted, At, Running
  <2>9. ASSUME NEW l \in Locks, Leave(c, l) PROVE OrphansFit'
    <3>1. met[c]
      BY <2>2, <2>9 DEF Leave, Protected, Noted
    <3>2. UNCHANGED <<git, met>>
      BY <2>9 DEF Leave, checkout
    <3> QED BY <2>3, <3>1, <3>2 DEF Running
  <2>10. ASSUME NEW l \in Locks, RemoveFails(c, l) PROVE OrphansFit'
    <3>1. met' = [met EXCEPT ![c] = TRUE] /\ git' = git
      BY <1>a, <2>10 DEF RemoveFails, MayRemove, checkout
    <3>2. Noted(c)'
      BY <1>a, <3>1 DEF Noted
    <3>3. \A d \in Callers : d # c => Noted(d)'
      BY <1>a, <2>1, <3>1 DEF OrphansFit, Noted, At, InCall, Running
    <3> QED BY <1>0, <3>2, <3>3 DEF OrphansFit
  <2>11. ASSUME NEW l \in Locks, Kill(c, l) PROVE OrphansFit'
    <3>1. met[c]
      BY <2>2, <2>11 DEF Kill, Noted
    <3>2. PICK K \in SUBSET (call[c].pids \cap Running) :
            git' = [g \in Gits |-> IF g \in K THEN "killed" ELSE git[g]]
      BY <2>11 DEF Kill
    <3>3. Running' \subseteq Running
      BY <3>2 DEF Running
    <3> QED BY <2>3, <2>11, <3>1, <3>3 DEF Kill
  <2>12. ASSUME NEW l \in Locks, Remove(c, l) PROVE OrphansFit'
    <3>1. /\ call'[c].step = "repair" /\ call'[c].pids = call[c].pids
          /\ call'[c].stuck = call[c].stuck
      BY <1>a, <2>12 DEF Remove, Treats, At, Now, Records
    <3> QED BY <2>2, <2>3, <2>12, <3>1 DEF Remove, Noted, At, Running
  <2>13. CASE Repaired(c)
    <3>1. UNCHANGED <<git, met>>
      BY <2>13 DEF Repaired, checkout
    <3>2. CASE GoTo(c, "run")
      BY <2>4, <3>1, <3>2 DEF Steps
    <3>3. CASE ~GoTo(c, "run")
      BY <2>2, <2>3, <2>13, <3>1, <3>3 DEF Repaired, Noted, Running
    <3> QED BY <3>2, <3>3
  <2>14. CASE Result(c) \/ Die(c)
    <3>1. UNCHANGED <<git, met>>
      BY <2>14 DEF Result, Die, checkout
    <3>2. \/ GoTo(c, "dead") \/ GoTo(c, "ok") \/ GoTo(c, "unfinished") \/ GoTo(c, "failed")
          \/ Again(c, "failed")
      BY <2>14 DEF Result, Die
    <3> QED BY <2>4, <3>1, <3>2 DEF Ends
  <2>15. CASE Run(c)
    <3>1. GoTo(c, "wait") /\ git' = [git EXCEPT ![c] = "started"]
          /\ met' = [d \in Callers |-> d # c \/ met[d]]
      BY <2>15 DEF Run, Meets
    <3>2. call'[c].step = "wait" /\ call'[c].stuck = {} /\ call'[c].pids = {}
      BY <1>0, <3>1, Arrives, Forgets DEF Steps
    <3>3. Running' \ {c} = Running \ {c} /\ met'[c] = met[c]
      BY <1>a, <3>1 DEF Running
    <3>4. Noted(c)'
      BY <2>2, <3>2, <3>3 DEF Noted, At
    <3>5. \A d \in Callers : d # c => Noted(d)'
      BY <3>1 DEF Noted
    <3> QED BY <1>0, <3>4, <3>5 DEF OrphansFit
  <2> QED BY <1>3, <2>5, <2>7, <2>8, <2>9, <2>10, <2>11, <2>12, <2>13, <2>14, <2>15
          DEF CallStep
<1>4. ASSUME NEW h \in Gits, GitStep(h) \/ GitDies(h) PROVE OrphansFit'
  <2>1. call' = call /\ met' = met /\ git[h] \in {"started", "inside"}
    BY <1>4 DEF GitStep, GitFails, GitFinishes, GitLocks, GitDies
  <2>2. \A g \in Gits : g # h => git'[g] = git[g]
    BY <1>4, <1>a DEF GitStep, GitFails, GitFinishes, GitLocks, GitDies
  <2>3. Running' \subseteq Running
    BY <2>1, <2>2 DEF Running
  <2> QED BY <1>1, <2>1, <2>3
<1>5. ASSUME NEW o \in Others, OtherStarts(o) PROVE OrphansFit'
  <2>1. call' = call /\ met' = [d \in Callers |-> d # NoCaller \/ met[d]]
    BY <1>5 DEF OtherStarts, Meets
  <2>2. \A d \in Callers : met'[d] = TRUE
    BY <1>0, <2>1 DEF CallersAssumption
  <2> QED BY <1>0, <2>2 DEF OrphansFit, Noted
<1>6. ASSUME (\E l \in Locks : Age(l)) \/ UNCHANGED vars PROVE OrphansFit'
  <2>1. call' = call /\ met' = met /\ git' = git
    BY <1>6 DEF Age, vars, checkout
  <2> QED BY <1>1, <2>1 DEF Running
<1> QED BY <1>2, <1>3, <1>4, <1>5, <1>6 DEF Next

\* However many calls and gits there are, a call that is blocked over locks met a git or a file
\* it could not remove: what dead gits left behind stops nobody (repairLocks).
THEOREM OrphansStopNobody == Spec => []OrphansBlockNobody
<1>1. Init => OrphansFit
  <2>1. ASSUME Init PROVE OrphansFit
    BY <2>1, GitsInit DEF Init, OrphansFit, Noted, InCall, At, NewCall, Steps
  <2> QED BY <2>1
<1>2. OrphansFit /\ [Next]_vars => OrphansFit'
  BY OrphansStep
<1>3. OrphansFit => OrphansBlockNobody
  BY DEF OrphansFit, Noted, OrphansBlockNobody
<1> QED BY <1>1, <1>2, <1>3, PTL DEF Spec

================================================================================
