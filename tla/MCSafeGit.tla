------------------------------- MODULE MCSafeGit -------------------------------
\* SafeGit, with states told apart only by what a later step or a property can read.
EXTENDS SafeGit

\* A call that is over, and whose git is too, takes no more steps.
Over(c) == ~InCall(c) /\ ~At(c, "idle") /\ c \notin Running

\* Of a listing: whether it is empty, and the gits that may run yet.
Listed(r) == {g \in r.pids : g \in Running \/ (g \in Callers /\ InCall(g))}

\* Which of its locks are old matters to a call for those it has not treated, and only beside
\* listed gits; of those it had to leave, that there are any.
OldOnes(r) == IF r.step = "repair" /\ r.pids = {} THEN {} ELSE r.old \cap r.todo
Known(r) ==
  <<r.step, r.attempt, r.todo, OldOnes(r), r.stuck # {}, r.fixing, r.pids # {}, Listed(r)>>

WhatIsRead ==
  <<lock, aged, merging, deaths, strayed,
    [o \in Others |-> IF git[o] \in {"none", "started", "inside"} THEN git[o] ELSE "over"],
    [c \in Callers |->
       IF Over(c) THEN <<At(c, "blocked") /\ ~met[c], applied[c] = 2>>
       ELSE <<git[c], Known(call[c]), cmd[c], met[c], applied[c]>>]>>
================================================================================
