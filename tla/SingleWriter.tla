------------------------------ MODULE SingleWriter ------------------------------
(******************************************************************************)
(* What a lease or a lock of this repository promises: a scope has at most    *)
(* one holder, only the holder writes, the holder may come back as the same   *)
(* party after it died, and the scope changes hands only by being freed when  *)
(* the holder is not writing.  Nothing here is code; lease and lock modules   *)
(* are shown to implement it under the conditions that their README section   *)
(* names.                                                                     *)
(******************************************************************************)
CONSTANTS Parties, Nobody

VARIABLES holder, writers

Init == holder = Nobody /\ writers = {}

\* The scope is reserved, before the new holder knows it.
Take(p) == holder = Nobody /\ holder' = p /\ UNCHANGED writers

\* The holder learns that it holds the scope and writes.
Enter(p) == holder = p /\ writers' = writers \cup {p} /\ UNCHANGED holder

\* A party stops writing: it is done, it died, or it was told it lost the scope.
Exit(p) == p \in writers /\ writers' = writers \ {p} /\ UNCHANGED holder

\* The scope is given back.
Free(p) == holder = p /\ p \notin writers /\ holder' = Nobody /\ UNCHANGED writers

Next == \E p \in Parties : Take(p) \/ Enter(p) \/ Exit(p) \/ Free(p)

Spec == Init /\ [][Next]_<<holder, writers>>

\* The promise in one line: whoever writes is the holder.
OnlyHolderWrites == writers \subseteq {holder}
================================================================================
