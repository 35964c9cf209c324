--------------------------- MODULE SingleWriterProofs ---------------------------
(******************************************************************************)
(* What a scope that keeps its promise gives its users: nobody writes it      *)
(* except its holder.  With KeepsPromise of a lease module this says what     *)
(* holding that lease is worth.                                               *)
(******************************************************************************)
EXTENDS SingleWriter, TLAPS

\* The writers are parties, and a scope that is free has none.
OnlyPartiesWrite == writers \subseteq Parties

\* Whoever writes is the holder, so one party at most writes at any time.
THEOREM OnlyTheHolder ==
  ASSUME Nobody \notin Parties
  PROVE  Spec => []OnlyHolderWrites
<1> DEFINE Inv == OnlyPartiesWrite /\ OnlyHolderWrites
<1> USE DEF OnlyPartiesWrite, OnlyHolderWrites
<1>1. Init => Inv
  BY DEF Init
<1>2. Inv /\ [Next]_<<holder, writers>> => Inv'
  <2> SUFFICES ASSUME Inv, [Next]_<<holder, writers>> PROVE Inv'
    OBVIOUS
  <2>1. ASSUME NEW p \in Parties, Take(p) PROVE Inv'
    BY <2>1 DEF Take
  <2>2. ASSUME NEW p \in Parties, Enter(p) PROVE Inv'
    BY <2>2 DEF Enter
  <2>3. ASSUME NEW p \in Parties, Exit(p) PROVE Inv'
    BY <2>3 DEF Exit
  <2>4. ASSUME NEW p \in Parties, Free(p) PROVE Inv'
    BY <2>4 DEF Free
  <2>5. CASE UNCHANGED <<holder, writers>>
    BY <2>5
  <2> QED BY <2>1, <2>2, <2>3, <2>4, <2>5 DEF Next
<1>3. Inv => OnlyHolderWrites
  OBVIOUS
<1> QED BY <1>1, <1>2, <1>3, PTL DEF Spec
================================================================================
