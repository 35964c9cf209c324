-------------------------- MODULE ThroughputController --------------------------
(******************************************************************************)
(* The adaptive in-flight cap of tools/priority/queue-supervisor.mjs: the     *)
(* health of the trunk and the retry history ask for a mode, hysteresis slows *)
(* the way up, and the mode, a release burst and the remediation governor give*)
(* the cap.  The mode and the upgrade streak go to a controller file, which   *)
(* the next pass reads.  --no-adaptive-cap is left out.                       *)
(******************************************************************************)
EXTENDS Integers

CONSTANTS
  MinInflight, MaxInflight, \* --min-inflight and --max-inflight
  Weathers \* the trunk's success rate, saturation and stalled runs, as the thresholds see them

\* evaluateAdaptiveInflight throws when the floor is above the cap.
ASSUME CapsAssumption ==
  MinInflight \in Nat /\ MaxInflight \in Nat /\ MinInflight <= MaxInflight
ASSUME WeathersAssumption == Weathers \subseteq {"green", "warning", "severe"}

Rank == [none |-> 0, stabilize |-> 1, guarded |-> 2, healthy |-> 3]
ModeOf == [r \in 1 .. 3 |-> CHOOSE m \in DOMAIN Rank : Rank[m] = r]
Modes == DOMAIN Rank
States == [mode : Modes, streak : 0 .. 1]
NoState == [mode |-> "none", streak |-> 0]

AtLeast1(n) == IF n = 0 THEN 1 ELSE n

\* The mode that the weather and the retry history ask for: failures in the window,
\* over candidates; pull requests with two or more, over those with any.
DesiredMode(weather, failed, candidates, quarantinable, failing) ==
  LET retry == 100 * failed
      quarantine == 100 * quarantinable
  IN CASE \/ weather = "severe"
          \/ retry >= 35 * AtLeast1(candidates)
          \/ quarantine >= 20 * AtLeast1(failing) -> "stabilize"
       [] \/ weather = "warning"
          \/ retry >= 20 * AtLeast1(candidates)
          \/ quarantine >= 10 * AtLeast1(failing) -> "guarded"
       [] OTHER -> "healthy"

\* The streak the last pass left: the file has it under hysteresis, the code reads it
\* beside the mode, where there is none.
PreviousStreak(file) == 0

\* Down at once, up one mode after two passes that want it.
Hysteresis(desired, file) ==
  LET previous == Rank[file.mode]
      next == IF Rank[desired] > previous + 1 THEN previous + 1 ELSE Rank[desired]
      streak == PreviousStreak(file) + 1
  IN IF file.mode = "none" THEN [mode |-> desired, streak |-> 0]
     ELSE IF next <= previous \/ streak >= 2 THEN [mode |-> ModeOf[next], streak |-> 0]
     ELSE [mode |-> file.mode, streak |-> streak]

GuardedCap == IF MaxInflight - 2 > MinInflight THEN MaxInflight - 2 ELSE MinInflight

CapOf(mode) ==
  CASE mode = "healthy" -> MaxInflight
    [] mode = "guarded" -> GuardedCap
    [] OTHER -> MinInflight

\* The caps a pass may get: of its mode, of the governor's stabilize mode, or of a release
\* burst, which a pass in stabilize mode does not get.
Caps(mode) ==
  {CapOf(mode), MinInflight} \cup (IF mode = "stabilize" THEN {} ELSE {MaxInflight})
================================================================================
