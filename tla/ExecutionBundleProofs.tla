------------------------- MODULE ExecutionBundleProofs -------------------------
(******************************************************************************)
(* What holds of the cell, the lane and the bundles for every set of agents,  *)
(* however many leases are granted and commands killed.                       *)
(******************************************************************************)
EXTENDS ExecutionBundle, TLAPS

Commands == [bundle : Bundles \cup {"none"}, file : Files, action : Actions, step : Steps,
             seen : Records, answer : Answers, lease : 0..MaxLeases]

\* What a call that is taken writes is a record, and it says what its action says.
LEMMA Outcomes ==
  ASSUME TypeOK, NEW a \in Agents, Write(a)
  PROVE  LET record == Outcome(a) IN
         /\ record \in Records /\ RecordOK(record)
         /\ leases' \in 0..MaxLeases /\ leases <= leases'
         /\ op[a].action = "grant" => record.lease = leases' /\ leases < leases'
         /\ op[a].action # "grant" => record.lease \in {0, Seen(a).lease}
         /\ op[a].action # "request" => record.agent = Seen(a).agent
<1> USE AgentsAssumption, BoundsAssumption
<1>1. Seen(a) \in Records /\ RecordOK(Seen(a)) /\ leases \in 0..MaxLeases /\ op[a] \in Commands
  BY DEF TypeOK, Seen, Commands
<1>2. Takes(a) /\ (op[a].action = "grant" => leases < MaxLeases)
      /\ leases' = IF op[a].action = "grant" THEN leases + 1 ELSE leases
  BY DEF Write
<1>3. CASE op[a].action = "request"
  BY <1>1, <1>2, <1>3 DEF Outcome, Requested, Records, RecordOK, States
<1>4. CASE op[a].action = "grant"
  <2>1. Seen(a).state # "none" /\ Seen(a).agent # NoAgent
    BY <1>1, <1>2, <1>4 DEF Takes, CellTakes, LaneTakes, InState, RecordOK
  <2>2. leases + 1 \in 1..MaxLeases /\ leases' = leases + 1
    BY <1>1, <1>2, <1>4
  <2>3. Outcome(a) = [Seen(a) EXCEPT !.state = "granted", !.lease = leases + 1]
    BY <1>4 DEF Outcome
  <2>4. Outcome(a) = [state |-> "granted", agent |-> Seen(a).agent, lease |-> leases + 1]
    BY <1>1, <2>3 DEF Records
  <2> QED BY <1>1, <1>4, <2>1, <2>2, <2>4 DEF Records, RecordOK, States
<1>5. CASE op[a].action \in {"commit", "heartbeat"}
  <2>1. Seen(a).state \in {"granted", "active"}
    BY <1>1, <1>2, <1>5 DEF Takes, CellTakes, LaneTakes, InState
  <2> QED BY <1>1, <1>2, <1>5, <2>1 DEF Outcome, Records, RecordOK, States
<1>6. CASE op[a].action \in {"release", "undo"}
  <2>1. Seen(a).state # "none"
    BY <1>1, <1>2, <1>6 DEF Takes, CellTakes, LaneTakes, InState
  <2> QED BY <1>1, <1>2, <1>6, <2>1 DEF Outcome, Records, RecordOK, States
<1> QED
  BY <1>2, <1>3, <1>4, <1>5, <1>6 DEF Takes, CellTakes, LaneTakes, InState

\* The bundle goes on to a call of one of the two files.
LEMMA NextCalls ==
  ASSUME NEW o \in Commands, NEW c \in NextCall(o)
  PROVE  c[1] \in Files /\ c[2] \in Actions
BY DEF NextCall, Rollback, Halves, First, Second, Files, Actions, Commands, Bundles

\* The command as it begins a call.
LEMMA NewCallFields ==
  ASSUME NEW bundle \in Bundles \cup {"none"}, NEW f \in Files, NEW action \in Actions,
         NEW lease \in 0..MaxLeases
  PROVE  LET o == NewCall(bundle, f, action, lease)
         IN  /\ o \in Commands
             /\ o.seen = NoRecord /\ o.step = "read" /\ o.answer = "none"
             /\ o.bundle = bundle /\ o.file = f /\ o.action = action /\ o.lease = lease
<1>1. NoRecord \in Records
  BY BoundsAssumption, AgentsAssumption DEF NoRecord, Records, States
<1> QED BY <1>1 DEF NewCall, Idle, Commands, Steps, Answers

\* A new call keeps the types.
LEMMA CallsType ==
  ASSUME TypeOK, NEW a \in Agents, NEW bundle \in Bundles \cup {"none"}, NEW f \in Files,
         NEW action \in Actions, NEW lease \in 0..MaxLeases, Call(a, bundle, f, action, lease)
  PROVE  /\ op' \in [Agents -> Commands]
         /\ \A b \in Agents : RecordOK(op'[b].seen)
<1>1. NoRecord \in Records /\ RecordOK(NoRecord)
  BY BoundsAssumption, AgentsAssumption DEF NoRecord, Records, RecordOK, States
<1> DEFINE o == NewCall(bundle, f, action, lease)
<1>2. o \in Commands /\ o.seen = NoRecord
  BY NewCallFields
<1>3. op' = [op EXCEPT ![a] = o]
  BY DEF Call
<1> HIDE DEF o
<1> QED BY <1>1, <1>2, <1>3 DEF TypeOK, Commands

LEMMA TypeStep == ASSUME TypeOK, [Next]_vars PROVE TypeOK'
<1> USE BoundsAssumption DEF TypeOK
<1>0. op \in [Agents -> Commands] /\ NoRecord \in Records /\ RecordOK(NoRecord)
  BY AgentsAssumption DEF Commands, NoRecord, Records, RecordOK, States
<1>1. ASSUME NEW a \in Agents, NEW bundle \in Bundles, Start(a, bundle) PROVE TypeOK'
  <2>1. First(bundle) \in Files /\ bundle \in Actions /\ bundle \in Bundles \cup {"none"}
    BY DEF First, Files, Actions
  <2>2. op' \in [Agents -> Commands] /\ \A b \in Agents : RecordOK(op'[b].seen)
    BY <1>1, <2>1, CallsType DEF Start
  <2> QED BY <1>1, <2>2 DEF Start, Commands
<1>2. ASSUME NEW a \in Agents, Read(a) PROVE TypeOK'
  <2>1. file[op[a].file] \in Records /\ RecordOK(file[op[a].file])
    BY <1>0 DEF Commands
  <2>2. op' \in [Agents -> Commands] /\ \A b \in Agents : RecordOK(op'[b].seen)
    BY <1>0, <1>2, <2>1 DEF Read, Commands, Steps
  <2> QED BY <1>2, <2>2 DEF Read, Commands
<1>3. ASSUME NEW a \in Agents, Write(a) PROVE TypeOK'
  <2> DEFINE record == Outcome(a)
  <2>1. record \in Records /\ RecordOK(record) /\ leases' \in 0..MaxLeases
    BY <1>3, Outcomes
  <2>2. record.lease \in 0..MaxLeases /\ op[a].file \in Files /\ op[a].lease \in 0..MaxLeases
    BY <1>0, <2>1 DEF Records, Commands
  <2> HIDE DEF record
  <2>3. file' \in [Files -> Records] /\ \A f \in Files : RecordOK(file'[f])
    BY <1>3, <2>1 DEF Write, record
  <2>4. op' \in [Agents -> Commands] /\ \A b \in Agents : RecordOK(op'[b].seen)
    <3> DEFINE lease == IF op[a].file = "cell" /\ op[a].action = "grant"
                          THEN record.lease ELSE op[a].lease
    <3>1. lease \in 0..MaxLeases
      BY <2>2
    <3>2. op' = [op EXCEPT ![a].step = "report", ![a].seen = record, ![a].answer = "done",
                           ![a].lease = lease]
      BY <1>3 DEF Write, record
    <3> HIDE DEF lease
    <3>3. [op[a] EXCEPT !.step = "report", !.seen = record, !.answer = "done", !.lease = lease]
            \in Commands
      BY <1>0, <2>1, <3>1 DEF Commands, Steps, Answers
    <3>4. op' = [op EXCEPT ![a] = [op[a] EXCEPT !.step = "report", !.seen = record,
                                               !.answer = "done", !.lease = lease]]
      BY <3>2
    <3>5. op'[a].seen = record
      BY <1>0, <3>4 DEF Commands
    <3> QED BY <1>0, <2>1, <3>3, <3>4, <3>5
  <2>5. held' \in [Agents -> 0..MaxLeases]
    BY <1>3, <2>2 DEF Write, record
  <2>6. age' \in {"fresh", "stale"} /\ lost' \subseteq Files
        /\ UNCHANGED <<report, kills, refused>>
    BY <1>3, <2>2 DEF Write
  <2> QED BY <2>1, <2>3, <2>4, <2>5, <2>6 DEF Commands
<1>4. ASSUME NEW a \in Agents, Refuse(a) PROVE TypeOK'
  <2>0. op' = [op EXCEPT ![a].step = "report", ![a].answer = "refused"]
    BY <1>4 DEF Refuse
  <2>1. op' \in [Agents -> Commands] /\ \A b \in Agents : RecordOK(op'[b].seen)
    <3>1. [op[a] EXCEPT !.step = "report", !.answer = "refused"] \in Commands
      BY <1>0 DEF Commands, Steps, Answers
    <3>2. op' = [op EXCEPT ![a] = [op[a] EXCEPT !.step = "report", !.answer = "refused"]]
      BY <2>0
    <3>3. op'[a].seen = op[a].seen
      BY <1>0, <3>2 DEF Commands
    <3> QED BY <1>0, <3>1, <3>2, <3>3
  <2>2. refused' \in [Agents -> SUBSET Files]
    BY <1>0, <1>4 DEF Refuse, Commands
  <2> QED BY <1>4, <2>1, <2>2 DEF Refuse, Commands
<1>5. ASSUME NEW a \in Agents, Report(a) PROVE TypeOK'
  <2>1. op[a] \in Commands
    BY <1>0
  <2>2. report' \in [Files -> Agents \cup {NoAgent}]
    BY <1>5, <2>1 DEF Report, Commands, Records
  <2>3. op' \in [Agents -> Commands] /\ \A b \in Agents : RecordOK(op'[b].seen)
    <3>1. CASE NextCall(op[a]) = {}
      <4>1. op' = [op EXCEPT ![a] = Idle]
        BY <1>5, <3>1 DEF Report
      <4>2. Idle \in Commands /\ Idle.seen = NoRecord
        BY <1>0 DEF Idle, Commands, Steps, Answers, Files, Actions
      <4> QED BY <1>0, <4>1, <4>2 DEF Commands
    <3>2. CASE NextCall(op[a]) # {}
      <4>1. PICK c \in NextCall(op[a]) : Call(a, op[a].bundle, c[1], c[2], op[a].lease)
        BY <1>5, <3>2 DEF Report
      <4>2. c[1] \in Files /\ c[2] \in Actions
        BY <2>1, NextCalls
      <4>3. op[a].bundle \in Bundles \cup {"none"} /\ op[a].lease \in 0..MaxLeases
        BY <2>1 DEF Commands
      <4> QED BY <4>1, <4>2, <4>3, CallsType
    <3> QED BY <3>1, <3>2
  <2>4. refused' \in [Agents -> SUBSET Files]
    BY <1>5 DEF Report
  <2> QED BY <1>5, <2>2, <2>3, <2>4 DEF Report, Commands
<1>6. ASSUME NEW a \in Agents, Kill(a) PROVE TypeOK'
  <2>1. Idle \in Commands /\ Idle.seen = NoRecord
    BY <1>0 DEF Idle, Commands, Steps, Answers, Files, Actions
  <2>2. op' \in [Agents -> Commands] /\ \A b \in Agents : RecordOK(op'[b].seen)
    BY <1>0, <1>6, <2>1 DEF Kill, Commands
  <2> QED BY <1>6, <2>2 DEF Kill, Commands
<1>7. CASE Expire
  BY <1>7 DEF Expire
<1>8. CASE UNCHANGED vars
  BY <1>8 DEF vars
<1> QED BY <1>1, <1>2, <1>3, <1>4, <1>5, <1>6, <1>7, <1>8 DEF Next

\* Every variable keeps its type: what the two commands write are well-formed records, and
\* commits and heartbeats only go over a lease that was granted.
THEOREM TypeCorrect == Spec => []TypeOK
<1>1. Init => TypeOK
  BY AgentsAssumption, BoundsAssumption
  DEF Init, TypeOK, NoRecord, Records, RecordOK, States, Idle, Bundles, Files, Actions, Steps,
      Answers
<1> QED BY <1>1, TypeStep, PTL DEF Spec

--------------------------------------------------------------------------------
\* Only a write touches the files; the other steps leave what the lane's holders rely on.
LEMMA OnlyWrites ==
  ASSUME [Next]_vars, \A a \in Agents : ~Write(a)
  PROVE  UNCHANGED <<file, leases, held, lost>>
BY DEF Next, Start, Read, Refuse, Report, Kill, Expire, vars

LEMMA HoldersStep ==
  ASSUME TypeOK, HoldersHaveTheLane, [Next]_vars
  PROVE  HoldersHaveTheLane'
<1>1. CASE \A a \in Agents : ~Write(a)
  BY <1>1, OnlyWrites DEF HoldersHaveTheLane
<1>2. ASSUME NEW a \in Agents, Write(a), "lane" \notin lost' PROVE HoldersHaveTheLane'
  <2> DEFINE record == Outcome(a)
  <2>1. CASE op[a].file = "cell"
    BY <1>2, <2>1 DEF Write, TypeOK, HoldersHaveTheLane, Files
  <2>2. CASE op[a].file = "lane"
    <3>1. file["lane"] = Seen(a) /\ "lane" \notin lost
      BY <1>2, <2>2 DEF Write
    <3>2. file'["lane"] = record /\ LaneTakes(a)
      BY <1>2, <2>2 DEF Write, TypeOK, Files, Takes
    <3>3. held' = [held EXCEPT ![a] = IF record.state = "released" THEN 0 ELSE record.lease]
      BY <1>2, <2>2 DEF Write
    <3>4. ASSUME NEW b \in Agents, b # a PROVE held[b] = 0
      \* Who held the lane would own the record; a request finds nobody holding.
      BY <3>1, <3>2, <3>4 DEF HoldersHaveTheLane, LaneTakes, InState, Own
    <3>5. ASSUME held'[a] # 0
          PROVE /\ record.agent = a /\ record.lease = held'[a]
                /\ record.state \in {"granted", "active"}
      <4>1. record.state # "released" /\ held'[a] = record.lease /\ record.lease # 0
        BY <3>3, <3>5 DEF TypeOK
      <4>2. op[a].action \in {"grant", "commit", "heartbeat"}
        BY <3>2, <4>1 DEF LaneTakes, InState, Outcome, Requested
      <4>3. Seen(a).agent = a /\ Seen(a) \in Records
        BY <3>2, <4>2 DEF LaneTakes, Own, TypeOK, Seen
      <4> QED BY <4>1, <4>2, <4>3 DEF Outcome, Records
    <3> QED BY <3>2, <3>3, <3>4, <3>5 DEF HoldersHaveTheLane, TypeOK
  <2> QED BY <2>1, <2>2 DEF TypeOK, Files
<1> QED BY <1>1, <1>2 DEF HoldersHaveTheLane

\* The agent that was granted the lane has it until it gives it back, as long as no write of
\* the lane's file goes over one it has not seen (runDockerLaneHandshake has no lock).
THEOREM LaneExclusion == Spec => []HoldersHaveTheLane
<1>1. Init => HoldersHaveTheLane
  BY DEF Init, HoldersHaveTheLane
<1> QED BY <1>1, TypeCorrect, HoldersStep, PTL DEF Spec

--------------------------------------------------------------------------------
\* A grant calls no inspection, a call that is over has an answer, and a grant that has the
\* cell knows its lease.
KnowsItsCell ==
  \A a \in Agents : op[a].bundle = "grant" =>
    /\ op[a].action \in {"grant", "undo"}
    /\ op[a].step = "report" => op[a].answer # "none"
    /\ op[a].action = "grant" /\ op[a].file = "lane" => op[a].lease \in 1..leases
    /\ op[a].action = "grant" /\ op[a].answer = "done" => op[a].lease \in 1..leases
    /\ op[a].action = "undo" /\ op[a].file = "cell" => op[a].lease \in 1..leases

\* The rollback of a grant: once it has seen another lease than its own, or has written, the
\* cell is released or under another lease.
UndoesCell(a) == op[a].bundle = "grant" /\ op[a].action = "undo" /\ op[a].file = "cell"
CellUndo ==
  "cell" \notin lost =>
    \A a \in Agents : UndoesCell(a) =>
      /\ op[a].step = "decide" /\ op[a].seen.lease # op[a].lease
           => file["cell"].lease # op[a].lease
      /\ op[a].step = "report"
           => file["cell"].state = "released" \/ file["cell"].lease # op[a].lease

\* The rollback of a lane: once it has seen that the lane is not its agent's, or has written,
\* the lane is not.
UndoesLane(a) == op[a].action = "undo" /\ op[a].file = "lane"
HasLane(a, r) == r.agent = a /\ r.state \in {"requested", "granted", "active"}
LaneUndo ==
  "lane" \notin lost =>
    \A a \in Agents : UndoesLane(a) =>
      /\ op[a].step = "decide" /\ ~HasLane(a, op[a].seen) => ~HasLane(a, file["lane"])
      /\ op[a].step = "report" => ~HasLane(a, file["lane"])

\* While a half is refused, the command is about to report it or in the rollback for it.
RefusalsUndone ==
  \A a \in Agents :
    /\ op[a].step \in {"none", "read", "decide"} => op[a].answer = "none"
    /\ \A f \in refused[a] :
         /\ op[a].bundle \in {"grant", "commit"}
         /\ \/ /\ Halves(op[a])
               /\ op[a].file = f /\ op[a].step = "report" /\ op[a].answer = "refused"
            \/ ~Halves(op[a]) /\ <<op[a].file, op[a].action>> \in Rollback(op[a].bundle, f)

Rollbacks == KnowsItsCell /\ CellUndo /\ LaneUndo /\ RefusalsUndone

\* A step that leaves the files alone and starts or ends a call of a, or has it read.
LEMMA RollbacksCall ==
  ASSUME TypeOK, Rollbacks, NEW a \in Agents,
         UNCHANGED <<file, leases, lost>>, NEW o \in Commands, op' = [op EXCEPT ![a] = o],
         o.step \in {"none", "read"},
         o.bundle = "grant" =>
           /\ o.action \in {"grant", "undo"}
           /\ o.action = "grant" /\ o.file = "lane" => o.lease \in 1..leases
           /\ o.action = "undo" /\ o.file = "cell" => o.lease \in 1..leases,
         o.answer = "none",
         refused' = refused \/ refused' = [refused EXCEPT ![a] = {}],
         \A f \in refused'[a] :
           /\ o.bundle \in {"grant", "commit"} /\ ~Halves(o)
           /\ <<o.file, o.action>> \in Rollback(o.bundle, f)
  PROVE  Rollbacks'
<1>1. KnowsItsCell'
  BY DEF Rollbacks, KnowsItsCell, TypeOK
<1>2. CellUndo'
  BY DEF Rollbacks, CellUndo, UndoesCell, TypeOK
<1>3. LaneUndo'
  BY DEF Rollbacks, LaneUndo, UndoesLane, HasLane, TypeOK
<1>4. RefusalsUndone'
  <2>1. ASSUME NEW b \in Agents, b # a PROVE op'[b] = op[b] /\ refused'[b] = refused[b]
    BY <2>1 DEF TypeOK
  <2>2. op'[a] = o
    BY DEF TypeOK
  <2> QED BY <2>1, <2>2 DEF Rollbacks, RefusalsUndone
<1> QED BY <1>1, <1>2, <1>3, <1>4 DEF Rollbacks

\* Each step keeps what the rollbacks rely on: who writes meanwhile saw what is on file, and
\* puts a later lease or none on the cell, its own name or none but its own on the lane.
LEMMA RollbacksStep ==
  ASSUME TypeOK, Rollbacks, [Next]_vars
  PROVE  Rollbacks'
<1> USE BoundsAssumption
<1>0. op \in [Agents -> Commands]
  BY DEF TypeOK, Commands
<1>1. ASSUME NEW a \in Agents, NEW bundle \in Bundles, Start(a, bundle) PROVE Rollbacks'
  <2> DEFINE o == NewCall(bundle, First(bundle), bundle, 0)
  <2>1. o \in Commands /\ o.step = "read" /\ o.answer = "none" /\ o.bundle = bundle
        /\ o.action = bundle /\ o.file = First(bundle)
    <3>1. First(bundle) \in Files /\ bundle \in Actions /\ 0 \in 0..MaxLeases
      BY DEF First, Files, Actions
    <3> QED BY <3>1, NewCallFields
  <2>2. op' = [op EXCEPT ![a] = o] /\ UNCHANGED <<file, leases, lost>>
    BY <1>1 DEF Start, Call
  <2>3. bundle = "grant" => First(bundle) = "cell"
    BY DEF First
  <2>4. bundle # "undo"
    BY DEF Bundles
  <2>5. refused' = refused /\ refused[a] = {}
    <3>1. op[a].bundle = "none" /\ refused' = refused
      BY <1>1 DEF Start, Idle
    <3> QED BY <3>1 DEF Rollbacks, RefusalsUndone
  <2> HIDE DEF o
  <2> QED BY <2>1, <2>2, <2>3, <2>4, <2>5, RollbacksCall
<1>2. ASSUME NEW a \in Agents, Read(a) PROVE Rollbacks'
  <2>1. op' = [op EXCEPT ![a].step = "decide", ![a].seen = file[op[a].file]]
        /\ UNCHANGED <<file, leases, lost>>
    BY <1>2 DEF Read
  <2>2. KnowsItsCell'
    BY <1>0, <2>1 DEF Rollbacks, KnowsItsCell, Commands
  <2>3. CellUndo'
    BY <1>0, <2>1 DEF Rollbacks, CellUndo, UndoesCell, Commands
  <2>4. LaneUndo'
    BY <1>0, <2>1 DEF Rollbacks, LaneUndo, UndoesLane, HasLane, Commands
  <2>5. RefusalsUndone'
    BY <1>0, <1>2, <2>1 DEF Read, Rollbacks, RefusalsUndone, Commands, Halves
  <2> QED BY <2>2, <2>3, <2>4, <2>5 DEF Rollbacks
<1>3. ASSUME NEW a \in Agents, Write(a) PROVE Rollbacks'
  <2> DEFINE record == Outcome(a)
             f == op[a].file
             lease == IF f = "cell" /\ op[a].action = "grant" THEN record.lease ELSE op[a].lease
  <2>1. /\ op' = [op EXCEPT ![a].step = "report", ![a].seen = record, ![a].answer = "done",
                            ![a].lease = lease]
        /\ file' = [file EXCEPT ![f] = record]
        /\ op[a].step = "decide" /\ Takes(a) /\ f \in Files
        /\ f \notin lost' => file[f] = Seen(a)
        /\ lost \subseteq lost'
    BY <1>0, <1>3 DEF Write, Commands
  <2>2. /\ leases \in 0..MaxLeases /\ leases' \in 0..MaxLeases /\ leases <= leases'
        /\ op[a].action = "grant" => record.lease = leases' /\ leases < leases'
        /\ op[a].action # "grant" => record.lease \in {0, Seen(a).lease}
        /\ op[a].action # "request" => record.agent = Seen(a).agent
    BY <1>3, Outcomes DEF TypeOK
  <2>3. op[a].action \in {"release", "undo"} => record.state = "released"
    BY <1>0, <2>1 DEF Outcome, Records, TypeOK, Seen
  <2>4. op[a].action = "request" => record.agent = a /\ record.state = "requested"
    BY DEF Outcome, Requested
  <2>5. record.state = "released" \/ op[a].action \notin {"release", "undo"}
    BY <2>3
  <2> HIDE DEF record
  <2>6. KnowsItsCell'
    BY <1>0, <2>1, <2>2 DEF Rollbacks, KnowsItsCell, Commands
  <2>7. CellUndo'
    <3> SUFFICES ASSUME "cell" \notin lost', NEW b \in Agents, UndoesCell(b)'
                 PROVE  /\ op'[b].step = "decide" /\ op'[b].seen.lease # op'[b].lease
                             => file'["cell"].lease # op'[b].lease
                        /\ op'[b].step = "report" => \/ file'["cell"].state = "released"
                                                    \/ file'["cell"].lease # op'[b].lease
      BY DEF CellUndo
    <3>1. "cell" \notin lost
      BY <2>1
    <3>2. CASE b = a
      <4>1. op[a].action = "undo" /\ f = "cell" /\ op'[a].step = "report"
        BY <1>0, <2>1, <3>2 DEF UndoesCell, Commands
      <4>2. file'["cell"] = record
        BY <2>1, <4>1 DEF TypeOK
      <4> QED BY <2>3, <3>2, <4>1, <4>2
    <3>3. CASE b # a
      <4>1. op'[b] = op[b] /\ UndoesCell(b)
        BY <1>0, <2>1, <3>3 DEF UndoesCell
      <4>2. op[b].lease \in 1..leases
        BY <4>1 DEF Rollbacks, KnowsItsCell, UndoesCell
      <4>3. CASE f = "lane"
        <5>1. file'["cell"] = file["cell"]
          BY <2>1, <4>3 DEF TypeOK
        <5> QED BY <3>1, <4>1, <5>1 DEF Rollbacks, CellUndo
      <4>4. CASE f = "cell"
        <5>1. file["cell"] = Seen(a) /\ file'["cell"] = record
          BY <2>1, <4>4 DEF TypeOK
        <5>2. file["cell"].lease # op[b].lease => record.lease # op[b].lease
          BY <2>2, <4>2, <5>1
        <5>3. file["cell"].state = "released" =>
                record.state = "released" \/ record.lease # op[b].lease
          <6>1. CASE op[a].action = "request"
            BY <4>2, <6>1 DEF record, Outcome, Requested
          <6>2. CASE op[a].action = "grant"
            BY <2>2, <4>2, <6>2
          <6>3. CASE op[a].action \in {"commit", "heartbeat"}
            BY <2>1, <4>4, <5>1, <6>3 DEF Takes, CellTakes
          <6>4. CASE op[a].action \in {"release", "undo"}
            BY <2>3, <6>4
          <6> QED BY <2>1, <4>4, <6>1, <6>2, <6>3, <6>4 DEF Takes, CellTakes
        <5> QED BY <3>1, <4>1, <5>1, <5>2, <5>3 DEF Rollbacks, CellUndo
      <4> QED BY <2>1, <4>3, <4>4 DEF Files
    <3> QED BY <3>2, <3>3
  <2>8. LaneUndo'
    <3> SUFFICES ASSUME "lane" \notin lost', NEW b \in Agents, UndoesLane(b)'
                 PROVE  /\ op'[b].step = "decide" /\ ~HasLane(b, op'[b].seen)
                             => ~HasLane(b, file'["lane"])
                        /\ op'[b].step = "report" => ~HasLane(b, file'["lane"])
      BY DEF LaneUndo, HasLane
    <3>1. "lane" \notin lost
      BY <2>1
    <3>2. CASE b = a
      <4>1. op[a].action = "undo" /\ op'[a].file = f /\ op'[a].step = "report"
        BY <1>0, <2>1, <3>2 DEF UndoesLane, Commands
      <4>2. f = "lane"
        BY <3>2, <4>1 DEF UndoesLane
      <4>3. file'["lane"] = record
        BY <2>1, <4>2 DEF TypeOK
      <4> QED BY <2>3, <3>2, <4>1, <4>2, <4>3 DEF HasLane
    <3>3. CASE b # a
      <4>1. op'[b] = op[b] /\ UndoesLane(b)
        BY <1>0, <2>1, <3>3 DEF UndoesLane
      <4>2. CASE f = "cell"
        <5>1. file'["lane"] = file["lane"]
          BY <2>1, <4>2 DEF TypeOK, Files
        <5> QED BY <3>1, <4>1, <5>1 DEF Rollbacks, LaneUndo
      <4>3. CASE f = "lane"
        <5>1. file["lane"] = Seen(a) /\ file'["lane"] = record
          BY <2>1, <4>3 DEF TypeOK
        <5>2. record.agent = a
          BY <2>1, <2>2, <2>4, <4>3 DEF Takes, LaneTakes, Own
        <5> QED BY <3>1, <3>3, <4>1, <5>1, <5>2 DEF Rollbacks, LaneUndo, HasLane
      <4> QED BY <2>1, <4>2, <4>3 DEF Files
    <3> QED BY <3>2, <3>3
  <2>9. RefusalsUndone'
    <3>1. refused' = refused /\ op[a].answer = "none"
      BY <1>3, <2>1 DEF Write, Rollbacks, RefusalsUndone
    <3>2. op'[a].file = op[a].file /\ op'[a].action = op[a].action /\ op'[a].bundle = op[a].bundle
          /\ op'[a].step = "report"
      BY <1>0, <2>1 DEF Commands
    <3>3. ASSUME NEW b \in Agents, b # a PROVE op'[b] = op[b]
      BY <1>0, <2>1, <3>3
    <3>4. ASSUME NEW g \in refused[a]
          PROVE  /\ op[a].bundle \in {"grant", "commit"} /\ ~Halves(op[a])
                 /\ <<op[a].file, op[a].action>> \in Rollback(op[a].bundle, g)
      BY <2>1, <3>4 DEF Rollbacks, RefusalsUndone
    <3>5. ~Halves(op[a]) => ~Halves(op'[a])
      BY <3>2 DEF Halves
    <3> QED BY <3>1, <3>2, <3>3, <3>4, <3>5 DEF Rollbacks, RefusalsUndone
  <2> QED BY <2>6, <2>7, <2>8, <2>9 DEF Rollbacks
<1>4. ASSUME NEW a \in Agents, Refuse(a) PROVE Rollbacks'
  <2>1. op' = [op EXCEPT ![a].step = "report", ![a].answer = "refused"]
        /\ UNCHANGED <<file, leases, lost>>
        /\ op[a].step = "decide" /\ (op[a].action \in {"grant", "commit"} \/ ~Takes(a))
    BY <1>4 DEF Refuse
  <2>2. KnowsItsCell'
    BY <1>0, <2>1 DEF Rollbacks, KnowsItsCell, Commands
  <2>3. CellUndo'
    <3>1. UndoesCell(a) => op[a].seen.lease # op[a].lease
      <4>1. ASSUME UndoesCell(a) PROVE op[a].seen.state = "none" \/ op[a].seen.lease # op[a].lease
        BY <2>1, <4>1 DEF UndoesCell, Takes, CellTakes, Seen
      <4>2. op[a].seen.state = "none" => op[a].seen.lease = 0
        BY DEF TypeOK, RecordOK
      <4>3. UndoesCell(a) => op[a].lease # 0
        BY DEF Rollbacks, KnowsItsCell, UndoesCell, TypeOK
      <4> QED BY <4>1, <4>2, <4>3
    <3> QED BY <1>0, <2>1, <3>1 DEF Rollbacks, CellUndo, UndoesCell, Commands
  <2>4. LaneUndo'
    <3>1. UndoesLane(a) /\ op[a].file = "lane" => ~HasLane(a, op[a].seen)
      BY <2>1 DEF UndoesLane, Takes, LaneTakes, InState, Own, Seen, HasLane
    <3> QED BY <1>0, <2>1, <3>1 DEF Rollbacks, LaneUndo, UndoesLane, HasLane, Commands
  <2>5. RefusalsUndone'
    <3>1. op[a].answer = "none"
      BY <2>1 DEF Rollbacks, RefusalsUndone
    <3>2. op'[a].file = op[a].file /\ op'[a].action = op[a].action /\ op'[a].bundle = op[a].bundle
          /\ op'[a].step = "report" /\ op'[a].answer = "refused"
      BY <1>0, <2>1 DEF Commands
    <3>3. ASSUME NEW b \in Agents, b # a PROVE op'[b] = op[b] /\ refused'[b] = refused[b]
      BY <1>0, <1>4, <2>1, <3>3 DEF Refuse, TypeOK
    <3>4. refused'[a] = IF Halves(op[a]) THEN refused[a] \cup {op[a].file} ELSE refused[a]
      BY <1>4 DEF Refuse, TypeOK
    <3>5. \A f \in refused[a] : <<op[a].file, op[a].action>> \in Rollback(op[a].bundle, f)
                               /\ ~Halves(op[a]) /\ op[a].bundle \in {"grant", "commit"}
      BY <3>1 DEF Rollbacks, RefusalsUndone
    <3> QED BY <3>2, <3>3, <3>4, <3>5 DEF Rollbacks, RefusalsUndone, Halves
  <2> QED BY <2>2, <2>3, <2>4, <2>5 DEF Rollbacks
<1>5. ASSUME NEW a \in Agents, Report(a) PROVE Rollbacks'
  <2> DEFINE o == op[a]
  <2>1. o \in Commands /\ UNCHANGED <<file, leases, lost>> /\ o.step = "report"
    BY <1>0, <1>5 DEF Report
  <2>2. CASE NextCall(o) = {}
    <3>1. Idle \in Commands /\ Idle.step = "none" /\ Idle.bundle = "none"
      BY AgentsAssumption
      DEF Idle, Commands, Steps, Answers, Files, Actions, NoRecord, Records, States
    <3>2. op' = [op EXCEPT ![a] = Idle] /\ refused' = [refused EXCEPT ![a] = {}]
      BY <1>5, <2>2 DEF Report
    <3>3. Idle.answer = "none" /\ refused'[a] = {}
      BY <3>2 DEF Idle, TypeOK
    <3> QED BY <2>1, <3>1, <3>2, <3>3, RollbacksCall
  <2>3. ASSUME NEW c \in NextCall(o), Call(a, o.bundle, c[1], c[2], o.lease)
        PROVE  Rollbacks'
    <3>0. refused' = refused /\ (o.action # o.bundle => FALSE)
      BY <1>5, <2>3 DEF Report, NextCall
    <3> DEFINE n == NewCall(o.bundle, c[1], c[2], o.lease)
    <3>1. n \in Commands /\ n.step = "read" /\ n.answer = "none" /\ n.bundle = o.bundle
          /\ n.file = c[1] /\ n.action = c[2] /\ n.lease = o.lease
      <4>1. c[1] \in Files /\ c[2] \in Actions
        BY <2>1, NextCalls
      <4>2. o.bundle \in Bundles \cup {"none"} /\ o.lease \in 0..MaxLeases
        BY <2>1 DEF Commands
      <4> QED BY <4>1, <4>2, NewCallFields
    <3>2. op' = [op EXCEPT ![a] = n]
      BY <2>3 DEF Call
    <3>3. o.bundle = "grant" =>
            /\ c[2] \in {"grant", "undo"}
            /\ c[2] = "grant" /\ c[1] = "lane" => o.action = "grant" /\ o.answer # "refused"
            /\ c[2] = "undo" /\ c[1] = "cell" => o.action = "grant" /\ o.file = "lane"
      BY <2>1, <2>3 DEF NextCall, Rollback, Halves, First, Second, Commands, Files
    <3>4. \A f \in refused[a] :
            /\ n.bundle \in {"grant", "commit"} /\ ~Halves(n)
            /\ <<n.file, n.action>> \in Rollback(n.bundle, f)
      <4> SUFFICES ASSUME NEW f \in refused[a]
                   PROVE  /\ n.bundle \in {"grant", "commit"} /\ ~Halves(n)
                          /\ <<n.file, n.action>> \in Rollback(n.bundle, f)
        OBVIOUS
      <4>1. Halves(o) /\ o.file = f /\ o.answer = "refused"
        BY <3>0 DEF Rollbacks, RefusalsUndone, Halves
      <4>2. c \in Rollback(o.bundle, f)
        BY <2>3, <3>0, <4>1 DEF NextCall
      <4>3. c = <<c[1], c[2]>> /\ c[2] \in {"undo", "inspect"}
        BY <4>2 DEF Rollback
      <4> QED BY <3>1, <4>1, <4>2, <4>3 DEF Halves
    <3>5. o.bundle = "grant" /\ o.answer # "refused" => o.answer = "done"
      BY <2>1 DEF Rollbacks, KnowsItsCell, Commands, Answers
    <3>6. o.bundle = "grant" =>
            /\ n.action = "grant" /\ n.file = "lane" => n.lease \in 1..leases
            /\ n.action = "undo" /\ n.file = "cell" => n.lease \in 1..leases
      BY <3>1, <3>3, <3>5 DEF Rollbacks, KnowsItsCell
    <3> HIDE DEF n
    <3> QED BY <2>1, <3>0, <3>1, <3>2, <3>3, <3>4, <3>6, RollbacksCall
  <2> QED BY <1>5, <2>2, <2>3 DEF Report
<1>6. ASSUME NEW a \in Agents, Kill(a) PROVE Rollbacks'
  <2>1. Idle \in Commands /\ Idle.step = "none" /\ Idle.bundle = "none"
    BY AgentsAssumption DEF Idle, Commands, Steps, Answers, Files, Actions, NoRecord, Records,
        States
  <2>2. op' = [op EXCEPT ![a] = Idle] /\ UNCHANGED <<file, leases, lost>>
        /\ refused' = [refused EXCEPT ![a] = {}]
    BY <1>6 DEF Kill
  <2>3. Idle.answer = "none" /\ refused'[a] = {}
    BY <2>2 DEF Idle, TypeOK
  <2> QED BY <2>1, <2>2, <2>3, RollbacksCall
<1>7. CASE Expire \/ UNCHANGED vars
  <2>1. UNCHANGED <<file, leases, lost, op, refused>>
    BY <1>7 DEF Expire, vars
  <2> QED BY <2>1 DEF Rollbacks, KnowsItsCell, CellUndo, LaneUndo, RefusalsUndone, UndoesCell,
          UndoesLane, HasLane
<1> QED BY <1>1, <1>2, <1>3, <1>4, <1>5, <1>6, <1>7 DEF Next

LEMMA RollbacksInit == Init => Rollbacks
BY DEF Init, Idle, Rollbacks, KnowsItsCell, CellUndo, LaneUndo, RefusalsUndone, UndoesCell,
       UndoesLane

\* When a command ends that was not killed, its last call was reported; when a half of it was
\* refused, that call was the rollback.
LEMMA EndsUndone ==
  ASSUME TypeOK, Rollbacks, [Next]_vars, NEW a \in Agents,
         op[a] # Idle, op'[a] = Idle, kills' = kills
  PROVE  /\ UNCHANGED <<file, lost>> /\ op[a].step = "report"
         /\ op[a].bundle = "grant" /\ "lane" \in refused[a] => UndoesCell(a)
         /\ "cell" \in refused[a] => UndoesLane(a)
<1>0. op \in [Agents -> Commands] /\ kills \in 0..MaxKills /\ Idle.step = "none"
  BY DEF TypeOK, Commands, Idle
<1>1. Report(a)
  <2>1. ASSUME NEW b \in Agents, NEW bundle \in Bundles, Start(b, bundle) PROVE FALSE
    BY <1>0, <2>1 DEF Start, Call, NewCall, Idle
  <2>2. ASSUME NEW b \in Agents, Read(b) PROVE FALSE
    <3>1. op'[b].step = "decide" /\ (b # a => op'[a] = op[a])
      BY <1>0, <2>2 DEF Read, Commands
    <3> QED BY <1>0, <3>1
  <2>3. ASSUME NEW b \in Agents, Write(b) PROVE FALSE
    <3>1. op'[b].step = "report" /\ (b # a => op'[a] = op[a])
      BY <1>0, <2>3 DEF Write, Commands
    <3> QED BY <1>0, <3>1
  <2>4. ASSUME NEW b \in Agents, Refuse(b) PROVE FALSE
    <3>1. op'[b].step = "report" /\ (b # a => op'[a] = op[a])
      BY <1>0, <2>4 DEF Refuse, Commands
    <3> QED BY <1>0, <3>1
  <2>5. ASSUME NEW b \in Agents, Kill(b) PROVE FALSE
    BY <1>0, <2>5 DEF Kill
  <2>6. ASSUME NEW b \in Agents, Report(b), b # a PROVE FALSE
    BY <1>0, <2>6 DEF Report, Call
  <2>7. ~Expire /\ ~UNCHANGED vars
    BY DEF Expire, vars
  <2> QED BY <2>1, <2>2, <2>3, <2>4, <2>5, <2>6, <2>7 DEF Next
<1>2. NextCall(op[a]) = {}
  <2>1. ASSUME NEW c \in NextCall(op[a]), Call(a, op[a].bundle, c[1], c[2], op[a].lease)
        PROVE  FALSE
    BY <1>0, <2>1 DEF Call, NewCall, Idle
  <2> QED BY <1>1, <2>1 DEF Report
<1>3. \A f \in Files : Rollback(op[a].bundle, f) # {}
  BY DEF Rollback
<1>4. ASSUME NEW f \in refused[a]
      PROVE  /\ op[a].bundle \in {"grant", "commit"}
             /\ <<op[a].file, op[a].action>> \in Rollback(op[a].bundle, f)
  <2>1. f \in Files
    BY DEF TypeOK
  <2> QED BY <1>2, <1>3, <2>1 DEF Rollbacks, RefusalsUndone, NextCall, Halves
<1>5. op[a].bundle = "grant" /\ "lane" \in refused[a] => UndoesCell(a)
  BY <1>4 DEF Rollback, First, UndoesCell
<1>6. "cell" \in refused[a] => UndoesLane(a)
  BY <1>4 DEF Rollback, First, UndoesLane
<1> QED BY <1>1, <1>5, <1>6 DEF Report

\* A grant or a commit that is refused a half leaves neither its cell granted nor the lane its
\* agent's, whatever the other agents do between the calls of runExecutionCellBundle.
THEOREM RefusedHalvesAreUndone == Spec => FailedHalvesAreUndone
<1> DEFINE Undone ==
      \A a \in Agents :
        (op[a] # Idle /\ op'[a] = Idle /\ kills' = kills) =>
          /\ (op[a].bundle = "grant" /\ "lane" \in refused[a] /\ "cell" \notin lost) =>
               file["cell"].state = "released" \/ file["cell"].lease # op[a].lease
          /\ ("cell" \in refused[a] /\ "lane" \notin lost) =>
               ~(file["lane"].agent = a
                 /\ file["lane"].state \in {"requested", "granted", "active"})
<1>1. TypeOK /\ Rollbacks /\ [Next]_vars => [Undone]_vars
  <2> SUFFICES ASSUME TypeOK, Rollbacks, [Next]_vars, NEW a \in Agents,
                      op[a] # Idle, op'[a] = Idle, kills' = kills
               PROVE  /\ (op[a].bundle = "grant" /\ "lane" \in refused[a] /\ "cell" \notin lost) =>
                           file["cell"].state = "released" \/ file["cell"].lease # op[a].lease
                      /\ ("cell" \in refused[a] /\ "lane" \notin lost) =>
                           ~(file["lane"].agent = a
                             /\ file["lane"].state \in {"requested", "granted", "active"})
    OBVIOUS
  <2>1. /\ op[a].step = "report"
        /\ op[a].bundle = "grant" /\ "lane" \in refused[a] => UndoesCell(a)
        /\ "cell" \in refused[a] => UndoesLane(a)
    BY EndsUndone
  <2> QED BY <2>1 DEF Rollbacks, CellUndo, LaneUndo, HasLane
<1>2. Spec => []Rollbacks
  BY RollbacksInit, RollbacksStep, TypeCorrect, PTL DEF Spec
<1> QED BY <1>1, <1>2, TypeCorrect, PTL DEF Spec, FailedHalvesAreUndone

================================================================================
