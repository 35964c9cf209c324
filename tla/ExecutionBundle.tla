---------------------------- MODULE ExecutionBundle ----------------------------
(******************************************************************************)
(* An execution cell and a Docker lane that agents share, and the bundle      *)
(* command of tools/priority that takes both.  execution-cell-lease.mjs and   *)
(* docker-lane-handshake.mjs keep one record each, in a file under the git    *)
(* common directory, which they read, judge and replace.                      *)
(* execution-cell-bundle.mjs calls one after the other and takes back the     *)
(* first when the second fails.  Each leaves its last report in a file of     *)
(* the checkout, from which the commit of the other takes whom it is linked   *)
(* to; the agents of this model work in one checkout.                         *)
(*                                                                            *)
(* The bundle of this model always asks for a lane.  Rates, capabilities,     *)
(* the operator budget, the host fingerprint and the ids that linked records  *)
(* keep of each other are left out: a grant or a commit may be refused for    *)
(* them.  So are the two commands called by themselves with the id of a lease *)
(* and bundles without a lane.                                                *)
(******************************************************************************)
EXTENDS Naturals

CONSTANTS
  Agents,
  NoAgent,
  MaxLeases, \* bound: grants
  MaxKills   \* bound: commands that are killed

ASSUME AgentsAssumption == NoAgent \notin Agents
ASSUME BoundsAssumption == MaxLeases \in Nat /\ MaxKills \in Nat

VARIABLES
  file,   \* the record of the cell and the record of the lane
  report, \* the agent for whom the last report of each names a lease
  age,    \* whether the cell's time to live is over
  op,     \* per agent: the command that is running
  leases, \* the lease ids in use
  kills,  \* the bound's counter
  held,   \* auxiliary: per agent, the lane lease it was granted and has not given back
  refused,\* auxiliary: per agent, the halves its running grant or commit was refused
  lost    \* auxiliary: the files where a write went over a change it had not seen

vars == <<file, report, age, op, leases, kills, held, refused, lost>>

Files == {"cell", "lane"}
States == {"none", "requested", "granted", "active", "released"}
Bundles == {"request", "grant", "commit", "heartbeat", "release", "inspect"}
NoRecord == [state |-> "none", agent |-> NoAgent, lease |-> 0]
Records == [state : States, agent : Agents \cup {NoAgent}, lease : 0..MaxLeases]

\* A running command: the bundle's action, the call it is at (file, action and step; "undo"
\* is a rollback), what that call has read or written, whether it succeeded, and the lease
\* of the cell that this bundle was granted.
Idle == [bundle |-> "none", file |-> "cell", action |-> "none", step |-> "none",
         seen |-> NoRecord, answer |-> "none", lease |-> 0]
Answers == {"none", "done", "refused"}
Steps == {"none", "read", "decide", "report"}
Actions == Bundles \cup {"none", "undo"}

Init ==
  /\ file = [f \in Files |-> NoRecord]
  /\ report = [f \in Files |-> NoAgent]
  /\ age = "fresh"
  /\ op = [a \in Agents |-> Idle]
  /\ leases = 0
  /\ kills = 0
  /\ held = [a \in Agents |-> 0]
  /\ refused = [a \in Agents |-> {}]
  /\ lost = {}

--------------------------------------------------------------------------------
NewCall(bundle, f, action, lease) ==
  [Idle EXCEPT !.bundle = bundle, !.file = f, !.action = action, !.step = "read",
               !.lease = lease]
Call(a, bundle, f, action, lease) ==
  op' = [op EXCEPT ![a] = NewCall(bundle, f, action, lease)]

\* A request, a grant and an inspection begin with the cell, everything else with the lane.
First(bundle) == IF bundle \in {"request", "grant", "inspect"} THEN "cell" ELSE "lane"
Second(bundle) == IF First(bundle) = "cell" THEN "lane" ELSE "cell"

Start(a, bundle) ==
  /\ op[a] = Idle
  /\ Call(a, bundle, First(bundle), bundle, 0)
  /\ UNCHANGED <<file, report, age, leases, kills, held, refused, lost>>

Read(a) ==
  /\ op[a].step = "read"
  /\ op' = [op EXCEPT ![a].step = "decide", ![a].seen = file[op[a].file]]
  /\ UNCHANGED <<file, report, age, leases, kills, held, refused, lost>>

Seen(a) == op[a].seen
Own(a) == Seen(a).agent = a

\* validateDockerLaneLink, validateExecutionCellLink: the last report on the other file names
\* a lease, and the holder of this one.
LinksTo(a, f) == report[f] # NoAgent /\ report[f] = Seen(a).agent

\* runExecutionCellLease: a request replaces any record; a grant takes any but an active one
\* that is not stale; only the rollback of a grant gives the id of a lease; and nobody asks
\* whose record it is.
CellTakes(a) ==
  \/ op[a].action = "request"
  \/ /\ op[a].action = "grant"
     /\ Seen(a).state # "none"
     /\ Seen(a).state = "active" => age = "stale"
  \/ op[a].action = "commit" /\ Seen(a).state \in {"granted", "active"} /\ LinksTo(a, "lane")
  \/ op[a].action = "heartbeat" /\ Seen(a).state \in {"granted", "active"}
  \/ op[a].action = "release" /\ Seen(a).state # "none"
  \/ op[a].action = "undo" /\ Seen(a).state # "none" /\ Seen(a).lease = op[a].lease

\* runDockerLaneHandshake: a request finds the lane free, each step has the state it comes
\* from, and all but the request is for the requester.
InState(a) ==
  \/ op[a].action = "request" /\ Seen(a).state \in {"none", "released"}
  \/ op[a].action = "grant" /\ Seen(a).state = "requested"
  \/ op[a].action = "commit" /\ Seen(a).state = "granted" /\ LinksTo(a, "cell")
  \/ op[a].action = "heartbeat" /\ Seen(a).state = "active"
  \/ /\ op[a].action \in {"release", "undo"}
     /\ Seen(a).state \in {"requested", "granted", "active"}

LaneTakes(a) == InState(a) /\ (op[a].action = "request" \/ Own(a))

Takes(a) == IF op[a].file = "cell" THEN CellTakes(a) ELSE LaneTakes(a)

\* A slip: the old lease stays.
RequestedOver(a) == [Seen(a) EXCEPT !.state = "requested", !.agent = a]

\* What an accepted call writes: a request a new record, a grant a new lease.
Requested(a) == [state |-> "requested", agent |-> a, lease |-> 0]

Outcome(a) ==
  CASE op[a].action = "request" -> Requested(a)
    [] op[a].action = "grant" -> [Seen(a) EXCEPT !.state = "granted", !.lease = leases + 1]
    [] op[a].action \in {"commit", "heartbeat"} -> [Seen(a) EXCEPT !.state = "active"]
    [] op[a].action \in {"release", "undo"} -> [Seen(a) EXCEPT !.state = "released"]

\* writeJsonAtomic over whatever is there by now.
Write(a) ==
  LET f == op[a].file
      record == Outcome(a) IN
  /\ op[a].step = "decide"
  /\ Takes(a)
  /\ op[a].action = "grant" => leases < MaxLeases
  /\ file' = [file EXCEPT ![f] = record]
  /\ leases' = IF op[a].action = "grant" THEN leases + 1 ELSE leases
  /\ age' = IF f = "cell" THEN "fresh" ELSE age
  /\ op' = [op EXCEPT ![a].step = "report", ![a].seen = record, ![a].answer = "done",
                      ![a].lease = IF f = "cell" /\ op[a].action = "grant"
                                     THEN record.lease ELSE op[a].lease]
  /\ held' = IF f = "cell" THEN held
             ELSE [held EXCEPT ![a] = IF record.state = "released" THEN 0 ELSE record.lease]
  /\ lost' = IF file[f] = Seen(a) THEN lost ELSE lost \cup {f}
  /\ UNCHANGED <<report, kills, refused>>

\* The call is one half of a grant or of a commit, not its rollback.
Halves(o) == o.bundle \in {"grant", "commit"} /\ o.action = o.bundle

\* What is not taken is refused; rates and budgets may refuse a grant, the fingerprints a
\* commit.  An inspection only reads.
Refuse(a) ==
  /\ op[a].step = "decide"
  /\ op[a].action \in {"grant", "commit"} \/ ~Takes(a)
  /\ op' = [op EXCEPT ![a].step = "report", ![a].answer = "refused"]
  /\ refused' = IF Halves(op[a]) THEN [refused EXCEPT ![a] = @ \cup {op[a].file}] ELSE refused
  /\ UNCHANGED <<file, report, age, leases, kills, held, lost>>

\* A slip: nothing is taken back.
NoRollback(bundle, f) == {}

\* runExecutionCellBundle, when half f of a grant or of a commit is refused: a second grant
\* that fails takes back the cell, a first one the lane; a commit of the cell that fails takes
\* back the lane, one of the lane inspects the cell.
Rollback(bundle, f) ==
  IF bundle = "grant" /\ f = "cell" THEN {<<"lane", "undo">>}
  ELSE IF f = First(bundle) THEN {<<"cell", "inspect">>}
  ELSE {<<First(bundle), "undo">>}

NextCall(o) ==
  IF o.action # o.bundle THEN {}
  ELSE IF Halves(o) /\ o.answer = "refused" THEN Rollback(o.bundle, o.file)
  ELSE IF o.file = First(o.bundle) THEN {<<Second(o.bundle), o.bundle>>}
  ELSE {}

\* The call leaves its report, but for the rollback of a lane, and the bundle goes on.
Report(a) ==
  LET o == op[a] IN
  /\ o.step = "report"
  /\ report' = IF o.file = "lane" /\ o.action = "undo" THEN report
               ELSE [report EXCEPT ![o.file] = IF o.seen.lease # 0 THEN o.seen.agent ELSE NoAgent]
  /\ IF NextCall(o) = {}
       THEN /\ op' = [op EXCEPT ![a] = Idle]
            /\ refused' = [refused EXCEPT ![a] = {}]
       ELSE /\ \E c \in NextCall(o) : Call(a, o.bundle, c[1], c[2], o.lease)
            /\ UNCHANGED refused
  /\ UNCHANGED <<file, age, leases, kills, held, lost>>

\* The process dies between two steps; its agent comes back with another command.
Kill(a) ==
  /\ op[a] # Idle
  /\ kills < MaxKills
  /\ kills' = kills + 1
  /\ op' = [op EXCEPT ![a] = Idle]
  /\ refused' = [refused EXCEPT ![a] = {}]
  /\ UNCHANGED <<file, report, age, leases, held, lost>>

\* No heartbeat has come for the cell's time to live.
Expire ==
  /\ file["cell"].state = "active"
  /\ age = "fresh"
  /\ age' = "stale"
  /\ UNCHANGED <<file, report, op, leases, kills, held, refused, lost>>

Next ==
  \/ \E a \in Agents :
       \/ \E bundle \in Bundles : Start(a, bundle)
       \/ Read(a) \/ Write(a) \/ Refuse(a) \/ Report(a) \/ Kill(a)
  \/ Expire

Spec == Init /\ [][Next]_vars

--------------------------------------------------------------------------------
\* Records are what the two commands write: a lease comes with a grant, goes with a new
\* request, and never stands without an agent.
RecordOK(r) ==
  /\ r \in Records
  /\ r.agent = NoAgent <=> r.state = "none"
  /\ r.state \in {"none", "requested"} => r.lease = 0
  /\ r.state \in {"granted", "active"} => r.lease # 0

\* The type invariant; it also says that commits and heartbeats only go over a lease that
\* was granted (the guards of runExecutionCellLease and runDockerLaneHandshake).
TypeOK ==
  /\ file \in [Files -> Records]
  /\ \A f \in Files : RecordOK(file[f])
  /\ report \in [Files -> Agents \cup {NoAgent}]
  /\ age \in {"fresh", "stale"}
  /\ op \in [Agents -> [bundle : Bundles \cup {"none"}, file : Files, action : Actions,
                       step : Steps, seen : Records, answer : Answers, lease : 0..MaxLeases]]
  /\ \A a \in Agents : RecordOK(op[a].seen)
  /\ leases \in 0..MaxLeases
  /\ kills \in 0..MaxKills
  /\ held \in [Agents -> 0..MaxLeases]
  /\ refused \in [Agents -> SUBSET Files]
  /\ lost \subseteq Files

\* The agent that was granted the lane has it until it gives it back: two agents never hold
\* one lane, whatever bundles the others run and die in.  It ends where one write of the
\* lane's file goes over another, for runDockerLaneHandshake reads, judges and renames
\* without a lock.
HoldersHaveTheLane ==
  "lane" \notin lost =>
    \A a \in Agents : held[a] # 0 =>
      /\ file["lane"].agent = a
      /\ file["lane"].lease = held[a]
      /\ file["lane"].state \in {"granted", "active"}

\* A grant or a commit of which a half was refused keeps no other half: when the command
\* ends, the cell that a failed grant took is released or no longer under its lease, and a
\* lane is not the agent's when the cell was refused it (the rollbacks of
\* runExecutionCellBundle), whatever other agents did meanwhile.  It says nothing of a request
\* bundle, which keeps its cell requested when the lane is refused, nor of a killed command,
\* which cannot roll back, and ends for a file where one write goes over another.
FailedHalvesAreUndone ==
  [][\A a \in Agents :
      (op[a] # Idle /\ op'[a] = Idle /\ kills' = kills) =>
        /\ (op[a].bundle = "grant" /\ "lane" \in refused[a] /\ "cell" \notin lost) =>
             file["cell"].state = "released" \/ file["cell"].lease # op[a].lease
        /\ ("cell" \in refused[a] /\ "lane" \notin lost) =>
             ~(file["lane"].agent = a
               /\ file["lane"].state \in {"requested", "granted", "active"})]_vars

================================================================================
