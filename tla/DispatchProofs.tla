---------------------------- MODULE DispatchProofs ----------------------------
(***************************************************************************)
(* Proofs about Dispatch, for any number of tasks, sessions, dispatch      *)
(* passes, faults and crashes: that nothing is leaked, that a run outlasts *)
(* its agent, and that a task waits for what it depends on.                *)
(*                                                                         *)
(* The stored workflow changes by commands only, and WhoCommands says      *)
(* which command is given when.  The rest is about who holds what: a claim *)
(* its pass or its call, a live agent its call or its orchestrator.        *)
(***************************************************************************)
EXTENDS Dispatch, TransitionsProofs, WellFoundedInduction

AgentStates == {"unused", "live", "dead", "missing"}
Gone == {"dead", "missing"}
WatchStates == {"off", "attached", "ending", "cleanup", "timed-out"}
ActionKinds == {"stop-runtime", "recover-task", "interrupt-task", "probe-gate"}

ProbeResults == UNION {[S -> AgentStates] : S \in SUBSET Sessions}

RecoveryActions ==
  [kind: ActionKinds, taskId: Tasks, runs: Nat, gate: ExecutionStatuses,
   sessionId: Sessions \cup {Unset}]

ScanState ==
  {IdleScan}
  \cup [at: {"probed"}, probes: ProbeResults, cancelled: BOOLEAN]
  \cup [at: {"acting"}, probes: ProbeResults, todo: SUBSET RecoveryActions]

(* The type invariant: the workflow, the agents and their orchestrators,    *)
(* the scheduler, the calls, the scan and the counters.                    *)
HostOK ==
  /\ agent \in [Sessions -> AgentStates]
  /\ watch \in [Sessions -> WatchStates]
  /\ engine \in {"booting", "up", "unattached"}

SchedulerOK ==
  /\ pass \in [Passes -> SUBSET Tasks]
  /\ inFlight \in SUBSET Tasks

CountersOK == kicks \in Nat /\ faults \in Nat /\ crashes \in Nat /\ calls \in Nat

TypeOK ==
  /\ WorkflowInv(wf)
  /\ HostOK
  /\ SchedulerOK
  /\ attempt \in [Attempts -> AttemptState \cup {Unset}]
  /\ scan \in ScanState
  /\ CountersOK

(* Whoever has a task in flight: its call, or one pass whose next it is.   *)
Heads == {i \in Passes : pass[i] # {}}

OneClaimEach ==
  /\ \A i \in Heads : attempt[FirstOf(pass[i]), "scheduler"] = Unset
  /\ \A i, j \in Heads : FirstOf(pass[i]) = FirstOf(pass[j]) => i = j

LeakInv == TypeOK /\ ClaimIsHeld /\ OneClaimEach /\ LiveAgentIsWatched

(* What is believed to be gone is gone, however old the belief, or could   *)
(* not be stopped.                                                         *)
GoneIsGone ==
  /\ \A s \in Sessions : watch[s] = "timed-out" => agent[s] \in Gone \/ s \in abandoned
  /\ scan.at # "idle" =>
       \A s \in DOMAIN scan.probes : scan.probes[s] \in Gone => agent[s] \in Gone
  /\ scan.at = "acting" =>
       \A x \in scan.todo : x.sessionId # Unset /\ x.kind # "stop-runtime"
                              => agent[x.sessionId] \in Gone

FenceInv == TypeOK /\ GoneIsGone

(* The statuses that a task has only after a run has come to its end.      *)
AfterWork ==
  {"completed", "finalizing", "quality-pending", "ci-pending", "pr-open", "merged"}

Status(t) == wf.graph[t].executionStatus

Worked(task) == \E i \in DOMAIN task.runs : task.runs[i].terminalReason = "completed"

Begun(t) == wf.graph[t].runs # << >>

(* The tasks that the scheduler has planned or dispatched, and all that    *)
(* have been run, until an operator asks for something.                    *)
Due(t) ==
  \/ \E i \in Passes : t \in pass[i]
  \/ attempt[t, "scheduler"] # Unset
  \/ calls = 0 /\ Begun(t)

DueIsFree ==
  /\ \A t \in Tasks : Status(t) \in AfterWork => Worked(wf.graph[t])
  /\ calls = 0 => \A t \in Tasks : attempt[t, "operator"] = Unset
  /\ \A t \in Tasks : attempt[t, "babysitter"] # Unset => Begun(t)
  /\ \A t \in Tasks : Due(t) => \A d \in DependsOn[t] : Worked(wf.graph[d])

DueInv == TypeOK /\ DueIsFree
-----------------------------------------------------------------------------
(* The order of a plan *)

(* A bounded set of natural numbers has a greatest one. *)
LEMMA GreatestNumber ==
  ASSUME NEW n \in Nat, NEW I \in SUBSET (0 .. n), I # {}
  PROVE  \E m \in I : \A j \in I : j <= m
  <1> DEFINE Bounds == {b \in Nat : \A i \in I : i <= b}
  <1>1. n \in Bounds /\ Bounds \in SUBSET Nat
    OBVIOUS
  <1>2. PICK m \in Bounds : \A b \in Bounds : m <= b
    BY <1>1, LeastNumber
  <1>3. CASE m \in I
    BY <1>2, <1>3
  <1>4. CASE m \notin I
    <2>1. \A i \in I : i <= m - 1
      BY <1>2, <1>4
    <2>2. m - 1 \in Nat
      <3>1. PICK i \in I : TRUE
        OBVIOUS
      <3>2. i \in Nat /\ m \in Nat /\ i <= m - 1
        BY <2>1
      <3>3. QED
        BY <3>2
    <2>3. m - 1 \in Bounds
      BY <2>1, <2>2
    <2>4. QED
      BY <1>2, <2>3
  <1>5. QED
    BY <1>3, <1>4

(* The tasks are totally ordered by their places. *)
LEMMA PrecedesTotal ==
  ASSUME NEW order, IsOrder(order), NEW t \in Tasks, NEW u \in Tasks
  PROVE  /\ ~Precedes(order, t, t)
         /\ Precedes(order, t, u) \/ Precedes(order, u, t) \/ t = u
  <1>1. order \in Seq(Tasks) /\ DOMAIN order \subseteq Nat
    BY DEF IsOrder
  <1>2. PICK i \in DOMAIN order : order[i] = t
    BY DEF IsOrder
  <1>3. PICK j \in DOMAIN order : order[j] = u
    BY DEF IsOrder
  <1>4. ~Precedes(order, t, t)
    BY <1>1 DEF Precedes, IsOrder
  <1>5. i < j \/ j < i \/ i = j
    BY <1>1, <1>2, <1>3
  <1>6. QED
    BY <1>2, <1>3, <1>4, <1>5 DEF Precedes

(* Some task of a plan comes first. *)
LEMMA FirstExists ==
  ASSUME NEW order, IsOrder(order), NEW plan \in SUBSET Tasks, plan # {}
  PROVE  \E t \in plan : \A u \in plan : ~Precedes(order, u, t)
  <1> DEFINE places == {i \in DOMAIN order : order[i] \in plan}
  <1>1. order \in Seq(Tasks) /\ DOMAIN order \subseteq Nat
    BY DEF IsOrder
  <1>2. places \in SUBSET Nat /\ places # {}
    BY <1>1 DEF IsOrder
  <1>3. PICK m \in places : \A i \in places : m <= i
    BY <1>2, LeastNumber
  <1>4. ASSUME NEW u \in plan, Precedes(order, u, order[m])
        PROVE  FALSE
    <2>1. PICK i, j \in DOMAIN order : i < j /\ order[i] = u /\ order[j] = order[m]
      BY <1>4 DEF Precedes
    <2>2. j = m
      BY <2>1, <1>3 DEF IsOrder
    <2>3. i \in places /\ i \in Nat /\ m \in Nat
      BY <2>1, <1>1
    <2>4. QED
      BY <2>1, <2>2, <2>3, <1>3
  <1>5. QED
    BY <1>3, <1>4

LEMMA FirstOfPlan ==
  ASSUME NEW plan \in SUBSET Tasks, plan # {}
  PROVE  /\ FirstOf(plan) \in plan
         /\ \A u \in plan : ~Precedes(DispatchOrder, u, FirstOf(plan))
  <1>1. \E t \in plan : \A u \in plan : ~Precedes(DispatchOrder, u, t)
    BY FirstExists, PlannersAssumption
  <1>2. QED
    BY <1>1 DEF FirstOf

(* What a pass goes on with is part of its plan, and its next task is one  *)
(* that nobody has in flight.                                              *)
LEMMA RemainingShape ==
  ASSUME NEW plan \in SUBSET Tasks, NEW flying, Remaining(plan, flying) # {}
  PROVE  /\ FirstOf(Remaining(plan, flying)) \in plan
         /\ FirstOf(Remaining(plan, flying)) \notin flying
  <1> DEFINE rest == Remaining(plan, flying)
             f == FirstOf(rest)
  <1>1. rest \in SUBSET Tasks /\ rest \subseteq plan
    BY DEF Remaining
  <1>2. f \in rest /\ \A u \in rest : ~Precedes(DispatchOrder, u, f)
    BY <1>1, FirstOfPlan
  <1>3. PICK u \in plan \ (flying \cup backedOff) : ~Precedes(DispatchOrder, f, u)
    BY <1>2 DEF Remaining
  <1>4. ~Precedes(DispatchOrder, u, u)
    BY PrecedesTotal, PlannersAssumption
  <1>5. u \in rest
    BY <1>3, <1>4 DEF Remaining
  <1>6. u = f
    BY <1>1, <1>2, <1>3, <1>5, PrecedesTotal, PlannersAssumption
  <1>7. QED
    BY <1>1, <1>2, <1>3, <1>6

LEMMA RemainingType ==
  ASSUME NEW plan \in SUBSET Tasks, NEW flying
  PROVE  Remaining(plan, flying) \in SUBSET Tasks /\ Remaining(plan, flying) \subseteq plan
  BY DEF Remaining

(* The scan acts on one of the actions it has planned. *)
LEMMA NextActionPlanned ==
  ASSUME scan.todo \in SUBSET RecoveryActions, scan.todo # {}
  PROVE  NextAction \in scan.todo
  <1> DEFINE tasks == {x.taskId : x \in scan.todo}
  <1>1. tasks \in SUBSET Tasks /\ tasks # {}
    BY DEF RecoveryActions
  <1>2. PICK t \in tasks : \A u \in tasks : ~Precedes(GraphOrder, u, t)
    BY <1>1, FirstExists, DispatchAssumption
  <1>3. \E x \in scan.todo : \A y \in scan.todo : ~Precedes(GraphOrder, y.taskId, x.taskId)
    BY <1>2
  <1>4. QED
    BY <1>3 DEF NextAction

(* What a task can be resumed from is a reference, if anything. *)
LEMMA PriorSessionRefType ==
  ASSUME NEW task \in TaskNode
  PROVE  PriorSessionRef(task) \in Refs \cup {Unset}
  <1> DEFINE resumable == {i \in DOMAIN task.runs :
                             /\ task.runs[i].terminalReason # Unset
                             /\ task.runs[i].providerSessionRef # Unset}
             last == CHOOSE i \in resumable : \A j \in resumable : j <= i
  <1>1. task.runs \in Seq(NodeRun)
    BY DEF TaskNode
  <1>2. CASE resumable = {}
    BY <1>2 DEF PriorSessionRef
  <1>3. CASE resumable # {}
    <2>1. resumable \in SUBSET (0 .. Len(task.runs)) /\ Len(task.runs) \in Nat
      BY <1>1
    <2>2. \E i \in resumable : \A j \in resumable : j <= i
      BY <1>3, <2>1, GreatestNumber
    <2>3. last \in resumable
      BY <2>2
    <2>4. task.runs[last] \in NodeRun
      <3>1. last \in DOMAIN task.runs
        BY <2>3
      <3> HIDE DEF last
      <3>2. QED
        BY <1>1, <3>1, ElementOfSeq
    <2>5. task.runs[last].providerSessionRef \in Refs \cup {Unset}
      BY <2>4 DEF NodeRun
    <2>6. PriorSessionRef(task) = task.runs[last].providerSessionRef
      BY <1>3 DEF PriorSessionRef
    <2>7. QED
      BY <2>5, <2>6
  <1>4. QED
    BY <1>2, <1>3

-----------------------------------------------------------------------------
(* Commands *)

(* A command that is accepted names a task, whatever its session's owner. *)
LEMMA AcceptedTask ==
  ASSUME wf \in Workflow, NEW c, Accepts(c)
  PROVE  c.taskId \in Tasks
  BY DEF Accepts, TransitionOutcome, Workflow

LEMMA CmdType ==
  ASSUME NEW kind \in TransitionKinds, NEW t \in Tasks
  PROVE  /\ Cmd(kind, t) \in TransitionCommand
         /\ Cmd(kind, t).kind = kind /\ Cmd(kind, t).taskId = t
  BY DEF Cmd, TransitionCommand

(* The command of an orchestrator names the session it is about. *)
LEMMA OwnCmdType ==
  ASSUME wf \in Workflow, NEW kind \in TransitionKinds, NEW s \in Sessions, NEW c,
         \/ c = OwnCmd(kind, s)
         \/ \E ref \in Refs : c = [OwnCmd(kind, s) EXCEPT !.providerSessionRef = ref],
         Accepts(c)
  PROVE  /\ c \in TransitionCommand
         /\ c.kind = kind /\ c.expectedSessionId = s
  <1> DEFINE own == OwnCmd(kind, s)
  <1>1. /\ own.taskId = owner[s] /\ own.kind = kind /\ own.expectedSessionId = s
        /\ c.taskId = own.taskId
    BY DEF OwnCmd, Cmd
  <1>2. owner[s] \in Tasks
    BY <1>1, AcceptedTask
  <1>3. Cmd(kind, owner[s]) \in TransitionCommand
    BY <1>2, CmdType
  <1>4. own \in TransitionCommand
    BY <1>3 DEF OwnCmd, TransitionCommand
  <1> HIDE DEF own
  <1>5. CASE c = own
    BY <1>1, <1>4, <1>5
  <1>6. ASSUME NEW ref \in Refs, c = [own EXCEPT !.providerSessionRef = ref]
        PROVE  c \in TransitionCommand /\ c.kind = kind /\ c.expectedSessionId = s
    BY <1>1, <1>4, <1>6 DEF TransitionCommand
  <1>7. QED
    BY <1>5, <1>6 DEF own

LEMMA RecoveryCommandType ==
  ASSUME NEW x \in RecoveryActions
  PROVE  RecoveryCommand(x) \in TransitionCommand
  <1>1. RecoveryTransition(x) \in TransitionKinds
    BY DEF RecoveryTransition, TransitionKinds
  <1>2. RecoveryCommand(x).artifacts \in SUBSET Artifacts
    BY PlannersAssumption DEF RecoveryCommand
  <1>3. x.taskId \in Tasks /\ x.sessionId \in Sessions \cup {Unset}
    BY DEF RecoveryActions
  <1>4. QED
    BY <1>1, <1>2, <1>3 DEF RecoveryCommand, TransitionCommand

(* An accepted command changes one task, from a status it may be given in, *)
(* and one that names a session only if it is that task's.                 *)
LEMMA CommandEffect ==
  ASSUME WorkflowInv(wf), NEW c \in TransitionCommand, Accepts(c),
         NEW n, n = TransitionTask(wf, c)
  PROVE  /\ WorkflowInv(n)
         /\ c.taskId \in Tasks
         /\ \A t \in Tasks \ {c.taskId} : n.graph[t] = wf.graph[t]
         /\ Status(c.taskId) \in From(c.kind)
         /\ n.graph[c.taskId].executionStatus = Target(wf.graph[c.taskId], c)
         /\ n.graph[c.taskId] = UpdateTask(wf.graph[c.taskId], c)
         /\ Accepted(wf.graph[c.taskId], c)
         /\ c.expectedSessionId # Unset
              => wf.graph[c.taskId].sessionId = c.expectedSessionId
  <1>1. TransitionOutcome(wf, c) = "ok" /\ wf \in Workflow
    BY DEF Accepts, WorkflowInv
  <1>2. c.taskId \in Tasks /\ Accepted(wf.graph[c.taskId], c)
    BY <1>1, AcceptedTransition
  <1>3. WorkflowInv(n)
    BY <1>1, TransitionInv
  <1>4. n.graph = [t \in Tasks |-> IF t = c.taskId THEN UpdateTask(wf.graph[t], c)
                                   ELSE wf.graph[t]]
    BY <1>1, TransitionShape
  <1>5. ~StaleSession(wf.graph[c.taskId], c)
    BY <1>1, <1>2 DEF TransitionOutcome, Workflow
  <1>6. c.expectedSessionId # Unset => wf.graph[c.taskId].sessionId = c.expectedSessionId
    BY <1>5 DEF StaleSession
  <1>7. \A t \in Tasks \ {c.taskId} : n.graph[t] = wf.graph[t]
    BY <1>4
  <1>8. n.graph[c.taskId] = UpdateTask(wf.graph[c.taskId], c)
    BY <1>2, <1>4
  <1>9. n.graph[c.taskId].executionStatus = Target(wf.graph[c.taskId], c)
    BY <1>8 DEF UpdateTask
  <1>10. Status(c.taskId) \in From(c.kind)
    BY <1>2 DEF Accepted, Status
  <1>11. QED
    BY <1>2, <1>3, <1>6, <1>7, <1>8, <1>9, <1>10

DeliveryCommands ==
  {"start-quality-gate", "complete-quality-gate", "start-finalization",
   "open-review", "complete-without-pr", "merge-task", "merge-conflict"}

(* an orchestrator ends the run of an agent that is gone, or is abandoned  *)
LetGoOf(s) == watch[s] = "timed-out" \/ agent[s] \in Gone \/ s \in abandoned'

(* what there is to a command when it is given *)
Occasion(c) ==
  \/ c.kind = "mark-ready"
  \/ /\ c.kind = "mark-running"
     /\ \E a \in Attempts : attempt[a] # Unset /\ c.taskId = TaskOf(a)
  \/ \E s \in Sessions : /\ LetGoOf(s)
                         /\ c.expectedSessionId = s
                         /\ c.kind \in Ends \cup {"update-run"}
  \/ /\ scan.at = "acting" /\ scan.todo # {}
     /\ c = RecoveryCommand(NextAction)
  \/ c.kind \in {"cancel-task"} \cup DeliveryCommands

Commanded(n) ==
  \E c \in TransitionCommand : /\ Accepts(c)
                               /\ n = TransitionTask(wf, c)
                               /\ Occasion(c)

(* The calls in progress are at a step, and know a session from then on. *)
LEMMA AttemptType ==
  ASSUME TypeOK, NEW a \in Attempts, attempt[a] # Unset, attempt[a].at # "get"
  PROVE  /\ attempt[a] \in [at: {"ready", "create", "start", "mark", "stop", "cleanup"},
                            ref: Refs \cup {Unset}, session: Sessions \cup {Unset}]
         /\ TaskOf(a) \in Tasks
  BY DEF TypeOK, AttemptState, Attempts, TaskOf

LEMMA ActingType ==
  ASSUME TypeOK, scan.at = "acting"
  PROVE  scan \in [at: {"acting"}, probes: ProbeResults, todo: SUBSET RecoveryActions]
  BY DEF TypeOK, ScanState, IdleScan

(* The workflow changes by a command that somebody has reason to give. *)
LEMMA WhoCommands ==
  ASSUME TypeOK, [Next]_vars
  PROVE  wf' = wf \/ Commanded(wf')
  <1>1. wf \in Workflow /\ WorkflowInv(wf)
    BY DEF TypeOK, WorkflowInv
  <1>2. ASSUME NEW a \in Attempts, Ready(a)
        PROVE  wf' = wf \/ Commanded(wf')
    <2>1. TaskOf(a) \in Tasks /\ "mark-ready" \in TransitionKinds
      BY DEF Attempts, TaskOf, TransitionKinds
    <2>2. /\ Cmd("mark-ready", TaskOf(a)) \in TransitionCommand
          /\ Cmd("mark-ready", TaskOf(a)).kind = "mark-ready"
      BY <2>1, CmdType
    <2>3. QED
      BY <1>2, <2>2 DEF Ready, Store, store, Commanded, Occasion
  <1>3. ASSUME NEW a \in Attempts, Mark(a)
        PROVE  wf' = wf \/ Commanded(wf')
    <2> DEFINE c == [Cmd("mark-running", TaskOf(a))
                       EXCEPT !.sessionId = attempt[a].session,
                              !.providerSessionRef = attempt[a].ref]
    <2>1. attempt[a] # Unset /\ attempt[a].at = "mark"
      BY <1>3 DEF Mark, At
    <2>2. /\ attempt[a].session \in Sessions \cup {Unset}
          /\ attempt[a].ref \in Refs \cup {Unset}
          /\ TaskOf(a) \in Tasks
      BY <2>1, AttemptType
    <2>3. /\ Cmd("mark-running", TaskOf(a)) \in TransitionCommand
          /\ Cmd("mark-running", TaskOf(a)).kind = "mark-running"
          /\ Cmd("mark-running", TaskOf(a)).taskId = TaskOf(a)
      BY <2>2, CmdType DEF TransitionKinds
    <2>4. c \in TransitionCommand /\ c.kind = "mark-running" /\ c.taskId = TaskOf(a)
      BY <2>2, <2>3 DEF TransitionCommand
    <2>5. wf' = wf \/ (Accepts(c) /\ wf' = TransitionTask(wf, c))
      BY <1>3 DEF Mark, Store, store
    <2>6. QED
      BY <2>1, <2>4, <2>5 DEF Commanded, Occasion
  <1>4. ASSUME NEW s \in Sessions, NEW kind \in Ends \cup {"update-run"}, NEW c,
               \/ c = OwnCmd(kind, s)
               \/ \E ref \in Refs : c = [OwnCmd(kind, s) EXCEPT !.providerSessionRef = ref],
               Accepts(c), wf' = TransitionTask(wf, c),
               LetGoOf(s)
        PROVE  Commanded(wf')
    <2>1. kind \in TransitionKinds
      BY DEF Ends, TransitionKinds
    <2>2. c \in TransitionCommand /\ c.kind = kind /\ c.expectedSessionId = s
      BY <1>1, <1>4, <2>1, OwnCmdType
    <2>3. Occasion(c)
      BY <1>4, <2>2 DEF Occasion
    <2>4. QED
      BY <1>4, <2>2, <2>3 DEF Commanded
  <1>5. ASSUME NEW s \in Sessions, KeepSessionRef(s)
        PROVE  wf' = wf \/ Commanded(wf')
    <2>1. LetGoOf(s)
      BY <1>5 DEF KeepSessionRef, Gone, LetGoOf
    <2>2. PICK ref \in Refs :
            \/ wf' = wf
            \/ /\ Accepts([OwnCmd("update-run", s) EXCEPT !.providerSessionRef = ref])
               /\ wf' = TransitionTask(wf, [OwnCmd("update-run", s)
                                              EXCEPT !.providerSessionRef = ref])
      BY <1>5 DEF KeepSessionRef, Store, store
    <2>3. QED
      BY <1>4, <2>1, <2>2
  <1>6. ASSUME NEW s \in Sessions, NEW kind \in Ends, EndRun(s, kind)
        PROVE  wf' = wf \/ Commanded(wf')
    <2>1. LetGoOf(s)
      BY <1>6 DEF EndRun, Gone, LetGoOf
    <2>2. wf' = wf \/ (Accepts(OwnCmd(kind, s)) /\ wf' = TransitionTask(wf, OwnCmd(kind, s)))
      BY <1>6 DEF EndRun, Store, store
    <2>3. QED
      BY <1>4, <2>1, <2>2
  <1>7. ASSUME NEW s \in Sessions, RecoverTimedOut(s)
        PROVE  wf' = wf \/ Commanded(wf')
    <2>1. LetGoOf(s) /\ "recover-task" \in Ends
      BY <1>7 DEF RecoverTimedOut, Ends, LetGoOf
    <2>2. \/ wf' = wf
          \/ /\ Accepts(OwnCmd("recover-task", s))
             /\ wf' = TransitionTask(wf, OwnCmd("recover-task", s))
      BY <1>7 DEF RecoverTimedOut, Store, store
    <2>3. QED
      BY <1>4, <2>1, <2>2
  <1>8. ASSUME Recover
        PROVE  wf' = wf \/ Commanded(wf')
    <2>1. /\ scan.at = "acting" /\ scan.todo # {}
          /\ scan.todo \in SUBSET RecoveryActions
      BY <1>8, ActingType DEF Recover
    <2>2. NextAction \in RecoveryActions
      BY <2>1, NextActionPlanned
    <2>3. RecoveryCommand(NextAction) \in TransitionCommand
      BY <2>2, RecoveryCommandType
    <2>4. \/ wf' = wf
          \/ /\ Accepts(RecoveryCommand(NextAction))
             /\ wf' = TransitionTask(wf, RecoveryCommand(NextAction))
      BY <1>8 DEF Recover, ActOn, Store
    <2>5. QED
      BY <2>1, <2>3, <2>4 DEF Commanded, Occasion
  <1>9. ASSUME NEW t \in Tasks, Cancel(t)
        PROVE  Commanded(wf')
    <2>1. /\ Cmd("cancel-task", t) \in TransitionCommand
          /\ Cmd("cancel-task", t).kind = "cancel-task"
      BY CmdType DEF TransitionKinds
    <2>2. QED
      BY <1>9, <2>1 DEF Cancel, Store, Commanded, Occasion
  <1>10. ASSUME NEW t \in Tasks, NEW kind \in DeliveryCommands,
                NEW arts \in SUBSET Artifacts, NEW passed \in BOOLEAN, NEW c,
                c = [Cmd(kind, t) EXCEPT !.artifacts = arts, !.passed = passed],
                Accepts(c), Store(c)
         PROVE  Commanded(wf')
    <2>1. Cmd(kind, t) \in TransitionCommand /\ Cmd(kind, t).kind = kind
      BY CmdType DEF TransitionKinds, DeliveryCommands
    <2>2. c \in TransitionCommand /\ c.kind = kind
      BY <1>10, <2>1 DEF TransitionCommand
    <2>3. QED
      BY <1>10, <2>2 DEF Store, Commanded, Occasion
  <1>11. ASSUME NEW t \in Tasks, Babysit(t)
         PROVE  Commanded(wf')
    <2> DEFINE c == [Cmd("merge-conflict", t) EXCEPT !.artifacts = {"ci-report"}]
    <2>1. Accepts(c) /\ Store(c)
      BY <1>11 DEF Babysit
    <2>2. /\ Cmd("merge-conflict", t) \in TransitionCommand
          /\ Cmd("merge-conflict", t).kind = "merge-conflict"
      BY CmdType DEF TransitionKinds
    <2>3. c \in TransitionCommand /\ c.kind = "merge-conflict"
      BY <2>2, PlannersAssumption DEF TransitionCommand
    <2>4. QED
      BY <2>1, <2>3 DEF Store, Commanded, Occasion, DeliveryCommands
  <1>12. ASSUME NEW t \in Tasks, NEW kind \in DeliveryKinds, Deliver(t, kind)
         PROVE  Commanded(wf')
    <2>1. kind \in DeliveryCommands
      BY DispatchAssumption DEF DeliveryCommands
    <2>2. DeliveryArtifacts(kind) \in SUBSET Artifacts
      BY DispatchAssumption, PlannersAssumption DEF DeliveryArtifacts
    <2>3. QED
      BY <1>10, <1>12, <2>1, <2>2 DEF Deliver
  <1>13. ASSUME NEW s \in Sessions, OrchestratorThrows(s)
         PROVE  wf' = wf \/ Commanded(wf')
    <2>1. LetGoOf(s) /\ "mark-interrupted" \in Ends
      BY <1>13 DEF OrchestratorThrows, Ends, LetGoOf
    <2>2. \/ wf' = wf
          \/ /\ Accepts(OwnCmd("mark-interrupted", s))
             /\ wf' = TransitionTask(wf, OwnCmd("mark-interrupted", s))
      BY <1>13 DEF OrchestratorThrows, Store, store
    <2>3. QED
      BY <1>4, <2>1, <2>2
  <1>14. CASE \/ \E i \in Passes : StartPass(i) \/ StepPass(i) \/ FailPass(i)
              \/ \E t \in Tasks : \/ BackoffExpires(t)
                                  \/ \E plan \in OperatorPlans : AskFor(t, plan)
              \/ \E a \in Attempts : \/ Get(a) \/ Create(a) \/ Start(a) \/ Stop(a)
                                     \/ Cleanup(a) \/ AttemptFails(a)
              \/ \E s \in Sessions : \/ AgentEnds(s) \/ IdleTimeout(s) \/ CleanupRun(s)
                                     \/ EndFails(s)
              \/ Probe \/ NothingToRecover \/ PlanScan \/ EndScan \/ ScanFails \/ Crash
              \/ UNCHANGED vars
    <2>1. wf' = wf
      BY <1>14 DEF StartPass, StepPass, FailPass, BackoffExpires, AskFor, Get, Create,
         Start, Stop, Cleanup, AttemptFails, AgentEnds, IdleTimeout, CleanupRun, EndFails,
         Probe, NothingToRecover, PlanScan, EndScan, ScanFails, Crash, vars, store
    <2>2. QED
      BY <2>1
  <1>15. QED
    BY <1>2, <1>3, <1>5, <1>6, <1>7, <1>8, <1>9, <1>11, <1>14, <1>12, <1>13
       DEF Next, AttemptStep, Orchestrate, ScanStep

-----------------------------------------------------------------------------
(* The type invariant *)

LEMMA GoOnType ==
  ASSUME SchedulerOK, NEW i \in Passes, NEW plan \in SUBSET Tasks,
         NEW flying \in SUBSET Tasks, GoOn(i, plan, flying)
  PROVE  SchedulerOK'
  <1> DEFINE rest == Remaining(plan, flying)
  <1>1. rest \in SUBSET Tasks
    BY RemainingType
  <1>2. rest # {} => FirstOf(rest) \in Tasks
    BY <1>1, FirstOfPlan
  <1>3. /\ pass' = [pass EXCEPT ![i] = rest]
        /\ inFlight' = IF rest = {} THEN flying ELSE flying \cup {FirstOf(rest)}
    BY DEF GoOn
  <1> HIDE DEF rest
  <1>4. QED
    BY <1>1, <1>2, <1>3 DEF SchedulerOK

(* A call that has ended, or moved on, is still one. *)
LEMMA AttemptEnded ==
  ASSUME TypeOK, NEW a \in Attempts
  PROVE  [attempt EXCEPT ![a] = Unset] \in [Attempts -> AttemptState \cup {Unset}]
  BY DEF TypeOK

LEMMA AttemptMoved ==
  ASSUME TypeOK, NEW a \in Attempts, attempt[a] # Unset, attempt[a].at # "get",
         NEW step \in {"ready", "create", "start", "mark", "stop", "cleanup"},
         MoveTo(a, step)
  PROVE  attempt' \in [Attempts -> AttemptState \cup {Unset}]
  <1>1. attempt[a] \in [at: {"ready", "create", "start", "mark", "stop", "cleanup"},
                        ref: Refs \cup {Unset}, session: Sessions \cup {Unset}]
    BY AttemptType
  <1> DEFINE moved == [attempt[a] EXCEPT !.at = step]
  <1>2. moved \in AttemptState
    BY <1>1 DEF AttemptState
  <1>3. attempt' = [attempt EXCEPT ![a] = moved]
    BY DEF MoveTo
  <1> HIDE DEF moved
  <1>4. QED
    BY <1>2, <1>3 DEF TypeOK

(* What a call knows when it has read its task, and when it has a session. *)
LEMMA GetShape ==
  ASSUME TypeOK, NEW a \in Attempts, Get(a)
  PROVE  /\ attempt[a] # Unset /\ attempt[a].at = "get"
         /\ \/ Fail(a)
            \/ \E state \in AttemptState : /\ attempt' = [attempt EXCEPT ![a] = state]
                                           /\ UNCHANGED scheduler
  <1>1. TaskOf(a) \in Tasks /\ wf.graph[TaskOf(a)] \in TaskNode
    BY DEF Attempts, TaskOf, TypeOK, WorkflowInv, TaskInv
  <1> DEFINE state == [at |-> IF wf.graph[TaskOf(a)].executionStatus = "pending"
                              THEN "ready" ELSE "create",
                       ref |-> IF attempt[a].plan = "continue"
                               THEN PriorSessionRef(wf.graph[TaskOf(a)]) ELSE Unset,
                       session |-> Unset]
  <1>2. state \in AttemptState
    BY <1>1, PriorSessionRefType DEF AttemptState
  <1>3. \/ Fail(a)
        \/ attempt' = [attempt EXCEPT ![a] = state] /\ UNCHANGED scheduler
    BY DEF Get
  <1>4. attempt[a] # Unset /\ attempt[a].at = "get"
    BY DEF Get, At
  <1> HIDE DEF state
  <1>5. QED
    BY <1>2, <1>3, <1>4

LEMMA StartShape ==
  ASSUME TypeOK, NEW a \in Attempts, Start(a)
  PROVE  \E s \in Sessions, state \in AttemptState :
           /\ attempt[a] # Unset /\ attempt[a].at = "start"
           /\ agent' = [agent EXCEPT ![s] = "live"]
           /\ attempt' = [attempt EXCEPT ![a] = state]
           /\ state.at = "mark" /\ state.session = s
           /\ agent[s] = "unused"
  <1>1. attempt[a] # Unset /\ attempt[a].at = "start"
    BY DEF Start, At
  <1>2. attempt[a] \in [at: {"ready", "create", "start", "mark", "stop", "cleanup"},
                        ref: Refs \cup {Unset}, session: Sessions \cup {Unset}]
    BY <1>1, AttemptType
  <1>3. PICK s \in Unused :
          /\ agent' = [agent EXCEPT ![s] = "live"]
          /\ attempt' = [attempt EXCEPT ![a].at = "mark", ![a].session = s]
    BY DEF Start
  <1>4. s \in Sessions /\ agent[s] = "unused"
    BY DEF Unused
  <1> DEFINE state == [[attempt[a] EXCEPT !.at = "mark"] EXCEPT !.session = s]
  <1>5. state \in AttemptState /\ state.at = "mark" /\ state.session = s
    BY <1>2, <1>4 DEF AttemptState
  <1>6. attempt' = [attempt EXCEPT ![a] = state]
    BY <1>3 DEF TypeOK
  <1> HIDE DEF state
  <1>7. QED
    BY <1>1, <1>3, <1>4, <1>5, <1>6

LEMMA FailType ==
  ASSUME TypeOK, NEW a \in Attempts, Fail(a) \/ Succeed(a)
  PROVE  attempt' \in [Attempts -> AttemptState \cup {Unset}] /\ SchedulerOK'
  <1>1. attempt' = [attempt EXCEPT ![a] = Unset]
    BY DEF Fail, Succeed
  <1>2. SchedulerOK'
    BY DEF Fail, Succeed, SchedulerOK, TypeOK
  <1>3. QED
    BY <1>1, <1>2, AttemptEnded

(* The scheduler and the calls. *)
LEMMA CallsType ==
  ASSUME TypeOK, [Next]_vars
  PROVE  attempt' \in [Attempts -> AttemptState \cup {Unset}] /\ SchedulerOK'
  <1> DEFINE Goal == attempt' \in [Attempts -> AttemptState \cup {Unset}] /\ SchedulerOK'
  <1>0. attempt \in [Attempts -> AttemptState \cup {Unset}] /\ SchedulerOK
    BY DEF TypeOK
  <1>1. ASSUME NEW i \in Passes, StartPass(i)
        PROVE  Goal
    <2>1. PlanDispatch(wf) \in SUBSET Tasks
      BY DEF PlanDispatch, Candidates, TasksIn
    <2>2. GoOn(i, PlanDispatch(wf), inFlight) /\ attempt' = attempt
      BY <1>1 DEF StartPass
    <2>3. inFlight \in SUBSET Tasks
      BY <1>0 DEF SchedulerOK
    <2>4. QED
      BY <1>0, <2>1, <2>2, <2>3, GoOnType
  <1>2. ASSUME NEW i \in Passes, StepPass(i) \/ FailPass(i)
        PROVE  Goal
    <2> DEFINE t == FirstOf(pass[i])
    <2>1. /\ pass[i] \in SUBSET Tasks /\ pass[i] \ {t} \in SUBSET Tasks
          /\ inFlight \in SUBSET Tasks /\ inFlight \ {t} \in SUBSET Tasks
      BY <1>0 DEF SchedulerOK
    <2>2. \/ GoOn(i, pass[i] \ {t}, inFlight)
          \/ GoOn(i, pass[i] \ {t}, inFlight \ {t})
      BY <1>2 DEF StepPass, FailPass
    <2>3. SchedulerOK'
      BY <1>0, <2>1, <2>2, GoOnType
    <2>4. t \in Tasks
      BY <1>2, <2>1, FirstOfPlan DEF StepPass, FailPass
    <2>5. attempt' = attempt \/ Begin(<<t, "scheduler">>, Plan(t))
      BY <1>2 DEF StepPass, FailPass
    <2> HIDE DEF t
    <2>6. Begin(<<t, "scheduler">>, Plan(t))
            => attempt' \in [Attempts -> AttemptState \cup {Unset}]
      BY <1>0, <2>4 DEF Begin, Plan, AttemptState, Attempts
    <2>7. QED
      BY <1>0, <2>3, <2>5, <2>6
  <1>3. ASSUME NEW t \in Tasks, NEW plan \in OperatorPlans, AskFor(t, plan)
        PROVE  Goal
    <2>1. plan \in {"retry", "continue"}
      BY DispatchAssumption
    <2>2. [at |-> "get", plan |-> plan] \in AttemptState /\ <<t, "operator">> \in Attempts
      BY <2>1 DEF AttemptState, Attempts
    <2>3. QED
      BY <1>0, <1>3, <2>2 DEF AskFor, Begin, scheduler, SchedulerOK
  <1>4. ASSUME NEW a \in Attempts, Get(a)
        PROVE  Goal
    BY <1>0, <1>4, GetShape, FailType DEF scheduler, SchedulerOK
  <1>12. ASSUME NEW t \in Tasks, Babysit(t)
         PROVE  Goal
    <2>1. [at |-> "get", plan |-> "continue"] \in AttemptState /\ <<t, "babysitter">> \in Attempts
      BY DEF AttemptState, Attempts
    <2>2. QED
      BY <1>0, <1>12, <2>1 DEF Babysit, Begin, scheduler, SchedulerOK
  <1>5. ASSUME NEW a \in Attempts, Start(a)
        PROVE  Goal
    BY <1>0, <1>5, StartShape DEF Start, scheduler, SchedulerOK
  <1>6. ASSUME NEW a \in Attempts,
               NEW step \in {"ready", "create", "start", "mark", "stop", "cleanup"},
               attempt[a] # Unset, attempt[a].at # "get", MoveTo(a, step), UNCHANGED scheduler
        PROVE  Goal
    BY <1>0, <1>6, AttemptMoved DEF scheduler, SchedulerOK
  <1>7. ASSUME NEW a \in Attempts, Ready(a) \/ Create(a) \/ Mark(a) \/ Stop(a) \/ Cleanup(a)
                                   \/ AttemptFails(a)
        PROVE  Goal
    <2>1. \/ Fail(a) \/ Succeed(a)
          \/ /\ attempt[a] # Unset /\ attempt[a].at # "get"
             /\ UNCHANGED scheduler
             /\ \/ MoveTo(a, "create") \/ MoveTo(a, "start") \/ MoveTo(a, "stop")
                \/ MoveTo(a, "cleanup")
      BY <1>7 DEF Ready, Create, Mark, Stop, Cleanup, AttemptFails, At
    <2>2. QED
      BY <1>6, <2>1, FailType
  <1>8. CASE Crash
    BY <1>8 DEF Crash, SchedulerOK
  <1>9. CASE UNCHANGED <<attempt, pass, inFlight>>
    BY <1>0, <1>9 DEF SchedulerOK
  <1>10. CASE \/ \E t \in Tasks : \/ BackoffExpires(t) \/ Cancel(t)
                                  \/ \E kind \in DeliveryKinds : Deliver(t, kind)
              \/ \E s \in Sessions : \/ AgentEnds(s) \/ IdleTimeout(s) \/ Orchestrate(s)
                                     \/ OrchestratorThrows(s) \/ EndFails(s)
              \/ ScanStep \/ ScanFails \/ UNCHANGED vars
    <2>1. UNCHANGED <<attempt, pass, inFlight>>
      BY <1>10 DEF BackoffExpires, Cancel, Deliver, AgentEnds, IdleTimeout, Orchestrate,
         KeepSessionRef, EndRun, CleanupRun, RecoverTimedOut, OrchestratorThrows, EndFails,
         ScanStep, Probe,
         NothingToRecover, PlanScan, Recover, EndScan, ScanFails, vars, scheduler
    <2>2. QED
      BY <1>9, <2>1
  <1>11. QED
    BY <1>1, <1>2, <1>3, <1>4, <1>5, <1>7, <1>8, <1>10, <1>12 DEF Next, AttemptStep

(* The agents and their orchestrators. *)
LEMMA HostType ==
  ASSUME TypeOK, [Next]_vars
  PROVE  HostOK'
  <1>0. HostOK
    BY DEF TypeOK
  <1>1. agent' \in [Sessions -> AgentStates]
    <2>1. CASE agent' = agent
      BY <1>0, <2>1 DEF HostOK
    <2>2. ASSUME NEW s, NEW state \in AgentStates, agent' = [agent EXCEPT ![s] = state]
          PROVE  agent' \in [Sessions -> AgentStates]
      BY <1>0, <2>2 DEF HostOK
    <2>3. \A state \in {"live", "dead", "missing"} : state \in AgentStates
      BY DEF AgentStates
    <2>4. CASE \/ \E a \in Attempts : Start(a) \/ Stop(a)
               \/ \E s \in Sessions : AgentEnds(s) \/ IdleTimeout(s)
      <3>1. ASSUME NEW a \in Attempts, Start(a)
            PROVE  \E s : agent' = [agent EXCEPT ![s] = "live"]
        BY <3>1 DEF Start
      <3>2. ASSUME NEW a \in Attempts, Stop(a)
            PROVE  agent' = agent \/ \E s : agent' = [agent EXCEPT ![s] = "missing"]
        BY <3>2 DEF Stop, StopSession
      <3>3. ASSUME NEW s \in Sessions, AgentEnds(s)
            PROVE  agent' = [agent EXCEPT ![s] = "dead"]
        BY <3>3 DEF AgentEnds
      <3>4. ASSUME NEW s \in Sessions, IdleTimeout(s)
            PROVE  agent' = agent \/ agent' = [agent EXCEPT ![s] = "missing"]
        BY <3>4 DEF IdleTimeout, StopSession
      <3>5. QED
        BY <2>1, <2>2, <2>3, <2>4, <3>1, <3>2, <3>3, <3>4
    <2>5. CASE Recover \/ ScanFails \/ Crash
      BY <1>0, <2>5 DEF Recover, ScanFails, AfterStop, Crash, HostOK, AgentStates
    <2>6. CASE \/ \E i \in Passes : StartPass(i) \/ StepPass(i) \/ FailPass(i)
               \/ \E t \in Tasks : \/ BackoffExpires(t) \/ Cancel(t)
                                   \/ \E plan \in OperatorPlans : AskFor(t, plan)
                                   \/ \E kind \in DeliveryKinds : Deliver(t, kind)
                                   \/ Babysit(t)
               \/ \E a \in Attempts : \/ Get(a) \/ Ready(a) \/ Create(a) \/ Mark(a)
                                      \/ Cleanup(a) \/ AttemptFails(a)
               \/ \E s \in Sessions : Orchestrate(s) \/ OrchestratorThrows(s) \/ EndFails(s)
               \/ Probe \/ NothingToRecover \/ PlanScan \/ EndScan \/ UNCHANGED vars
      <3>1. agent' = agent
        BY <2>6 DEF StartPass, StepPass, FailPass, BackoffExpires, Cancel, AskFor, Deliver,
           Babysit, Get, Ready, Create, Mark, Cleanup, AttemptFails, Orchestrate,
           KeepSessionRef, EndRun, CleanupRun, RecoverTimedOut, OrchestratorThrows,
           EndFails,
           Probe, NothingToRecover, PlanScan, EndScan, vars, host
      <3>2. QED
        BY <2>1, <3>1
    <2>7. QED
      BY <2>4, <2>5, <2>6 DEF Next, AttemptStep, ScanStep
  <1>2. watch' \in [Sessions -> WatchStates]
    <2>1. CASE watch' = watch
      BY <1>0, <2>1 DEF HostOK
    <2>2. ASSUME NEW s, NEW state \in WatchStates, watch' = [watch EXCEPT ![s] = state]
          PROVE  watch' \in [Sessions -> WatchStates]
      BY <1>0, <2>2 DEF HostOK
    <2>3. CASE \/ \E a \in Attempts : Mark(a)
               \/ \E s \in Sessions : \/ IdleTimeout(s) \/ Orchestrate(s)
                                      \/ OrchestratorThrows(s) \/ EndFails(s)
      <3>1. ASSUME NEW a \in Attempts, Mark(a)
            PROVE  watch' = watch \/ \E s : watch' = [watch EXCEPT ![s] = "attached"]
        BY <3>1 DEF Mark
      <3>2. ASSUME NEW s \in Sessions, IdleTimeout(s)
            PROVE  watch' = [watch EXCEPT ![s] = "timed-out"]
        BY <3>2 DEF IdleTimeout
      <3>3. ASSUME NEW s \in Sessions, KeepSessionRef(s)
            PROVE  \/ watch' = [watch EXCEPT ![s] = "ending"]
                   \/ watch' = [watch EXCEPT ![s] = "off"]
        BY <3>3 DEF KeepSessionRef
      <3>4. ASSUME NEW s \in Sessions, NEW kind \in Ends, EndRun(s, kind)
            PROVE  \/ watch' = [watch EXCEPT ![s] = "cleanup"]
                   \/ watch' = [watch EXCEPT ![s] = "off"]
        BY <3>4 DEF EndRun
      <3>5. ASSUME NEW s \in Sessions, CleanupRun(s) \/ RecoverTimedOut(s)
            PROVE  watch' = [watch EXCEPT ![s] = "off"]
        BY <3>5 DEF CleanupRun, RecoverTimedOut
      <3>6. \A state \in {"off", "attached", "ending", "cleanup", "timed-out"} :
              state \in WatchStates
        BY DEF WatchStates
      <3>7. ASSUME NEW s \in Sessions, OrchestratorThrows(s) \/ EndFails(s)
            PROVE  \/ watch' = [watch EXCEPT ![s] = "cleanup"]
                   \/ watch' = [watch EXCEPT ![s] = "off"]
        BY <3>7 DEF OrchestratorThrows, EndFails
      <3>8. QED
        BY <2>1, <2>2, <2>3, <3>1, <3>2, <3>3, <3>4, <3>5, <3>6, <3>7 DEF Orchestrate
    <2>4. CASE Recover \/ EndScan \/ ScanFails
      <3>1. ASSUME NEW respawned, Boot(respawned)
            PROVE  watch' \in [Sessions -> WatchStates]
        BY <1>0, <3>1 DEF Boot, HostOK, WatchStates
      <3>2. CASE Recover
        BY <2>1, <3>1, <3>2 DEF Recover, ActOn, AbortScan
      <3>3. CASE EndScan
        BY <3>1, <3>3 DEF EndScan
      <3>4. CASE ScanFails
        BY <3>1, <3>4 DEF ScanFails, AbortScan
      <3>5. QED
        BY <2>4, <3>2, <3>3, <3>4
    <2>5. CASE Crash
      BY <2>5 DEF Crash, WatchStates
    <2>6. CASE \/ \E i \in Passes : StartPass(i) \/ StepPass(i) \/ FailPass(i)
               \/ \E t \in Tasks : \/ BackoffExpires(t) \/ Cancel(t)
                                   \/ \E plan \in OperatorPlans : AskFor(t, plan)
                                   \/ \E kind \in DeliveryKinds : Deliver(t, kind)
                                   \/ Babysit(t)
               \/ \E a \in Attempts : \/ Get(a) \/ Ready(a) \/ Create(a) \/ Start(a)
                                      \/ Stop(a) \/ Cleanup(a) \/ AttemptFails(a)
               \/ \E s \in Sessions : AgentEnds(s)
               \/ Probe \/ NothingToRecover \/ PlanScan
               \/ UNCHANGED vars
      <3>1. watch' = watch
        BY <2>6 DEF StartPass, StepPass, FailPass, BackoffExpires, Cancel, AskFor, Deliver,
           Babysit, Get, Ready, Create, Start, Stop, Cleanup, AttemptFails, AgentEnds,
           Probe,
           NothingToRecover, PlanScan, vars
      <3>2. QED
        BY <2>1, <3>1
    <2>7. QED
      BY <2>3, <2>4, <2>5, <2>6 DEF Next, AttemptStep, ScanStep
  <1>3. engine' \in {"booting", "up", "unattached"}
    <2>1. engine' = engine \/ engine' \in {"booting", "up", "unattached"}
      BY DEF Next, StartPass, StepPass, FailPass, BackoffExpires, Cancel, AskFor, Deliver,
         Babysit, AttemptStep, Get, Ready, Create, Start, Mark, Stop, Cleanup, AttemptFails,
         AgentEnds, IdleTimeout, Orchestrate, KeepSessionRef, EndRun, CleanupRun,
         RecoverTimedOut, OrchestratorThrows, EndFails, ScanStep, Probe, NothingToRecover,
         PlanScan, Recover, ActOn,
         EndScan, ScanFails, AbortScan, Boot, Crash, vars
    <2>2. QED
      BY <1>0, <2>1 DEF HostOK
  <1>4. QED
    BY <1>1, <1>2, <1>3 DEF HostOK

(* The sessions that tasks name, and what the scan makes of them. *)
LEMMA NamedSessions ==
  ASSUME TypeOK
  PROVE  Named \in SUBSET Sessions
  BY DEF Named, TypeOK, WorkflowInv, TaskInv, TaskNode

LEMMA PlanRecoveryType ==
  ASSUME TypeOK, NEW probes, NEW cancelled, NEW stale
  PROVE  PlanRecovery(wf, probes, cancelled, stale) \in SUBSET RecoveryActions
  <1>1. ASSUME NEW t \in Tasks, NEW kind, kind # Unset,
               kind = RecoveryKind(wf.graph[t], probes, cancelled, t \in stale)
        PROVE  RecoveryAction(wf, t, kind) \in RecoveryActions
    <2>1. /\ wf.graph[t].runs \in Seq(NodeRun)
          /\ wf.graph[t].executionStatus \in ExecutionStatuses
          /\ wf.graph[t].sessionId \in Sessions \cup {Unset}
      BY DEF TypeOK, WorkflowInv, TaskInv, TaskNode
    <2>2. Len(wf.graph[t].runs) \in Nat
      BY <2>1
    <2>3. kind \in ActionKinds
      BY <1>1 DEF RecoveryKind, ActionKinds
    <2>4. QED
      BY <2>1, <2>2, <2>3 DEF RecoveryAction, RecoveryActions
  <1>2. QED
    BY <1>1 DEF PlanRecovery

LEMMA ScanType ==
  ASSUME TypeOK, [Next]_vars
  PROVE  scan' \in ScanState
  <1>1. CASE Probe
    <2>1. Named \in SUBSET Sessions /\ [s \in Named |-> agent[s]] \in [Named -> AgentStates]
      BY NamedSessions DEF TypeOK, HostOK
    <2>2. [s \in Named |-> agent[s]] \in ProbeResults
      BY <2>1 DEF ProbeResults
    <2>3. (wf.status = "cancelled") \in BOOLEAN
      OBVIOUS
    <2>4. QED
      BY <1>1, <2>2, <2>3 DEF Probe, ScanState
  <1>2. CASE PlanScan
    <2>1. scan \in [at: {"probed"}, probes: ProbeResults, cancelled: BOOLEAN]
      BY <1>2 DEF PlanScan, TypeOK, ScanState, IdleScan
    <2>2. PICK stale : scan' = [at |-> "acting", probes |-> scan.probes,
                                todo |-> PlanRecovery(wf, scan.probes, scan.cancelled, stale)]
      BY <1>2 DEF PlanScan
    <2>3. PlanRecovery(wf, scan.probes, scan.cancelled, stale) \in SUBSET RecoveryActions
      BY PlanRecoveryType
    <2>4. scan.probes \in ProbeResults
      BY <2>1
    <2>5. QED
      BY <2>2, <2>3, <2>4 DEF ScanState
  <1>3. CASE Recover
    <2>1. scan \in [at: {"acting"}, probes: ProbeResults, todo: SUBSET RecoveryActions]
      BY <1>3, ActingType DEF Recover
    <2>2. scan' = IdleScan \/ scan' = [scan EXCEPT !.todo = @ \ {NextAction}]
      BY <1>3 DEF Recover, ActOn, AbortScan
    <2>3. QED
      BY <2>1, <2>2 DEF ScanState
  <1>4. CASE EndScan \/ ScanFails \/ Crash
    BY <1>4 DEF EndScan, ScanFails, AbortScan, Crash, ScanState
  <1>5. CASE \/ \E i \in Passes : StartPass(i) \/ StepPass(i) \/ FailPass(i)
             \/ \E t \in Tasks : \/ BackoffExpires(t) \/ Cancel(t)
                                 \/ \E plan \in OperatorPlans : AskFor(t, plan)
                                 \/ \E kind \in DeliveryKinds : Deliver(t, kind)
                                 \/ Babysit(t)
             \/ \E a \in Attempts : AttemptStep(a) \/ AttemptFails(a)
             \/ \E s \in Sessions : \/ AgentEnds(s) \/ IdleTimeout(s) \/ Orchestrate(s)
                                    \/ OrchestratorThrows(s) \/ EndFails(s)
             \/ NothingToRecover \/ UNCHANGED vars
    <2>1. scan' = scan
      BY <1>5 DEF StartPass, StepPass, FailPass, BackoffExpires, Cancel, AskFor, Deliver,
         Babysit,
         AttemptStep, Get, Ready, Create, Start, Mark, Stop, Cleanup, AttemptFails,
         AgentEnds, IdleTimeout, Orchestrate, KeepSessionRef, EndRun, CleanupRun,
         RecoverTimedOut, OrchestratorThrows, EndFails, NothingToRecover, vars
    <2>2. QED
      BY <2>1 DEF TypeOK
  <1>6. QED
    BY <1>1, <1>2, <1>3, <1>4, <1>5 DEF Next, ScanStep

LEMMA CountersType ==
  ASSUME TypeOK, [Next]_vars
  PROVE  CountersOK'
  <1>0. kicks \in Nat /\ faults \in Nat /\ crashes \in Nat /\ calls \in Nat
    BY DEF TypeOK, CountersOK
  <1>1. kicks' \in Nat
    <2>1. \/ kicks' = kicks \/ kicks' = kicks + 1 \/ kicks' \in {0, 1}
          \/ kicks > 0 /\ kicks' = kicks - 1
      BY DEF Next, StartPass, StepPass, FailPass, BackoffExpires, Cancel, AskFor, Deliver,
         Babysit,
         AttemptStep, Get, Ready, Create, Start, Mark, Stop, Cleanup, AttemptFails,
         AgentEnds, IdleTimeout, Orchestrate, KeepSessionRef, EndRun, CleanupRun,
         RecoverTimedOut, OrchestratorThrows, EndFails, ScanStep, Probe, NothingToRecover,
         PlanScan, Recover, ActOn,
         EndScan, ScanFails, AbortScan, Boot, Crash, Store, vars, store
    <2>2. QED
      BY <1>0, <2>1
  <1>2. faults' \in Nat /\ crashes' \in Nat /\ calls' \in Nat
    <2>1. /\ faults' = faults \/ faults' = faults + 1
          /\ crashes' = crashes \/ crashes' = crashes + 1
          /\ calls' = calls \/ calls' = calls + 1
      BY DEF Next, StartPass, StepPass, FailPass, BackoffExpires, Cancel, AskFor, Deliver,
         Babysit,
         AttemptStep, Get, Ready, Create, Start, Mark, Stop, StopSession, Cleanup, AttemptFails,
         AgentEnds, IdleTimeout, Orchestrate, KeepSessionRef, EndRun, CleanupRun,
         RecoverTimedOut, OrchestratorThrows, EndFails, ScanStep, Probe, NothingToRecover,
         PlanScan, Recover,
         EndScan, ScanFails, Crash, Fault, vars, budget
    <2>2. QED
      BY <1>0, <2>1
  <1>3. QED
    BY <1>1, <1>2 DEF CountersOK

(* The workflow is a sound one after every command. *)
LEMMA WorkflowStep ==
  ASSUME TypeOK, [Next]_vars
  PROVE  WorkflowInv(wf')
  <1>1. WorkflowInv(wf)
    BY DEF TypeOK
  <1>2. ASSUME NEW c \in TransitionCommand, Accepts(c), NEW n, n = TransitionTask(wf, c)
        PROVE  WorkflowInv(n)
    BY <1>1, <1>2, CommandEffect
  <1>3. QED
    BY <1>1, <1>2, WhoCommands DEF Commanded

LEMMA TypeStep ==
  ASSUME TypeOK, [Next]_vars
  PROVE  TypeOK'
  BY CallsType, HostType, ScanType, CountersType, WorkflowStep DEF TypeOK

LEMMA TypeInit == Init => TypeOK
  BY NewWorkflowInv DEF Init, TypeOK, HostOK, SchedulerOK, CountersOK, AgentStates,
     WatchStates, ScanState, IdleScan

(* Whatever is dispatched, recovered, lost or restarted, the store, the    *)
(* agents, the claims, the calls and the scan are of their declared types, *)
(* and the workflow has one open run exactly for each running task.        *)
THEOREM DispatchTypes == Spec => []TypeOK
  <1>1. TypeOK /\ [Next]_vars => TypeOK'
    BY TypeStep
  <1>2. QED
    BY <1>1, TypeInit, PTL DEF Spec

-----------------------------------------------------------------------------
(* Claims *)

ClaimInv == ClaimIsHeld /\ OneClaimEach

(* A pass that goes on to a task that is not in flight claims it alone, if *)
(* what is in flight is claimed by the other passes and the calls.         *)
LEMMA GoOnClaims ==
  ASSUME TypeOK, NEW i \in Passes, NEW plan \in SUBSET Tasks, NEW flying,
         GoOn(i, plan, flying),
         flying = {t \in Tasks : \/ attempt'[t, "scheduler"] # Unset
                                 \/ \E j \in Heads \ {i} : FirstOf(pass[j]) = t},
         \A j \in Heads \ {i} : attempt'[FirstOf(pass[j]), "scheduler"] = Unset,
         \A j, k \in Heads \ {i} : FirstOf(pass[j]) = FirstOf(pass[k]) => j = k
  PROVE  ClaimInv'
  <1> DEFINE rest == Remaining(plan, flying)
  <1>1. rest \in SUBSET Tasks
    BY RemainingType
  <1>2. rest # {} => FirstOf(rest) \in Tasks \ flying
    BY RemainingShape
  <1>3. /\ pass' = [pass EXCEPT ![i] = rest]
        /\ inFlight' = IF rest = {} THEN flying ELSE flying \cup {FirstOf(rest)}
    BY DEF GoOn
  <1> HIDE DEF rest
  <1>4. pass' \in [Passes -> SUBSET Tasks] /\ pass'[i] = rest
    BY <1>1, <1>3 DEF TypeOK, SchedulerOK
  <1>5. \A j \in Passes \ {i} : pass'[j] = pass[j]
    BY <1>3 DEF TypeOK, SchedulerOK
  <1>6. Heads' = (Heads \ {i}) \cup (IF rest = {} THEN {} ELSE {i})
    BY <1>4, <1>5 DEF Heads
  <1>7. OneClaimEach'
    <2>1. \A j \in Heads' : attempt'[FirstOf(pass'[j]), "scheduler"] = Unset
      BY <1>2, <1>4, <1>5, <1>6 DEF Heads
    <2>2. \A j, k \in Heads' : FirstOf(pass'[j]) = FirstOf(pass'[k]) => j = k
      <3>1. \A j \in Heads \ {i} : FirstOf(pass[j]) \in Tasks
        BY FirstOfPlan DEF Heads, TypeOK, SchedulerOK
      <3>2. \A j \in Heads \ {i} : FirstOf(pass[j]) \in flying
        BY <3>1
      <3>3. \A j \in Heads \ {i} : rest # {} => FirstOf(pass[j]) # FirstOf(rest)
        BY <1>2, <3>2
      <3>4. QED
        BY <1>4, <1>5, <1>6, <3>3 DEF Heads
    <2>3. QED
      BY <2>1, <2>2 DEF OneClaimEach
  <1>8. ClaimIsHeld'
    <2>1. inFlight' = {t \in Tasks : \/ attempt'[t, "scheduler"] # Unset
                                     \/ \E j \in Heads' : FirstOf(pass'[j]) = t}
      BY <1>2, <1>3, <1>4, <1>5, <1>6 DEF Heads
    <2>2. \A t : (\E j \in Heads' : FirstOf(pass'[j]) = t)
                   <=> \E j \in Passes : pass'[j] # {} /\ FirstOf(pass'[j]) = t
      BY DEF Heads
    <2>3. QED
      BY <2>1, <2>2 DEF ClaimIsHeld
  <1>9. QED
    BY <1>7, <1>8 DEF ClaimInv

(* The claims, said with the heads of the passes. *)
LEMMA ClaimsByHead ==
  ASSUME TypeOK, ClaimInv
  PROVE  /\ inFlight = {t \in Tasks : \/ attempt[t, "scheduler"] # Unset
                                      \/ \E j \in Heads : FirstOf(pass[j]) = t}
         /\ \A j \in Heads : /\ attempt[FirstOf(pass[j]), "scheduler"] = Unset
                             /\ FirstOf(pass[j]) \in Tasks
         /\ \A j, k \in Heads : FirstOf(pass[j]) = FirstOf(pass[k]) => j = k
         /\ attempt \in [Attempts -> AttemptState \cup {Unset}]
  <1>1. \A j \in Heads : FirstOf(pass[j]) \in Tasks
    BY FirstOfPlan DEF Heads, TypeOK, SchedulerOK
  <1>2. \A t : (\E j \in Heads : FirstOf(pass[j]) = t)
                 <=> \E j \in Passes : pass[j] # {} /\ FirstOf(pass[j]) = t
    BY DEF Heads
  <1>3. QED
    BY <1>1, <1>2 DEF ClaimInv, ClaimIsHeld, OneClaimEach, TypeOK

(* A call that goes on keeps its claim; one that ends gives it up. *)
LEMMA CallGoesOn ==
  ASSUME TypeOK, ClaimInv, UNCHANGED <<pass, inFlight>>,
         \A t \in Tasks : (attempt'[t, "scheduler"] = Unset)
                            <=> (attempt[t, "scheduler"] = Unset)
  PROVE  ClaimInv'
  <1>1. \A j \in Heads : FirstOf(pass[j]) \in Tasks
    BY ClaimsByHead
  <1>2. Heads' = Heads
    BY DEF Heads
  <1>3. OneClaimEach'
    BY <1>1, <1>2 DEF ClaimInv, OneClaimEach
  <1>4. ClaimIsHeld'
    BY DEF ClaimInv, ClaimIsHeld
  <1>5. QED
    BY <1>3, <1>4 DEF ClaimInv

LEMMA CallEnds ==
  ASSUME TypeOK, ClaimInv, NEW a \in Attempts, attempt[a] # Unset,
         Fail(a) \/ Succeed(a)
  PROVE  ClaimInv'
  <1> DEFINE t == TaskOf(a)
  <1>1. attempt' = [attempt EXCEPT ![a] = Unset] /\ pass' = pass /\ attempt'[a] = Unset
    BY DEF Fail, Succeed, TypeOK
  <1>2. Heads' = Heads
    BY <1>1 DEF Heads
  <1>3. t \in Tasks /\ a \in {<<t, "scheduler">>, <<t, "operator">>, <<t, "babysitter">>}
    BY DEF Attempts, TaskOf
  <1>4. CASE ByScheduler(a)
    <2>1. a = <<t, "scheduler">>
      BY <1>3, <1>4 DEF ByScheduler
    <2>2. inFlight' = inFlight \ {t}
      BY <1>4 DEF Fail, Succeed
    <2>3. \A u \in Tasks \ {t} : attempt'[u, "scheduler"] = attempt[u, "scheduler"]
      <3>1. \A u \in Tasks \ {t} : <<u, "scheduler">> \in Attempts \ {a}
        BY <2>1 DEF Attempts
      <3>2. \A b \in Attempts \ {a} : attempt'[b] = attempt[b]
        BY <1>1 DEF TypeOK
      <3>3. QED
        BY <3>1, <3>2
    <2>4. \A j \in Heads : FirstOf(pass[j]) # t
      BY <2>1 DEF ClaimInv, OneClaimEach
    <2>5. inFlight = {u \in Tasks : \/ attempt[u, "scheduler"] # Unset
                                    \/ \E j \in Passes : pass[j] # {} /\ FirstOf(pass[j]) = u}
      BY DEF ClaimInv, ClaimIsHeld
    <2>6. \A j \in Passes : pass[j] # {} => FirstOf(pass[j]) # t
      BY <2>4 DEF Heads
    <2>7. attempt'[t, "scheduler"] = Unset
      BY <1>1, <2>1
    <2> HIDE DEF t
    <2>8. inFlight' = {u \in Tasks : \/ attempt'[u, "scheduler"] # Unset
                                     \/ \E j \in Passes : pass[j] # {} /\ FirstOf(pass[j]) = u}
      BY <1>3, <2>2, <2>3, <2>5, <2>6, <2>7
    <2>9. ClaimIsHeld'
      BY <1>1, <2>8 DEF ClaimIsHeld
    <2>10. \A j \in Heads : FirstOf(pass[j]) \in Tasks
      BY ClaimsByHead
    <2>11. OneClaimEach'
      BY <1>1, <1>2, <2>3, <2>4, <2>10 DEF OneClaimEach, ClaimInv
    <2>12. QED
      BY <2>9, <2>11 DEF ClaimInv
  <1>5. CASE ~ByScheduler(a)
    <2>1. inFlight' = inFlight
      BY <1>5 DEF Fail, Succeed
    <2>2. \A u \in Tasks : a # <<u, "scheduler">>
      BY <1>5 DEF ByScheduler
    <2>3. \A u \in Tasks : attempt'[u, "scheduler"] = attempt[u, "scheduler"]
      BY <1>1, <2>2 DEF TypeOK, Attempts
    <2>4. QED
      BY <1>1, <2>1, <2>3, CallGoesOn
  <1>6. QED
    BY <1>4, <1>5

(* Every step leaves each claim with the pass or the call it was made for. *)
LEMMA ClaimStep ==
  ASSUME TypeOK, ClaimInv, [Next]_vars
  PROVE  ClaimInv'
  <1>0. /\ inFlight = {t \in Tasks : \/ attempt[t, "scheduler"] # Unset
                                     \/ \E j \in Heads : FirstOf(pass[j]) = t}
        /\ \A j \in Heads : /\ attempt[FirstOf(pass[j]), "scheduler"] = Unset
                            /\ FirstOf(pass[j]) \in Tasks
        /\ \A j, k \in Heads : FirstOf(pass[j]) = FirstOf(pass[k]) => j = k
        /\ attempt \in [Attempts -> AttemptState \cup {Unset}]
    BY ClaimsByHead
  <1>1. ASSUME NEW i \in Passes, StartPass(i)
        PROVE  ClaimInv'
    <2>1. /\ GoOn(i, PlanDispatch(wf), inFlight)
          /\ attempt' = attempt
          /\ Heads \ {i} = Heads
      BY <1>1 DEF StartPass, Heads
    <2>2. PlanDispatch(wf) \in SUBSET Tasks
      BY DEF PlanDispatch, Candidates, TasksIn
    <2>3. QED
      BY <1>0, <2>1, <2>2, GoOnClaims
  <1>2. ASSUME NEW i \in Passes, pass[i] # {}, attempt' = attempt,
               GoOn(i, pass[i] \ {FirstOf(pass[i])}, inFlight \ {FirstOf(pass[i])})
        PROVE  ClaimInv'
    <2> DEFINE t == FirstOf(pass[i])
    <2>1. i \in Heads /\ pass[i] \ {t} \in SUBSET Tasks
      BY <1>2 DEF Heads, TypeOK, SchedulerOK
    <2>2. t \in Tasks /\ attempt[t, "scheduler"] = Unset
      BY <1>0, <2>1
    <2>3. \A j \in Heads \ {i} : FirstOf(pass[j]) # t
      BY <1>0, <2>1
    <2>4. GoOn(i, pass[i] \ {t}, inFlight \ {t})
      BY <1>2
    <2> HIDE DEF t
    <2>5. inFlight \ {t} = {u \in Tasks : \/ attempt'[u, "scheduler"] # Unset
                                          \/ \E j \in Heads \ {i} : FirstOf(pass[j]) = u}
      BY <1>0, <1>2, <2>1, <2>2, <2>3 DEF t
    <2>6. QED
      BY <1>0, <1>2, <2>1, <2>4, <2>5, GoOnClaims
  <1>3. ASSUME NEW i \in Passes, pass[i] # {}, Begin(<<FirstOf(pass[i]), "scheduler">>,
                                                     Plan(FirstOf(pass[i]))),
               GoOn(i, pass[i] \ {FirstOf(pass[i])}, inFlight)
        PROVE  ClaimInv'
    <2> DEFINE t == FirstOf(pass[i])
               state == [at |-> "get", plan |-> Plan(t)]
    <2>1. i \in Heads /\ pass[i] \ {t} \in SUBSET Tasks
      BY <1>3 DEF Heads, TypeOK, SchedulerOK
    <2>2. t \in Tasks /\ attempt[t, "scheduler"] = Unset
      BY <1>0, <2>1
    <2>3. \A j \in Heads \ {i} : FirstOf(pass[j]) # t
      BY <1>0, <2>1
    <2>4. GoOn(i, pass[i] \ {t}, inFlight)
      BY <1>3
    <2>5. state \in AttemptState /\ state # Unset
      BY DispatchAssumption DEF Plan, AttemptState
    <2>6. attempt' = [attempt EXCEPT ![<<t, "scheduler">>] = state]
      BY <1>3 DEF Begin
    <2> HIDE DEF t, state
    <2>7. \A u \in Tasks : <<u, "scheduler">> \in Attempts
      BY DEF Attempts
    <2>8. attempt'[t, "scheduler"] # Unset
      BY <1>0, <2>2, <2>5, <2>6, <2>7
    <2>9. \A u \in Tasks \ {t} : attempt'[u, "scheduler"] = attempt[u, "scheduler"]
      BY <1>0, <2>6, <2>7
    <2>10. inFlight = {u \in Tasks : \/ attempt'[u, "scheduler"] # Unset
                                     \/ \E j \in Heads \ {i} : FirstOf(pass[j]) = u}
      BY <1>0, <2>1, <2>2, <2>3, <2>8, <2>9 DEF t
    <2>11. \A j \in Heads \ {i} : attempt'[FirstOf(pass[j]), "scheduler"] = Unset
      BY <1>0, <2>3, <2>9
    <2>12. QED
      BY <1>0, <2>1, <2>4, <2>10, <2>11, GoOnClaims
  <1>4. ASSUME NEW a \in Attempts, NEW state, state \in AttemptState,
               attempt' = [attempt EXCEPT ![a] = state],
               attempt[a] # Unset \/ ~ByScheduler(a), UNCHANGED <<pass, inFlight>>
        PROVE  ClaimInv'
    <2>1. state # Unset
      BY <1>4, DispatchAssumption
    <2>2. \A u \in Tasks : <<u, "scheduler">> \in Attempts /\ ByScheduler(<<u, "scheduler">>)
      BY DEF Attempts, ByScheduler
    <2>3. \A t \in Tasks : (attempt'[t, "scheduler"] = Unset)
                             <=> (attempt[t, "scheduler"] = Unset)
      BY <1>0, <1>4, <2>1, <2>2
    <2>4. QED
      BY <1>4, <2>3, CallGoesOn
  <1>5. ASSUME NEW t \in Tasks, NEW plan \in OperatorPlans, AskFor(t, plan)
        PROVE  ClaimInv'
    <2>1. [at |-> "get", plan |-> plan] \in AttemptState
      BY DispatchAssumption DEF AttemptState
    <2>2. <<t, "operator">> \in Attempts /\ ~ByScheduler(<<t, "operator">>)
      BY DEF Attempts, ByScheduler
    <2>3. /\ attempt' = [attempt EXCEPT ![<<t, "operator">>] = [at |-> "get", plan |-> plan]]
          /\ UNCHANGED <<pass, inFlight>>
      BY <1>5 DEF AskFor, Begin, scheduler
    <2>4. QED
      BY <1>4, <2>1, <2>2, <2>3
  <1>14. ASSUME NEW t \in Tasks, Babysit(t)
         PROVE  ClaimInv'
    <2>1. [at |-> "get", plan |-> "continue"] \in AttemptState
      BY DEF AttemptState
    <2>2. <<t, "babysitter">> \in Attempts /\ ~ByScheduler(<<t, "babysitter">>)
      BY DEF Attempts, ByScheduler
    <2>3. /\ attempt' = [attempt EXCEPT ![<<t, "babysitter">>] =
                           [at |-> "get", plan |-> "continue"]]
          /\ UNCHANGED <<pass, inFlight>>
      BY <1>14 DEF Babysit, Begin, scheduler
    <2>4. QED
      BY <1>4, <2>1, <2>2, <2>3
  <1>6. ASSUME NEW a \in Attempts, Get(a)
        PROVE  ClaimInv'
    BY <1>4, <1>6, GetShape, CallEnds DEF scheduler
  <1>7. ASSUME NEW a \in Attempts, Start(a)
        PROVE  ClaimInv'
    <2>1. UNCHANGED <<pass, inFlight>>
      BY <1>7 DEF Start, scheduler
    <2>2. QED
      BY <1>4, <1>7, <2>1, StartShape
  <1>8. ASSUME NEW a \in Attempts,
               NEW step \in {"ready", "create", "start", "mark", "stop", "cleanup"},
               attempt[a] # Unset, attempt[a].at # "get", MoveTo(a, step), UNCHANGED scheduler
        PROVE  ClaimInv'
    <2>1. attempt[a] \in [at: {"ready", "create", "start", "mark", "stop", "cleanup"},
                          ref: Refs \cup {Unset}, session: Sessions \cup {Unset}]
      BY <1>8, AttemptType
    <2> DEFINE moved == [attempt[a] EXCEPT !.at = step]
    <2>2. moved \in AttemptState
      BY <2>1 DEF AttemptState
    <2>3. attempt' = [attempt EXCEPT ![a] = moved]
      BY <1>8 DEF MoveTo
    <2> HIDE DEF moved
    <2>4. QED
      BY <1>4, <1>8, <2>2, <2>3 DEF scheduler
  <1>9. ASSUME NEW a \in Attempts, Ready(a) \/ Create(a) \/ Mark(a) \/ Stop(a) \/ Cleanup(a)
                                   \/ AttemptFails(a)
        PROVE  ClaimInv'
    <2>1. /\ attempt[a] # Unset /\ attempt[a].at # "get"
          /\ \/ Fail(a) \/ Succeed(a)
             \/ /\ UNCHANGED scheduler
                /\ \/ MoveTo(a, "create") \/ MoveTo(a, "start") \/ MoveTo(a, "stop")
                   \/ MoveTo(a, "cleanup")
      BY <1>9 DEF Ready, Create, Mark, Stop, Cleanup, AttemptFails, At
    <2>2. QED
      BY <1>8, <2>1, CallEnds
  <1>10. CASE Crash
    <2>1. /\ Heads' = {}
          /\ attempt' = [b \in Attempts |-> Unset]
          /\ inFlight' = {}
          /\ pass' = [i \in Passes |-> {}]
      BY <1>10 DEF Crash, Heads
    <2>2. \A t \in Tasks : <<t, "scheduler">> \in Attempts
      BY DEF Attempts
    <2>3. QED
      BY <2>1, <2>2 DEF ClaimInv, ClaimIsHeld, OneClaimEach
  <1>11. CASE \/ \E t \in Tasks : \/ BackoffExpires(t) \/ Cancel(t)
                                  \/ \E kind \in DeliveryKinds : Deliver(t, kind)
              \/ \E s \in Sessions : \/ AgentEnds(s) \/ IdleTimeout(s) \/ Orchestrate(s)
                                     \/ OrchestratorThrows(s) \/ EndFails(s)
              \/ ScanStep \/ ScanFails \/ UNCHANGED vars
    <2>1. UNCHANGED <<attempt, pass, inFlight>>
      BY <1>11 DEF BackoffExpires, Cancel, Deliver, AgentEnds, IdleTimeout, Orchestrate,
         KeepSessionRef, EndRun, CleanupRun, RecoverTimedOut, OrchestratorThrows, EndFails,
         ScanStep, Probe,
         NothingToRecover, PlanScan, Recover, EndScan, ScanFails, vars, scheduler
    <2>2. QED
      BY <2>1, CallGoesOn
  <1>12. ASSUME NEW i \in Passes, StepPass(i) \/ FailPass(i)
         PROVE  ClaimInv'
    BY <1>2, <1>3, <1>12 DEF StepPass, FailPass
  <1>13. QED
    BY <1>1, <1>5, <1>6, <1>7, <1>9, <1>10, <1>11, <1>12, <1>14 DEF Next, AttemptStep

-----------------------------------------------------------------------------
(* Agents *)

Holds(a, s) == (At(a, "mark") \/ At(a, "stop")) /\ attempt[a].session = s

Held(s) == watch[s] = "attached" \/ s \in abandoned \/ \E a \in Attempts : Holds(a, s)

(* An agent let go of stays so. *)
LEMMA AbandonedStay ==
  ASSUME [Next]_vars
  PROVE  abandoned \subseteq abandoned'
  <1>1. CASE \/ \E a \in Attempts : Stop(a)
             \/ \E s \in Sessions : IdleTimeout(s) \/ OrchestratorThrows(s)
    BY <1>1 DEF Stop, IdleTimeout, StopSession, OrchestratorThrows
  <1>2. CASE \/ \E i \in Passes : StartPass(i) \/ StepPass(i) \/ FailPass(i)
             \/ \E t \in Tasks : \/ BackoffExpires(t) \/ Cancel(t)
                                 \/ \E plan \in OperatorPlans : AskFor(t, plan)
                                 \/ \E kind \in DeliveryKinds : Deliver(t, kind)
                                 \/ Babysit(t)
             \/ \E a \in Attempts : \/ Get(a) \/ Ready(a) \/ Create(a) \/ Start(a)
                                    \/ Mark(a) \/ Cleanup(a) \/ AttemptFails(a)
             \/ \E s \in Sessions : AgentEnds(s) \/ Orchestrate(s) \/ EndFails(s)
             \/ ScanStep \/ ScanFails \/ Crash \/ UNCHANGED vars
    BY <1>2 DEF StartPass, StepPass, FailPass, BackoffExpires, Cancel, AskFor, Deliver,
       Babysit, Get, Ready, Create, Start, Mark, Cleanup, AttemptFails, AgentEnds,
       Orchestrate, KeepSessionRef, EndRun, CleanupRun, RecoverTimedOut, EndFails,
       ScanStep, Probe, NothingToRecover, PlanScan, Recover, EndScan, ScanFails, Crash,
       vars, host
  <1>3. QED
    BY <1>1, <1>2 DEF Next, AttemptStep

(* A call that has no session yet, or whose session has been stopped, ends *)
(* or goes on without letting go of an agent.                              *)
LEMMA IdleCallHolds ==
  ASSUME TypeOK, NEW a \in Attempts, NEW x, attempt' = [attempt EXCEPT ![a] = x],
         ~At(a, "mark"), ~At(a, "stop"), watch' = watch, abandoned \subseteq abandoned',
         NEW s \in Sessions, Held(s)
  PROVE  Held(s)'
  <1>1. \A b \in Attempts \ {a} : attempt'[b] = attempt[b]
    BY DEF TypeOK
  <1>2. \A b \in Attempts : Holds(b, s) => b # a
    BY DEF Holds
  <1>3. QED
    BY <1>1, <1>2 DEF Held, Holds, At

(* Every step leaves each live agent with its call or its orchestrator. *)
LEMMA WatchStep ==
  ASSUME TypeOK, ClaimInv, LiveAgentIsWatched, [Next]_vars
  PROVE  LiveAgentIsWatched'
  <1>0. /\ \A s \in Sessions : agent[s] = "live" /\ crashes = 0 => Held(s)
        /\ attempt \in [Attempts -> AttemptState \cup {Unset}]
        /\ agent \in [Sessions -> AgentStates] /\ watch \in [Sessions -> WatchStates]
        /\ abandoned \subseteq abandoned'
    BY AbandonedStay DEF LiveAgentIsWatched, Held, Holds, TypeOK, HostOK
  <1> DEFINE Goal == \A s \in Sessions : agent'[s] = "live" /\ crashes' = 0 => Held(s)'
  <1>1. ASSUME NEW a \in Attempts, NEW x, attempt' = [attempt EXCEPT ![a] = x],
               ~At(a, "mark"), ~At(a, "stop"), UNCHANGED <<agent, watch, crashes>>
        PROVE  Goal
    BY <1>0, <1>1, IdleCallHolds
  <1>2. ASSUME UNCHANGED <<agent, watch, attempt, crashes>>
        PROVE  Goal
    BY <1>0, <1>2 DEF Held, Holds, At
  <1>3. ASSUME NEW i \in Passes, StepPass(i)
        PROVE  Goal
    <2> DEFINE t == FirstOf(pass[i])
    <2>1. i \in Heads
      BY <1>3 DEF StepPass, Heads
    <2>2. attempt[t, "scheduler"] = Unset /\ t \in Tasks
      BY <2>1, ClaimsByHead
    <2>3. /\ attempt' = attempt \/ Begin(<<t, "scheduler">>, Plan(t))
          /\ UNCHANGED <<agent, watch, crashes>>
      BY <1>3 DEF StepPass, host, budget
    <2>4. <<t, "scheduler">> \in Attempts /\ ~At(<<t, "scheduler">>, "mark")
                                          /\ ~At(<<t, "scheduler">>, "stop")
      BY <2>2 DEF At, Attempts
    <2> HIDE DEF t
    <2>5. QED
      BY <1>1, <1>2, <2>3, <2>4 DEF Begin
  <1>4. ASSUME NEW t \in Tasks, NEW plan \in OperatorPlans, AskFor(t, plan)
        PROVE  Goal
    <2>1. /\ attempt[t, "operator"] = Unset
          /\ Begin(<<t, "operator">>, plan)
          /\ UNCHANGED <<agent, watch, crashes>>
      BY <1>4 DEF AskFor, host
    <2>2. <<t, "operator">> \in Attempts /\ ~At(<<t, "operator">>, "mark")
                                         /\ ~At(<<t, "operator">>, "stop")
      BY <2>1 DEF At, Attempts
    <2>3. QED
      BY <1>1, <2>1, <2>2 DEF Begin
  <1>21. ASSUME NEW t \in Tasks, Babysit(t)
         PROVE  Goal
    <2>1. /\ attempt[t, "babysitter"] = Unset
          /\ Begin(<<t, "babysitter">>, "continue")
          /\ UNCHANGED <<agent, watch, crashes>>
      BY <1>21 DEF Babysit, host, budget
    <2>2. <<t, "babysitter">> \in Attempts /\ ~At(<<t, "babysitter">>, "mark")
                                           /\ ~At(<<t, "babysitter">>, "stop")
      BY <2>1 DEF At, Attempts
    <2>3. QED
      BY <1>1, <2>1, <2>2 DEF Begin
  <1>5. ASSUME NEW a \in Attempts, Get(a) \/ Ready(a) \/ Create(a) \/ Cleanup(a)
        PROVE  Goal
    <2>1. ~At(a, "mark") /\ ~At(a, "stop") /\ UNCHANGED <<agent, watch, crashes>>
      BY <1>5 DEF Get, Ready, Create, Cleanup, At, host, budget
    <2>2. \E x : attempt' = [attempt EXCEPT ![a] = x]
      BY <1>5, GetShape DEF Ready, Create, Cleanup, MoveTo, Fail
    <2>3. QED
      BY <1>1, <2>1, <2>2
  <1>6. ASSUME NEW a \in Attempts, Start(a)
        PROVE  Goal
    <2>1. PICK s \in Sessions, state \in AttemptState :
            /\ attempt[a] # Unset /\ attempt[a].at = "start"
            /\ agent' = [agent EXCEPT ![s] = "live"]
            /\ attempt' = [attempt EXCEPT ![a] = state]
            /\ state.at = "mark" /\ state.session = s
      BY <1>6, StartShape
    <2>2. watch' = watch /\ crashes' = crashes
      BY <1>6 DEF Start, budget
    <2>3. state # Unset /\ attempt'[a] = state
      BY <1>0, <2>1, DispatchAssumption
    <2>4. Held(s)'
      BY <2>1, <2>3 DEF Held, Holds, At
    <2>5. ASSUME NEW r \in Sessions, r # s, agent'[r] = "live", crashes' = 0
          PROVE  Held(r)'
      <3>1. Held(r)
        BY <1>0, <2>1, <2>2, <2>5
      <3>2. ~At(a, "mark") /\ ~At(a, "stop")
        BY <2>1 DEF At
      <3>3. QED
        BY <1>0, <2>1, <2>2, <3>1, <3>2, IdleCallHolds
    <2>6. QED
      BY <2>4, <2>5
  <1>7. ASSUME NEW a \in Attempts, attempt[a] # Unset, attempt[a].at \in {"mark", "stop"},
               MoveTo(a, "stop"), UNCHANGED <<agent, watch, crashes>>
        PROVE  Goal
    <2>1. attempt[a] \in [at: {"ready", "create", "start", "mark", "stop", "cleanup"},
                          ref: Refs \cup {Unset}, session: Sessions \cup {Unset}]
      BY <1>7, AttemptType
    <2> DEFINE moved == [attempt[a] EXCEPT !.at = "stop"]
    <2>2. moved.at = "stop" /\ moved.session = attempt[a].session /\ moved \in AttemptState
      BY <2>1 DEF AttemptState
    <2>3. attempt' = [attempt EXCEPT ![a] = moved]
      BY <1>7 DEF MoveTo
    <2> HIDE DEF moved
    <2>4. attempt'[a] = moved /\ \A b \in Attempts \ {a} : attempt'[b] = attempt[b]
      BY <1>0, <2>3
    <2>5. moved # Unset
      BY <2>2, DispatchAssumption
    <2>6. \A b \in Attempts, s \in Sessions : Holds(b, s) => Holds(b, s)'
      BY <2>2, <2>4, <2>5 DEF Holds, At
    <2>7. QED
      BY <1>0, <1>7, <2>6 DEF Held
  <1>8. ASSUME NEW a \in Attempts, Mark(a)
        PROVE  Goal
    <2>1. attempt[a] # Unset /\ attempt[a].at = "mark" /\ UNCHANGED <<agent, crashes>>
      BY <1>8 DEF Mark, At, host, budget
    <2>2. CASE MoveTo(a, "stop") /\ watch' = watch
      BY <1>7, <2>1, <2>2
    <2>3. CASE /\ watch' = [watch EXCEPT ![attempt[a].session] = "attached"]
               /\ attempt' = [attempt EXCEPT ![a] = Unset]
      <3>1. ASSUME NEW s \in Sessions, Held(s)
            PROVE  Held(s)'
        <4>1. CASE watch[s] = "attached" \/ s \in abandoned \/ attempt[a].session = s
          BY <1>0, <2>3, <4>1 DEF Held
        <4>2. CASE watch[s] # "attached" /\ s \notin abandoned /\ attempt[a].session # s
          <5>1. PICK b \in Attempts : Holds(b, s)
            BY <3>1, <4>2 DEF Held
          <5>2. b # a /\ attempt'[b] = attempt[b]
            BY <1>0, <2>3, <4>2, <5>1 DEF Holds
          <5>3. Holds(b, s)'
            BY <5>1, <5>2 DEF Holds, At
          <5>4. QED
            BY <5>3 DEF Held
        <4>3. QED
          BY <4>1, <4>2
      <3>2. QED
        BY <1>0, <2>1, <3>1
    <2>4. QED
      BY <1>8, <2>2, <2>3 DEF Mark, Succeed
  <1>9. ASSUME NEW a \in Attempts, Stop(a)
        PROVE  Goal
    <2>1. /\ attempt[a] # Unset /\ attempt[a].at = "stop" /\ UNCHANGED <<watch, crashes>>
          /\ \/ agent' = [agent EXCEPT ![attempt[a].session] = "missing"]
             \/ agent' = agent /\ abandoned' = abandoned \cup {attempt[a].session}
          /\ MoveTo(a, "cleanup")
      BY <1>9 DEF Stop, StopSession, Fault, At, budget
    <2>2. \A b \in Attempts \ {a} : attempt'[b] = attempt[b]
      BY <1>0, <2>1 DEF MoveTo
    <2>3. ASSUME NEW s \in Sessions, agent'[s] = "live", crashes' = 0
          PROVE  Held(s)'
      <3>1. agent[s] = "live" /\ (attempt[a].session # s \/ s \in abandoned')
        BY <1>0, <2>1, <2>3
      <3>2. Held(s)
        BY <1>0, <2>1, <2>3, <3>1
      <3>3. CASE attempt[a].session # s
        <4>1. \A b \in Attempts : Holds(b, s) => b # a
          BY <3>3 DEF Holds
        <4>2. QED
          BY <1>0, <2>1, <2>2, <3>2, <4>1 DEF Held, Holds, At
      <3>4. QED
        BY <3>1, <3>3 DEF Held
    <2>4. QED
      BY <2>3
  <1>10. ASSUME NEW a \in Attempts, AttemptFails(a)
         PROVE  Goal
    <2>1. UNCHANGED <<agent, watch, crashes>>
      BY <1>10 DEF AttemptFails, Fault, host, budget
    <2>2. CASE At(a, "mark") /\ MoveTo(a, "stop")
      BY <1>7, <2>1, <2>2 DEF At
    <2>3. CASE /\ ~At(a, "mark") /\ ~At(a, "stop")
               /\ Fail(a) \/ MoveTo(a, "cleanup")
      <3>1. \E x : attempt' = [attempt EXCEPT ![a] = x]
        BY <2>3 DEF Fail, MoveTo
      <3>2. QED
        BY <1>1, <2>1, <2>3, <3>1
    <2>4. QED
      BY <1>10, <2>2, <2>3 DEF AttemptFails, At
  <1>11. ASSUME attempt' = attempt, crashes' = crashes,
                \A s \in Sessions : agent'[s] = "live" => agent[s] = "live",
                \A s \in Sessions : watch[s] = "attached" /\ agent'[s] = "live"
                                      => watch'[s] = "attached" \/ s \in abandoned'
         PROVE  Goal
    BY <1>0, <1>11 DEF Held, Holds, At
  <1>12. ASSUME NEW s \in Sessions, AgentEnds(s)
         PROVE  Goal
    BY <1>0, <1>11, <1>12 DEF AgentEnds, budget
  <1>13. ASSUME NEW s \in Sessions, IdleTimeout(s) \/ OrchestratorThrows(s)
         PROVE  Goal
    <2>1. attempt' = attempt /\ crashes' = crashes
      BY <1>13 DEF IdleTimeout, StopSession, OrchestratorThrows, Fault, budget
    <2>2. \A r \in Sessions \ {s} : watch'[r] = watch[r]
      BY <1>0, <1>13 DEF IdleTimeout, OrchestratorThrows
    <2>3. /\ \A r \in Sessions : agent'[r] = "live" => agent[r] = "live"
          /\ agent'[s] # "live" \/ s \in abandoned'
      BY <1>0, <1>13 DEF IdleTimeout, StopSession, OrchestratorThrows
    <2>4. QED
      BY <1>11, <2>1, <2>2, <2>3
  <1>14. ASSUME NEW s \in Sessions, NEW x, watch' = [watch EXCEPT ![s] = x],
                UNCHANGED <<agent, attempt, crashes>>,
                watch[s] # "attached" \/ agent[s] # "live"
         PROVE  Goal
    BY <1>0, <1>11, <1>14
  <1>15. ASSUME NEW s \in Sessions, Orchestrate(s) \/ EndFails(s)
         PROVE  Goal
    <2>1. UNCHANGED <<agent, attempt, crashes>> /\ (watch[s] # "attached" \/ agent[s] # "live")
      BY <1>15 DEF Orchestrate, KeepSessionRef, EndRun, CleanupRun, RecoverTimedOut,
         EndFails, Fault, host, budget
    <2>2. \E x : watch' = [watch EXCEPT ![s] = x]
      <3>1. ASSUME NEW kind \in Ends, EndRun(s, kind)
            PROVE  \E x : watch' = [watch EXCEPT ![s] = x]
        BY <3>1 DEF EndRun
      <3>2. QED
        BY <1>15, <3>1 DEF Orchestrate, KeepSessionRef, CleanupRun, RecoverTimedOut,
           EndFails
    <2>3. QED
      BY <1>14, <2>1, <2>2
  <1>16. ASSUME Recover \/ EndScan \/ ScanFails
         PROVE  Goal
    <2>1. \A respawned : Boot(respawned) =>
            \A s \in Sessions : watch[s] = "attached" => watch'[s] = "attached"
      BY DEF Boot
    <2>2. \A s \in Sessions : watch[s] = "attached" => watch'[s] = "attached"
      <3>1. CASE Recover
        BY <2>1, <3>1 DEF Recover, ActOn, AbortScan
      <3>2. CASE EndScan
        BY <2>1, <3>2 DEF EndScan
      <3>3. CASE ScanFails
        BY <2>1, <3>3 DEF ScanFails, AbortScan
      <3>4. QED
        BY <1>16, <3>1, <3>2, <3>3
    <2>3. /\ attempt' = attempt /\ crashes' = crashes
          /\ \A s \in Sessions : agent'[s] = "live" => agent[s] = "live"
      BY <1>0, <1>16 DEF Recover, EndScan, ScanFails, AfterStop, Fault, host, budget
    <2>4. QED
      BY <1>11, <2>2, <2>3
  <1>17. ASSUME Crash
         PROVE  Goal
    <2>1. crashes' = crashes + 1 /\ crashes \in Nat
      BY <1>17 DEF Crash, TypeOK, CountersOK
    <2>2. crashes' # 0
      BY <2>1
    <2>3. QED
      BY <2>2
  <1>18. ASSUME \/ \E i \in Passes : StartPass(i) \/ FailPass(i)
                \/ \E t \in Tasks : \/ BackoffExpires(t) \/ Cancel(t)
                                    \/ \E kind \in DeliveryKinds : Deliver(t, kind)
                \/ Probe \/ NothingToRecover \/ PlanScan \/ UNCHANGED vars
         PROVE  Goal
    <2>1. UNCHANGED <<agent, watch, attempt, crashes>>
      BY <1>18 DEF StartPass, FailPass, BackoffExpires, Cancel, Deliver, Probe,
         NothingToRecover, PlanScan, Fault, vars, host, budget
    <2>2. QED
      BY <1>2, <2>1
  <1>19. Goal
    BY <1>3, <1>4, <1>5, <1>6, <1>8, <1>9, <1>10, <1>12, <1>13, <1>15, <1>16, <1>17,
       <1>18, <1>21
       DEF Next, AttemptStep, ScanStep
  <1>20. QED
    BY <1>19 DEF LiveAgentIsWatched, Held, Holds, At

LEMMA LeakInit == Init => LeakInv
  <1> SUFFICES ASSUME Init PROVE LeakInv
    OBVIOUS
  <1>1. Heads = {}
    BY DEF Init, Heads
  <1>2. \A t \in Tasks : <<t, "scheduler">> \in Attempts
    BY DEF Attempts
  <1>3. ClaimIsHeld /\ OneClaimEach
    BY <1>1, <1>2 DEF Init, ClaimIsHeld, OneClaimEach
  <1>4. LiveAgentIsWatched
    BY DEF Init, LiveAgentIsWatched
  <1>5. QED
    BY <1>3, <1>4, TypeInit DEF LeakInv

(* Whoever competes for a task, and whatever step fails, the tasks in      *)
(* flight are those being dispatched and those a pass is at, and until the *)
(* engine crashes every live agent has an orchestrator or a call that is   *)
(* about to record it or to stop it, unless its orchestrator threw or the  *)
(* stop that was meant for it failed.                                      *)
THEOREM NothingLeaks == Spec => []NothingIsLeaked
  <1>1. LeakInv /\ [Next]_vars => LeakInv'
    BY TypeStep, ClaimStep, WatchStep DEF LeakInv, ClaimInv
  <1>2. LeakInv => NothingIsLeaked
    BY DEF LeakInv, NothingIsLeaked
  <1>3. QED
    BY <1>1, <1>2, LeakInit, PTL DEF Spec

-----------------------------------------------------------------------------
(* Fences *)

(* An agent that has ended never works again. *)
LEMMA GoneStays ==
  ASSUME TypeOK, [Next]_vars, NEW s \in Sessions, agent[s] \in Gone
  PROVE  agent'[s] \in Gone
  <1>0. agent \in [Sessions -> AgentStates]
    BY DEF TypeOK, HostOK
  <1>1. ASSUME NEW a \in Attempts, Start(a)
        PROVE  agent'[s] \in Gone
    <2>1. PICK r \in Sessions : agent' = [agent EXCEPT ![r] = "live"] /\ agent[r] = "unused"
      BY <1>1, StartShape
    <2>2. QED
      BY <1>0, <2>1 DEF Gone
  <1>2. CASE \/ \E a \in Attempts : Stop(a)
             \/ \E r \in Sessions : AgentEnds(r) \/ IdleTimeout(r)
    BY <1>0, <1>2 DEF Stop, StopSession, AgentEnds, IdleTimeout, Gone
  <1>3. CASE Recover \/ ScanFails \/ Crash
    BY <1>3 DEF Recover, ScanFails, AfterStop, Crash, Gone
  <1>4. CASE \/ \E i \in Passes : StartPass(i) \/ StepPass(i) \/ FailPass(i)
             \/ \E t \in Tasks : \/ BackoffExpires(t) \/ Cancel(t)
                                 \/ \E plan \in OperatorPlans : AskFor(t, plan)
                                 \/ \E kind \in DeliveryKinds : Deliver(t, kind)
                                 \/ Babysit(t)
             \/ \E a \in Attempts : \/ Get(a) \/ Ready(a) \/ Create(a) \/ Mark(a)
                                    \/ Cleanup(a) \/ AttemptFails(a)
             \/ \E r \in Sessions : Orchestrate(r) \/ OrchestratorThrows(r) \/ EndFails(r)
             \/ Probe \/ NothingToRecover \/ PlanScan \/ EndScan \/ UNCHANGED vars
    <2>1. agent' = agent
      BY <1>4 DEF StartPass, StepPass, FailPass, BackoffExpires, Cancel, AskFor, Deliver,
         Babysit, Get, Ready, Create, Mark, Cleanup, AttemptFails, Orchestrate,
         KeepSessionRef, EndRun, CleanupRun, RecoverTimedOut, OrchestratorThrows, EndFails,
         Probe, NothingToRecover, PlanScan, EndScan, vars, host
    <2>2. QED
      BY <2>1
  <1>5. QED
    BY <1>1, <1>2, <1>3, <1>4 DEF Next, AttemptStep, ScanStep

(* A plan has an action for a run only if the probe found its agent gone,  *)
(* unless the workflow is cancelled.                                       *)
LEMMA PlannedOnProbe ==
  ASSUME NEW probes, NEW cancelled, NEW stale,
         NEW x \in PlanRecovery(wf, probes, cancelled, stale),
         x.sessionId # Unset, x.kind # "stop-runtime"
  PROVE  x.sessionId \in DOMAIN probes /\ probes[x.sessionId] \in Gone
  <1>1. PICK t \in Tasks :
          /\ RecoveryKind(wf.graph[t], probes, cancelled, t \in stale) # Unset
          /\ x = RecoveryAction(wf, t, RecoveryKind(wf.graph[t], probes, cancelled, t \in stale))
    BY DEF PlanRecovery
  <1>2. /\ x.kind = RecoveryKind(wf.graph[t], probes, cancelled, t \in stale)
        /\ x.sessionId = wf.graph[t].sessionId
        /\ x.kind # "probe-gate"
    BY <1>1 DEF RecoveryAction
  <1>3. QED
    BY <1>1, <1>2 DEF RecoveryKind, Gone

LEMMA FenceStep ==
  ASSUME FenceInv, [Next]_vars
  PROVE  FenceInv'
  <1>0. TypeOK /\ TypeOK'
    BY TypeStep DEF FenceInv
  <1>1. \A s \in Sessions : agent[s] \in Gone => agent'[s] \in Gone
    BY <1>0, GoneStays
  <1>2. ASSUME NEW s \in Sessions, watch'[s] = "timed-out"
        PROVE  agent'[s] \in Gone \/ s \in abandoned'
    <2>1. CASE watch[s] = "timed-out"
      BY <1>1, <2>1, AbandonedStay DEF FenceInv, GoneIsGone
    <2>2. CASE IdleTimeout(s)
      BY <1>0, <2>2 DEF IdleTimeout, StopSession, Gone, TypeOK, HostOK
    <2>3. CASE watch[s] # "timed-out" /\ ~IdleTimeout(s)
      <3>1. watch \in [Sessions -> WatchStates]
        BY <1>0 DEF TypeOK, HostOK
      <3>2. ASSUME NEW r, NEW x, watch' = [watch EXCEPT ![r] = x], x # "timed-out"
            PROVE  FALSE
        BY <1>2, <2>3, <3>1, <3>2
      <3>3. ASSUME NEW a \in Attempts, Mark(a)
            PROVE  FALSE
        BY <1>2, <2>3, <3>2, <3>3 DEF Mark
      <3>4. ASSUME NEW r \in Sessions, IdleTimeout(r)
            PROVE  FALSE
        BY <1>2, <2>3, <3>1, <3>4 DEF IdleTimeout
      <3>5. ASSUME NEW r \in Sessions, NEW kind \in Ends, EndRun(r, kind)
            PROVE  FALSE
        BY <1>2, <2>3, <3>2, <3>5 DEF EndRun
      <3>6. ASSUME NEW r \in Sessions, KeepSessionRef(r) \/ CleanupRun(r) \/ RecoverTimedOut(r)
            PROVE  FALSE
        BY <3>2, <3>6 DEF KeepSessionRef, CleanupRun, RecoverTimedOut
      <3>13. ASSUME NEW r \in Sessions, OrchestratorThrows(r) \/ EndFails(r)
             PROVE  FALSE
        BY <1>2, <2>3, <3>2, <3>13 DEF OrchestratorThrows, EndFails
      <3>7. \A respawned : ~Boot(respawned) \/ watch'[s] # "timed-out"
        BY <2>3 DEF Boot
      <3>8. ~Recover
        BY <1>2, <2>3, <3>7 DEF Recover, ActOn, AbortScan
      <3>9. ~EndScan /\ ~ScanFails
        BY <1>2, <3>7 DEF EndScan, ScanFails, AbortScan
      <3>10. ~Crash
        BY <1>2 DEF Crash
      <3>11. CASE \/ \E i \in Passes : StartPass(i) \/ StepPass(i) \/ FailPass(i)
                  \/ \E t \in Tasks : \/ BackoffExpires(t) \/ Cancel(t)
                                      \/ \E plan \in OperatorPlans : AskFor(t, plan)
                                      \/ \E kind \in DeliveryKinds : Deliver(t, kind)
                                      \/ Babysit(t)
                  \/ \E a \in Attempts : \/ Get(a) \/ Ready(a) \/ Create(a) \/ Start(a)
                                         \/ Stop(a) \/ Cleanup(a) \/ AttemptFails(a)
                  \/ \E r \in Sessions : AgentEnds(r)
                  \/ Probe \/ NothingToRecover \/ PlanScan
                  \/ UNCHANGED vars
        <4>1. watch' = watch
          BY <3>11 DEF StartPass, StepPass, FailPass, BackoffExpires, Cancel, AskFor,
             Deliver, Babysit,
             Get, Ready, Create, Start, Stop, Cleanup, AttemptFails, AgentEnds, Probe,
             NothingToRecover, PlanScan, vars
        <4>2. QED
          BY <1>2, <2>3, <4>1
      <3>12. QED
        BY <3>3, <3>4, <3>5, <3>6, <3>8, <3>9, <3>10, <3>11, <3>13
           DEF Next, AttemptStep, ScanStep, Orchestrate
    <2>4. QED
      BY <2>1, <2>2, <2>3
  <1>3. scan'.at # "idle" =>
          \A s \in DOMAIN scan'.probes : scan'.probes[s] \in Gone => agent'[s] \in Gone
    <2>1. CASE scan'.at # "idle" /\ scan.at # "idle" /\ scan'.probes = scan.probes
      <3>1. scan \in [at: {"probed"}, probes: ProbeResults, cancelled: BOOLEAN]
                       \cup [at: {"acting"}, probes: ProbeResults, todo: SUBSET RecoveryActions]
        BY <1>0, <2>1 DEF TypeOK, ScanState, IdleScan
      <3>2. DOMAIN scan.probes \in SUBSET Sessions
        BY <3>1 DEF ProbeResults
      <3>3. QED
        BY <1>1, <2>1, <3>2 DEF FenceInv, GoneIsGone
    <2>2. CASE Probe
      BY <2>2 DEF Probe, host
    <2>3. CASE PlanScan
      BY <2>1, <2>3 DEF PlanScan
    <2>4. CASE Recover
      <3>1. scan \in [at: {"acting"}, probes: ProbeResults, todo: SUBSET RecoveryActions]
        BY <1>0, <2>4, ActingType DEF Recover
      <3>2. scan' = IdleScan \/ scan' = [scan EXCEPT !.todo = @ \ {NextAction}]
        BY <2>4 DEF Recover, ActOn, AbortScan
      <3>3. scan' = IdleScan \/ (scan'.probes = scan.probes /\ scan.at # "idle")
        BY <3>1, <3>2
      <3>4. QED
        BY <2>1, <3>3 DEF IdleScan
    <2>5. CASE EndScan \/ ScanFails \/ Crash
      BY <2>5 DEF EndScan, ScanFails, AbortScan, Crash, IdleScan
    <2>6. CASE scan' = scan
      BY <2>1, <2>6
    <2>7. CASE \/ \E i \in Passes : StartPass(i) \/ StepPass(i) \/ FailPass(i)
               \/ \E t \in Tasks : \/ BackoffExpires(t) \/ Cancel(t)
                                   \/ \E plan \in OperatorPlans : AskFor(t, plan)
                                   \/ \E kind \in DeliveryKinds : Deliver(t, kind)
                                   \/ Babysit(t)
               \/ \E a \in Attempts : AttemptStep(a) \/ AttemptFails(a)
               \/ \E s \in Sessions : \/ AgentEnds(s) \/ IdleTimeout(s) \/ Orchestrate(s)
                                      \/ OrchestratorThrows(s) \/ EndFails(s)
               \/ NothingToRecover \/ UNCHANGED vars
      <3>1. scan' = scan
        BY <2>7 DEF StartPass, StepPass, FailPass, BackoffExpires, Cancel, AskFor, Deliver,
           Babysit,
           AttemptStep, Get, Ready, Create, Start, Mark, Stop, Cleanup, AttemptFails,
           AgentEnds, IdleTimeout, Orchestrate, KeepSessionRef, EndRun, CleanupRun,
           RecoverTimedOut, OrchestratorThrows, EndFails, NothingToRecover, vars
      <3>2. QED
        BY <2>6, <3>1
    <2>8. QED
      BY <2>2, <2>3, <2>4, <2>5, <2>7 DEF Next, ScanStep
  <1>4. scan'.at = "acting" =>
          \A x \in scan'.todo : x.sessionId # Unset /\ x.kind # "stop-runtime"
                                  => agent'[x.sessionId] \in Gone
    <2>1. CASE scan'.at = "acting" /\ scan.at = "acting" /\ scan'.todo \subseteq scan.todo
      <3>1. scan.todo \in SUBSET RecoveryActions
        BY <1>0, <2>1, ActingType
      <3>2. \A x \in scan.todo : x.sessionId \in Sessions \cup {Unset}
        BY <3>1 DEF RecoveryActions
      <3>3. QED
        BY <1>1, <2>1, <3>2 DEF FenceInv, GoneIsGone
    <2>2. CASE PlanScan
      <3>1. PICK stale : /\ scan' = [at |-> "acting", probes |-> scan.probes,
                                     todo |-> PlanRecovery(wf, scan.probes, scan.cancelled, stale)]
                         /\ agent' = agent /\ scan.at = "probed"
        BY <2>2 DEF PlanScan, host
      <3>2. \A s \in DOMAIN scan.probes : scan.probes[s] \in Gone => agent[s] \in Gone
        BY <3>1 DEF FenceInv, GoneIsGone
      <3>3. QED
        BY <3>1, <3>2, PlannedOnProbe
    <2>3. CASE Recover
      <3>1. scan \in [at: {"acting"}, probes: ProbeResults, todo: SUBSET RecoveryActions]
        BY <1>0, <2>3, ActingType DEF Recover
      <3>2. scan' = IdleScan \/ scan' = [scan EXCEPT !.todo = @ \ {NextAction}]
        BY <2>3 DEF Recover, ActOn, AbortScan
      <3>3. scan' = IdleScan \/ (scan'.todo \subseteq scan.todo /\ scan.at = "acting")
        BY <3>1, <3>2
      <3>4. QED
        BY <2>1, <3>3 DEF IdleScan
    <2>4. CASE Probe \/ EndScan \/ ScanFails \/ Crash
      BY <2>4 DEF Probe, EndScan, ScanFails, AbortScan, Crash, IdleScan
    <2>5. CASE scan' = scan
      BY <2>1, <2>5
    <2>6. CASE \/ \E i \in Passes : StartPass(i) \/ StepPass(i) \/ FailPass(i)
               \/ \E t \in Tasks : \/ BackoffExpires(t) \/ Cancel(t)
                                   \/ \E plan \in OperatorPlans : AskFor(t, plan)
                                   \/ \E kind \in DeliveryKinds : Deliver(t, kind)
                                   \/ Babysit(t)
               \/ \E a \in Attempts : AttemptStep(a) \/ AttemptFails(a)
               \/ \E s \in Sessions : \/ AgentEnds(s) \/ IdleTimeout(s) \/ Orchestrate(s)
                                      \/ OrchestratorThrows(s) \/ EndFails(s)
               \/ NothingToRecover \/ UNCHANGED vars
      <3>1. scan' = scan
        BY <2>6 DEF StartPass, StepPass, FailPass, BackoffExpires, Cancel, AskFor, Deliver,
           Babysit,
           AttemptStep, Get, Ready, Create, Start, Mark, Stop, Cleanup, AttemptFails,
           AgentEnds, IdleTimeout, Orchestrate, KeepSessionRef, EndRun, CleanupRun,
           RecoverTimedOut, OrchestratorThrows, EndFails, NothingToRecover, vars
      <3>2. QED
        BY <2>5, <3>1
    <2>7. QED
      BY <2>2, <2>3, <2>4, <2>6 DEF Next, ScanStep
  <1>5. QED
    BY <1>0, <1>2, <1>3, <1>4 DEF FenceInv, GoneIsGone

(* A command that ends a run names its session, whose agent has ended or   *)
(* was let go of, cancels it, or recovers a task that had no session when  *)
(* it was read.                                                            *)
LEMMA FencedStep ==
  ASSUME FenceInv, [Next]_vars, NEW t \in Tasks, Running(t),
         agent[wf.graph[t].sessionId] = "live",
         wf'.graph[t].executionStatus \notin {"running", "cancelled"}
  PROVE  wf.graph[t].sessionId \in abandoned' \/ UnfencedAction(t)
  <1>0. TypeOK /\ WorkflowInv(wf)
    BY DEF FenceInv, TypeOK
  <1>1. PICK c \in TransitionCommand :
          Accepts(c) /\ wf' = TransitionTask(wf, c) /\ Occasion(c)
    <2>1. wf' # wf
      BY DEF Running
    <2>2. QED
      BY <1>0, <2>1, WhoCommands DEF Commanded
  <1>2. /\ \A u \in Tasks \ {c.taskId} : wf'.graph[u] = wf.graph[u]
        /\ Status(c.taskId) \in From(c.kind)
        /\ wf'.graph[c.taskId].executionStatus = Target(wf.graph[c.taskId], c)
        /\ c.expectedSessionId # Unset => wf.graph[c.taskId].sessionId = c.expectedSessionId
    BY <1>0, <1>1, CommandEffect
  <1>3. t = c.taskId
    BY <1>2 DEF Running
  <1>4. c.kind \notin {"mark-ready", "mark-running", "cancel-task"} \cup DeliveryCommands
    BY <1>2, <1>3 DEF Running, Status, From, Target, DeliveryCommands
  <1>5. ASSUME NEW s \in Sessions, LetGoOf(s), c.expectedSessionId = s
        PROVE  wf.graph[t].sessionId \in abandoned'
    <2>1. agent[s] \in Gone \/ s \in abandoned'
      BY <1>5, AbandonedStay DEF FenceInv, GoneIsGone, LetGoOf
    <2>2. s # Unset
      BY UnsetAssumption
    <2>3. QED
      BY <1>2, <1>3, <1>5, <2>1, <2>2 DEF Gone
  <1>6. CASE /\ scan.at = "acting" /\ scan.todo # {}
             /\ c = RecoveryCommand(NextAction)
    <2> DEFINE x == NextAction
    <2>1. x \in scan.todo
      BY <1>0, <1>6, ActingType, NextActionPlanned
    <2>2. /\ c.taskId = x.taskId /\ c.expectedSessionId = x.sessionId
          /\ c.kind = RecoveryTransition(x)
      BY <1>6 DEF RecoveryCommand
    <2>3. CASE x.sessionId = Unset
      BY <1>3, <1>6, <2>2, <2>3 DEF UnfencedAction
    <2>4. CASE x.kind = "stop-runtime"
      BY <1>4, <2>2, <2>4 DEF RecoveryTransition
    <2>5. CASE x.sessionId # Unset /\ x.kind # "stop-runtime"
      <3>1. agent[x.sessionId] \in Gone
        BY <1>6, <2>1, <2>5 DEF FenceInv, GoneIsGone
      <3>2. QED
        BY <1>2, <1>3, <2>2, <2>5, <3>1 DEF Gone
    <2>6. QED
      BY <2>3, <2>4, <2>5
  <1>7. QED
    BY <1>1, <1>4, <1>5, <1>6 DEF Occasion

(* However old the run or the probe it acts on, neither an orchestrator    *)
(* nor a scan takes a task from a live agent; only an operator's cancel    *)
(* does, the run's own orchestrator when it throws or could not stop the   *)
(* agent, and the recovery of a stale ready task, which names no session.  *)
THEOREM RunsOutlastAgents == Spec => RunOutlastsAgent
  <1>1. Init => FenceInv
    BY TypeInit DEF Init, FenceInv, GoneIsGone, IdleScan
  <1>2. FenceInv /\ [Next]_vars => FenceInv'
    BY FenceStep
  <1>3. FenceInv /\ [Next]_vars
          => [\A t \in Tasks :
                LET s == wf.graph[t].sessionId
                IN  /\ Running(t)
                    /\ agent[s] = "live"
                    /\ wf'.graph[t].executionStatus \notin {"running", "cancelled"}
                    => s \in abandoned' \/ UnfencedAction(t)]_vars
    BY FencedStep
  <1>4. QED
    BY <1>1, <1>2, <1>3, PTL DEF Spec, RunOutlastsAgent

-----------------------------------------------------------------------------
(* Dependencies *)

(* A transition forgets no run and no work, begins a task only by running  *)
(* it, and brings it to a status after work only when it has worked.       *)
LEMMA TransitionWork ==
  ASSUME NEW t, TaskInv(t), NEW c \in TransitionCommand, Accepted(t, c),
         NEW u, u = UpdateTask(t, c)
  PROVE  /\ Worked(t) => Worked(u)
         /\ (t.executionStatus \in AfterWork => Worked(t))
              => (u.executionStatus \in AfterWork => Worked(u))
         /\ t.runs # << >> => u.runs # << >>
         /\ u.runs # << >> => t.runs # << >> \/ c.kind = "mark-running"
  <1>1. /\ t.runs \in Seq(NodeRun)
        /\ t.executionStatus \in From(c.kind)
        /\ u.runs = RunsAfter(t, c)
        /\ u.executionStatus = Target(t, c)
    BY UpdateTaskShape DEF TaskInv, TaskNode, Accepted
  <1>2. ASSUME NEW runs, u.runs = runs, runs \in Seq(NodeRun), Len(runs) >= Len(t.runs),
               Len(runs) = Len(t.runs) \/ c.kind = "mark-running",
               \A i \in DOMAIN t.runs : t.runs[i].terminalReason = "completed"
                                          => runs[i].terminalReason = "completed",
               u.executionStatus \in AfterWork => t.executionStatus \in AfterWork \/ Worked(u)
        PROVE  /\ Worked(t) => Worked(u)
               /\ (t.executionStatus \in AfterWork => Worked(t))
                    => (u.executionStatus \in AfterWork => Worked(u))
               /\ t.runs # << >> => u.runs # << >>
               /\ u.runs # << >> => t.runs # << >> \/ c.kind = "mark-running"
    <2>1. DOMAIN t.runs \subseteq DOMAIN runs
      BY <1>1, <1>2
    <2>2. Worked(t) => Worked(u)
      BY <1>2, <2>1 DEF Worked
    <2>3. /\ t.runs # << >> => u.runs # << >>
          /\ u.runs # << >> => t.runs # << >> \/ c.kind = "mark-running"
      BY <1>1, <1>2
    <2>4. QED
      BY <1>2, <2>2, <2>3
  <1>3. CASE c.kind = "mark-running"
    <2>1. u.runs = Append(t.runs, NewRun(c)) /\ NewRun(c) \in NodeRun
      BY <1>1, <1>3 DEF RunsAfter, CloseReason, NewRun, NodeRun, Accepted, TransitionCommand
    <2>2. u.executionStatus \notin AfterWork
      BY <1>1, <1>3 DEF Target, AfterWork
    <2> DEFINE runs == Append(t.runs, NewRun(c))
    <2>3. /\ runs \in Seq(NodeRun) /\ Len(runs) >= Len(t.runs)
          /\ \A i \in DOMAIN t.runs : runs[i] = t.runs[i]
      BY <1>1, <2>1
    <2>4. u.runs = runs
      BY <2>1
    <2> HIDE DEF runs
    <2>5. QED
      BY <1>2, <1>3, <2>2, <2>3, <2>4
  <1>4. CASE c.kind = "update-run"
    <2>1. u.runs = PatchOpenRun(t.runs, c.providerSessionRef)
      BY <1>1, <1>4 DEF RunsAfter, CloseReason
    <2>2. OpenRuns(t.runs) = {Len(t.runs)}
      BY <1>1, <1>4 DEF From, TaskInv, TaskHasOneOpenRunIffRunning
    <2>3. /\ PatchOpenRun(t.runs, c.providerSessionRef) \in Seq(NodeRun)
          /\ Len(PatchOpenRun(t.runs, c.providerSessionRef)) = Len(t.runs)
      BY <1>1, <2>2, PatchKeepsOpen DEF TransitionCommand
    <2>4. \A i \in DOMAIN t.runs :
            PatchOpenRun(t.runs, c.providerSessionRef)[i].terminalReason
              = t.runs[i].terminalReason
      BY <1>1 DEF PatchOpenRun, NodeRun
    <2>5. u.executionStatus = t.executionStatus
      BY <1>1, <1>4 DEF Target
    <2>6. QED
      BY <1>2, <2>1, <2>3, <2>4, <2>5
  <1>5. CASE CloseReason(c.kind) # Unset
    <2> DEFINE reason == CloseReason(c.kind)
               runs == CloseLatestRun(t.runs, reason)
    <2>1. c.kind \in {"complete-runtime", "cancel-task", "recover-task",
                      "mark-interrupted", "fail-task"}
      BY <1>5 DEF CloseReason
    <2>2. u.runs = runs
      BY <1>1, <2>1, <1>5 DEF RunsAfter
    <2>3. runs \in Seq(NodeRun) /\ Len(runs) = Len(t.runs)
      BY <1>5, <2>1, <2>2, <1>1, ClosingTransition
    <2>4. \A i \in DOMAIN t.runs : t.runs[i].terminalReason = "completed"
                                     => runs[i].terminalReason = "completed"
      <3>1. "completed" # Unset
        BY UnsetAssumption DEF TerminalReasons
      <3>2. OpenRun(t.runs) # 0 => t.runs[OpenRun(t.runs)].terminalReason = Unset
        <4>1. OpenRuns(t.runs) \in {{}, {Len(t.runs)}}
          BY DEF TaskInv, TaskHasOneOpenRunIffRunning
        <4>2. CASE OpenRuns(t.runs) = {}
          BY <4>2 DEF OpenRun
        <4>3. CASE OpenRuns(t.runs) = {Len(t.runs)}
          BY <1>1, <4>3, OpenRunIsLast DEF OpenRuns
        <4>4. QED
          BY <4>1, <4>2, <4>3
      <3>3. QED
        BY <1>1, <3>1, <3>2 DEF CloseLatestRun
    <2>5. CASE c.kind = "complete-runtime"
      <3>1. OpenRuns(t.runs) = {Len(t.runs)}
        BY <1>1, <2>5 DEF From, TaskInv, TaskHasOneOpenRunIffRunning
      <3>2. OpenRun(t.runs) = Len(t.runs) /\ Len(t.runs) \in DOMAIN t.runs
        BY <1>1, <3>1, OpenRunIsLast
      <3>3. reason = "completed"
        BY <2>5 DEF CloseReason
      <3>4. Len(t.runs) # 0
        BY <1>1, <3>2
      <3>5. runs = [t.runs EXCEPT ![Len(t.runs)].terminalReason = "completed"]
        BY <3>2, <3>3, <3>4 DEF CloseLatestRun
      <3>6. t.runs[Len(t.runs)] \in NodeRun
        BY <1>1, <3>2, ElementOfSeq
      <3>7. runs[Len(t.runs)].terminalReason = "completed" /\ Len(t.runs) \in DOMAIN runs
        BY <1>1, <3>2, <3>5, <3>6 DEF NodeRun
      <3> HIDE DEF runs, reason
      <3>8. Worked(u)
        BY <2>2, <3>7 DEF Worked
      <3>9. QED
        BY <1>2, <2>2, <2>3, <2>4, <3>8
    <2>6. CASE c.kind # "complete-runtime"
      <3>1. u.executionStatus \notin AfterWork
        BY <1>1, <2>1, <2>6 DEF Target, AfterWork
      <3> HIDE DEF runs, reason
      <3>2. QED
        BY <1>2, <2>2, <2>3, <2>4, <3>1
    <2>7. QED
      BY <2>5, <2>6
  <1>6. CASE CloseReason(c.kind) = Unset /\ c.kind \notin {"mark-running", "update-run"}
    <2>1. u.runs = t.runs
      BY <1>1, <1>6, NeutralTransition
    <2>2. c.kind \in {"mark-ready", "start-finalization", "open-review", "start-quality-gate",
                      "complete-quality-gate", "start-ci-gate", "complete-ci-gate",
                      "merge-task", "complete-without-pr", "merge-conflict"}
      <3>1. CloseReason(c.kind) = Unset
              => c.kind \notin {"complete-runtime", "cancel-task", "recover-task",
                                "mark-interrupted", "fail-task"}
        BY UnsetAssumption DEF CloseReason, TerminalReasons
      <3>2. QED
        BY <1>6, <3>1 DEF TransitionCommand, TransitionKinds
    <2>3. u.executionStatus \in AfterWork => t.executionStatus \in AfterWork
      BY <1>1, <2>2 DEF From, Target, AfterWork
    <2>4. QED
      BY <1>1, <1>2, <2>1, <2>3
  <1>7. QED
    BY <1>3, <1>4, <1>5, <1>6

(* What has worked has, and a task is begun by a call. *)
LEMMA WorkStays ==
  ASSUME DueInv, [Next]_vars, NEW t \in Tasks
  PROVE  /\ Worked(wf.graph[t]) => Worked(wf'.graph[t])
         /\ Status(t)' \in AfterWork => Worked(wf'.graph[t])
         /\ Begun(t) => Begun(t)'
         /\ Begun(t)' => Begun(t) \/ \E a \in Attempts : attempt[a] # Unset /\ TaskOf(a) = t
  <1>0. /\ TypeOK /\ WorkflowInv(wf) /\ TaskInv(wf.graph[t])
        /\ Status(t) \in AfterWork => Worked(wf.graph[t])
    BY DEF DueInv, DueIsFree, TypeOK, WorkflowInv
  <1>1. CASE wf'.graph[t] = wf.graph[t]
    BY <1>0, <1>1 DEF Status, Begun
  <1>2. ASSUME NEW c \in TransitionCommand, Accepts(c), wf' = TransitionTask(wf, c),
               Occasion(c), c.taskId = t
        PROVE  /\ Worked(wf.graph[t]) => Worked(wf'.graph[t])
               /\ Status(t)' \in AfterWork => Worked(wf'.graph[t])
               /\ Begun(t) => Begun(t)'
               /\ Begun(t)' => Begun(t) \/ \E a \in Attempts : attempt[a] # Unset /\ TaskOf(a) = t
    <2>1. Accepted(wf.graph[t], c) /\ wf'.graph[t] = UpdateTask(wf.graph[t], c)
      BY <1>0, <1>2, CommandEffect
    <2>2. c.kind = "mark-running" => \E a \in Attempts : attempt[a] # Unset /\ TaskOf(a) = t
      <3>1. ASSUME c.kind = "mark-running", c = RecoveryCommand(NextAction)
            PROVE  FALSE
        BY <3>1 DEF RecoveryCommand, RecoveryTransition
      <3>2. QED
        BY <1>2, <3>1 DEF Occasion, Ends, DeliveryCommands
    <2>3. QED
      BY <1>0, <2>1, <2>2, TransitionWork DEF Status, Begun
  <1>3. ASSUME NEW c \in TransitionCommand, Accepts(c), wf' = TransitionTask(wf, c),
               c.taskId # t
        PROVE  wf'.graph[t] = wf.graph[t]
    BY <1>0, <1>3, CommandEffect
  <1>4. wf' = wf \/ Commanded(wf')
    BY <1>0, WhoCommands
  <1>5. QED
    BY <1>1, <1>2, <1>3, <1>4 DEF Commanded

(* A task is called by a pass, an operator or the babysitter. *)
LEMMA WhoCalls ==
  ASSUME TypeOK, [Next]_vars, NEW a \in Attempts, attempt[a] = Unset, attempt'[a] # Unset
  PROVE  \/ \E i \in Passes : StepPass(i) /\ a = <<FirstOf(pass[i]), "scheduler">>
         \/ \E t \in Tasks, plan \in OperatorPlans : AskFor(t, plan) /\ a = <<t, "operator">>
         \/ \E t \in Tasks : Babysit(t) /\ a = <<t, "babysitter">>
  <1>0. attempt \in [Attempts -> AttemptState \cup {Unset}]
    BY DEF TypeOK
  <1>1. ASSUME NEW b, NEW x, attempt' = [attempt EXCEPT ![b] = x]
        PROVE  a = b
    BY <1>0, <1>1
  <1>2. ASSUME NEW i \in Passes, StepPass(i)
        PROVE  a = <<FirstOf(pass[i]), "scheduler">>
    <2> DEFINE u == FirstOf(pass[i])
    <2>1. attempt' = attempt \/ Begin(<<u, "scheduler">>, Plan(u))
      BY <1>2 DEF StepPass
    <2>2. QED
      BY <1>1, <2>1 DEF Begin
  <1>3. ASSUME NEW t \in Tasks, NEW plan \in OperatorPlans, AskFor(t, plan)
        PROVE  a = <<t, "operator">>
    BY <1>1, <1>3 DEF AskFor, Begin
  <1>4. ASSUME NEW t \in Tasks, Babysit(t)
        PROVE  a = <<t, "babysitter">>
    BY <1>1, <1>4 DEF Babysit, Begin
  <1>5. ASSUME NEW b \in Attempts, AttemptStep(b) \/ AttemptFails(b)
        PROVE  FALSE
    <2>1. attempt[b] # Unset
      BY <1>5 DEF AttemptStep, Get, Ready, Create, Start, Mark, Stop, Cleanup,
         AttemptFails, At
    <2>2. \E x : attempt' = [attempt EXCEPT ![b] = x]
      BY <1>5, GetShape, StartShape
         DEF AttemptStep, Ready, Create, Mark, Stop, Cleanup, AttemptFails,
             MoveTo, Fail, Succeed
    <2>3. QED
      BY <1>1, <2>1, <2>2
  <1>6. CASE Crash
    BY <1>6 DEF Crash
  <1>7. CASE \/ \E i \in Passes : StartPass(i) \/ FailPass(i)
             \/ \E u \in Tasks : \/ BackoffExpires(u) \/ Cancel(u)
                                 \/ \E kind \in DeliveryKinds : Deliver(u, kind)
             \/ \E s \in Sessions : \/ AgentEnds(s) \/ IdleTimeout(s) \/ Orchestrate(s)
                                    \/ OrchestratorThrows(s) \/ EndFails(s)
             \/ ScanStep \/ ScanFails \/ UNCHANGED vars
    <2>1. attempt' = attempt
      BY <1>7 DEF StartPass, FailPass, BackoffExpires, Cancel, Deliver, AgentEnds,
         IdleTimeout, Orchestrate, KeepSessionRef, EndRun, CleanupRun, RecoverTimedOut,
         OrchestratorThrows, EndFails, ScanStep, Probe, NothingToRecover, PlanScan,
         Recover, EndScan, ScanFails, vars
    <2>2. QED
      BY <2>1
  <1>8. QED
    BY <1>2, <1>3, <1>4, <1>5, <1>6, <1>7 DEF Next

(* Requests are counted. *)
LEMMA CallsCount ==
  ASSUME TypeOK, [Next]_vars, calls' = 0
  PROVE  calls = 0 /\ \A t \in Tasks, plan \in OperatorPlans : ~AskFor(t, plan)
  <1>1. calls \in Nat
    BY DEF TypeOK, CountersOK
  <1>2. calls' = calls \/ calls' = calls + 1
    BY DEF Next, StartPass, StepPass, FailPass, BackoffExpires, Cancel, AskFor, Deliver,
       Babysit, AttemptStep, Get, Ready, Create, Start, Mark, Stop, StopSession, Cleanup,
       AttemptFails, AgentEnds, IdleTimeout, Orchestrate, KeepSessionRef, EndRun,
       CleanupRun, RecoverTimedOut, OrchestratorThrows, EndFails, ScanStep, Probe,
       NothingToRecover, PlanScan, Recover, EndScan, ScanFails, Crash, Fault, vars, budget
  <1>3. calls = 0
    BY <1>1, <1>2
  <1>4. ASSUME NEW t \in Tasks, NEW plan \in OperatorPlans, AskFor(t, plan)
        PROVE  FALSE
    <2>1. calls' = calls + 1
      BY <1>4 DEF AskFor
    <2>2. QED
      BY <1>3, <2>1
  <1>5. QED
    BY <1>3, <1>4

(* What is planned now is free to run. *)
LEMMA PlannedIsFree ==
  ASSUME DueInv, NEW t \in PlanDispatch(wf)
  PROVE  \A d \in DependsOn[t] : Worked(wf.graph[d])
  <1>1. t \in Tasks /\ DependenciesSucceeded(wf, t)
    BY DEF PlanDispatch, Candidates, TasksIn
  <1>2. DependsOn[t] \subseteq Tasks
    BY <1>1, DependsOnAssumption
  <1>3. \A d \in DependsOn[t] : Status(d) \in SuccessStatuses
    BY <1>1 DEF DependenciesSucceeded, Status
  <1>4. QED
    BY <1>2, <1>3 DEF DueInv, DueIsFree, SuccessStatuses, AfterWork

(* A task comes into a pass by a plan, to a call by a pass and to its      *)
(* first run by a call.                                                    *)
LEMMA DueByPlan ==
  ASSUME DueInv, [Next]_vars, NEW t \in Tasks, Due(t)'
  PROVE  Due(t) \/ t \in PlanDispatch(wf)
  <1>0. /\ TypeOK /\ pass \in [Passes -> SUBSET Tasks]
        /\ attempt \in [Attempts -> AttemptState \cup {Unset}]
        /\ calls = 0 => \A u \in Tasks : attempt[u, "operator"] = Unset
        /\ \A u \in Tasks : attempt[u, "babysitter"] # Unset => Begun(u)
        /\ \A u \in Tasks : <<u, "scheduler">> \in Attempts
    BY DEF DueInv, DueIsFree, TypeOK, SchedulerOK, Attempts
  <1>1. CASE calls' = 0 /\ Begun(t)'
    <2>1. calls = 0
      BY <1>0, <1>1, CallsCount
    <2>2. ASSUME NEW a \in Attempts, attempt[a] # Unset, TaskOf(a) = t
          PROVE  Due(t)
      <3>1. PICK u \in Tasks, o \in {"scheduler", "operator", "babysitter"} : a = <<u, o>>
        BY DEF Attempts
      <3>2. u = t
        BY <2>2, <3>1 DEF TaskOf
      <3>3. o # "operator"
        BY <1>0, <2>1, <2>2, <3>1
      <3>4. CASE o = "scheduler"
        BY <2>2, <3>1, <3>2, <3>4 DEF Due
      <3>5. CASE o = "babysitter"
        BY <1>0, <2>1, <2>2, <3>1, <3>2, <3>5 DEF Due
      <3>6. QED
        BY <3>3, <3>4, <3>5
    <2>3. QED
      BY <1>1, <2>1, <2>2, WorkStays DEF Due
  <1>2. ASSUME NEW i \in Passes, t \in pass'[i]
        PROVE  Due(t) \/ t \in PlanDispatch(wf)
    <2>1. ASSUME NEW j \in Passes, NEW plan \in SUBSET Tasks, NEW flying, GoOn(j, plan, flying)
          PROVE  t \in pass[i] \/ t \in plan
      <3>1. pass' = [pass EXCEPT ![j] = Remaining(plan, flying)]
        BY <2>1 DEF GoOn
      <3>2. Remaining(plan, flying) \subseteq plan
        BY RemainingType
      <3>3. QED
        BY <1>0, <1>2, <3>1, <3>2
    <2>2. ASSUME NEW j \in Passes, StartPass(j)
          PROVE  t \in pass[i] \/ t \in PlanDispatch(wf)
      <3>1. PlanDispatch(wf) \in SUBSET Tasks
        BY DEF PlanDispatch, Candidates, TasksIn
      <3>2. QED
        BY <2>1, <2>2, <3>1 DEF StartPass
    <2>3. ASSUME NEW j \in Passes, StepPass(j) \/ FailPass(j)
          PROVE  \E k \in Passes : t \in pass[k]
      <3>1. pass[j] \in SUBSET Tasks /\ pass[j] \ {FirstOf(pass[j])} \in SUBSET Tasks
        BY <1>0
      <3>2. PICK flying : GoOn(j, pass[j] \ {FirstOf(pass[j])}, flying)
        BY <2>3 DEF StepPass, FailPass
      <3>3. QED
        BY <2>1, <3>1, <3>2
    <2>4. ASSUME NEW a \in Attempts, AttemptStep(a) \/ AttemptFails(a)
          PROVE  pass' = pass
      BY <2>4 DEF AttemptStep, Get, Ready, Create, Start, Mark, Stop, Cleanup,
         AttemptFails, Fail, Succeed, scheduler
    <2>5. CASE Crash
      BY <1>2, <2>5 DEF Crash
    <2>6. CASE \/ \E u \in Tasks : \/ BackoffExpires(u) \/ Cancel(u) \/ Babysit(u)
                                   \/ \E plan \in OperatorPlans : AskFor(u, plan)
                                   \/ \E kind \in DeliveryKinds : Deliver(u, kind)
               \/ \E s \in Sessions : \/ AgentEnds(s) \/ IdleTimeout(s) \/ Orchestrate(s)
                                      \/ OrchestratorThrows(s) \/ EndFails(s)
               \/ ScanStep \/ ScanFails \/ UNCHANGED vars
      <3>1. pass' = pass
        BY <2>6 DEF BackoffExpires, Cancel, Babysit, AskFor, Deliver, AgentEnds,
           IdleTimeout,
           Orchestrate, KeepSessionRef, EndRun, CleanupRun, RecoverTimedOut,
           OrchestratorThrows, EndFails, ScanStep, Probe, NothingToRecover, PlanScan,
           Recover, EndScan, ScanFails, vars, scheduler
      <3>2. QED
        BY <1>2, <3>1 DEF Due
    <2>7. QED
      BY <1>2, <2>2, <2>3, <2>4, <2>5, <2>6 DEF Next, Due
  <1>3. ASSUME attempt'[t, "scheduler"] # Unset, attempt[t, "scheduler"] = Unset
        PROVE  Due(t)
    <2>1. PICK i \in Passes : StepPass(i) /\ t = FirstOf(pass[i])
      BY <1>0, <1>3, WhoCalls
    <2>2. t \in pass[i]
      BY <1>0, <2>1, FirstOfPlan DEF StepPass
    <2>3. QED
      BY <2>2 DEF Due
  <1>4. QED
    BY <1>1, <1>2, <1>3 DEF Due

LEMMA DueStep ==
  ASSUME DueInv, [Next]_vars
  PROVE  DueInv'
  <1>1. TypeOK /\ TypeOK'
    BY TypeStep DEF DueInv
  <1>2. ASSUME calls' = 0, NEW t \in Tasks, attempt'[t, "operator"] # Unset
        PROVE  FALSE
    <2>1. calls = 0 /\ \A u \in Tasks, plan \in OperatorPlans : ~AskFor(u, plan)
      BY <1>1, <1>2, CallsCount
    <2>2. attempt[t, "operator"] = Unset /\ <<t, "operator">> \in Attempts
      BY <2>1 DEF DueInv, DueIsFree, Attempts
    <2>3. QED
      BY <1>1, <1>2, <2>1, <2>2, WhoCalls
  <1>3. ASSUME NEW t \in Tasks, attempt'[t, "babysitter"] # Unset
        PROVE  Begun(t)'
    <2>1. CASE attempt[t, "babysitter"] # Unset
      BY <2>1, WorkStays DEF DueInv, DueIsFree
    <2>2. CASE attempt[t, "babysitter"] = Unset
      <3>1. Babysit(t)
        <4>1. <<t, "babysitter">> \in Attempts
          BY DEF Attempts
        <4>2. QED
          BY <1>1, <1>3, <2>2, <4>1, WhoCalls
      <3>2. Status(t) \in {"pr-open", "finalizing", "ci-pending"}
        <4> DEFINE c == [Cmd("merge-conflict", t) EXCEPT !.artifacts = {"ci-report"}]
        <4>1. Accepts(c)
          BY <3>1 DEF Babysit
        <4>2. c.kind = "merge-conflict" /\ c.taskId = t
          BY DEF Cmd
        <4>3. c \in TransitionCommand
          <5>1. Cmd("merge-conflict", t) \in TransitionCommand
            BY CmdType DEF TransitionKinds
          <5>2. QED
            BY <5>1, PlannersAssumption DEF TransitionCommand
        <4> HIDE DEF c
        <4>4. QED
          BY <1>1, <4>1, <4>2, <4>3, CommandEffect DEF From, TypeOK
      <3>3. Worked(wf.graph[t])
        BY <3>2 DEF DueInv, DueIsFree, AfterWork
      <3>4. Begun(t)
        BY <3>3 DEF Worked, Begun
      <3>5. QED
        BY <3>4, WorkStays
    <2>3. QED
      BY <2>1, <2>2
  <1>4. ASSUME NEW t \in Tasks, Due(t)', NEW d \in DependsOn[t]
        PROVE  Worked(wf'.graph[d])
    <2>1. d \in Tasks
      BY <1>4, DependsOnAssumption
    <2>2. Worked(wf.graph[d])
      BY <1>4, DueByPlan, PlannedIsFree DEF DueInv, DueIsFree
    <2>3. QED
      BY <2>1, <2>2, WorkStays
  <1>5. \A t \in Tasks : Status(t)' \in AfterWork => Worked(wf'.graph[t])
    BY WorkStays
  <1>6. QED
    BY <1>1, <1>2, <1>3, <1>4, <1>5 DEF DueInv, DueIsFree, Worked

(* The scheduler dispatches a task only after those it depends on have     *)
(* been through a run, however old the plan and whatever sent them back    *)
(* since; and so it is with every task that runs, until an operator asks   *)
(* for something.  (An operator may start a task before.)                  *)
THEOREM DependentsRunLast == Spec => []DependentsWait
  <1>1. Init => DueInv
    <2> SUFFICES ASSUME Init PROVE DueInv
      OBVIOUS
    <2>1. \A t \in Tasks : /\ wf.graph[t].executionStatus = "pending"
                           /\ wf.graph[t].runs = << >>
                           /\ <<t, "operator">> \in Attempts
                           /\ <<t, "scheduler">> \in Attempts
                           /\ <<t, "babysitter">> \in Attempts
      BY DEF Init, NewWorkflow, NewTask, Attempts
    <2>2. \A t \in Tasks : Status(t) = "pending" /\ ~Due(t)
      BY <2>1 DEF Init, Due, Begun, Status
    <2>3. QED
      BY <2>1, <2>2, TypeInit DEF Init, DueInv, DueIsFree, AfterWork
  <1>2. DueInv /\ [Next]_vars => DueInv'
    BY DueStep
  <1>3. DueInv => DependentsWait
    <2>1. ASSUME DueInv, NEW t \in Tasks, Running(t)
          PROVE  Begun(t)
      <3>1. TaskInv(wf.graph[t]) /\ wf.graph[t].runs \in Seq(NodeRun)
        BY <2>1 DEF DueInv, TypeOK, WorkflowInv, TaskInv, TaskNode
      <3>2. OpenRuns(wf.graph[t].runs) = {Len(wf.graph[t].runs)}
        BY <2>1, <3>1 DEF Running, TaskInv, TaskHasOneOpenRunIffRunning
      <3>3. Len(wf.graph[t].runs) \in DOMAIN wf.graph[t].runs
        BY <3>1, <3>2, OpenRunIsLast
      <3>4. QED
        BY <3>3 DEF Begun
    <2>2. QED
      BY <2>1 DEF DueInv, DueIsFree, DependentsWait, Due, HasWorked, Worked
  <1>4. QED
    BY <1>1, <1>2, <1>3, PTL DEF Spec
===============================================================================
