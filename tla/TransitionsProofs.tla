-------------------------- MODULE TransitionsProofs --------------------------
(***************************************************************************)
(* What a command does to a workflow, for every set of tasks and every     *)
(* dependency graph: lemmas on the operators of Transitions, Commands and  *)
(* SnapshotReducer, with no variables.  The proofs about AtomicWorkflow    *)
(* and WorkflowStore rest on them.                                         *)
(*                                                                         *)
(* A transition changes one task by UpdateTask and a restack command       *)
(* changes only stack statuses, versions and artifacts, so there are       *)
(* lemmas about one task node and lemmas that lift them to the graph.      *)
(*                                                                         *)
(* The last part is about what clients are told: a command changes a task  *)
(* in one of the ways the events can tell (Tellable), and a copy to which  *)
(* some of the events of a save are applied has what these events tell of  *)
(* the new workflow and is for the rest still the old one (PartlyTold).    *)
(***************************************************************************)
EXTENDS SnapshotReducer, SequenceTheorems, FiniteSetTheorems, WellFoundedInduction, TLAPS

(* a task that names a session names that of its last run *)
NamesLastRun(t) ==
  t.sessionId # Unset => /\ Len(t.runs) > 0
                         /\ LastOf(t.runs).runtimeSessionId = t.sessionId

TaskInv(t) ==
  /\ t \in TaskNode
  /\ TaskHasOneOpenRunIffRunning(t)
  /\ t.executionStatus \in {"pending", "ready"} => t.sessionId = Unset
  /\ NamesLastRun(t)

WorkflowInv(w) == w \in Workflow /\ \A t \in Tasks : TaskInv(w.graph[t])

(* the arguments of transitionTask that get past its checks *)
Accepted(t, c) ==
  /\ t.executionStatus \in From(c.kind)
  /\ c.kind = "mark-running" => c.sessionId # Unset

-----------------------------------------------------------------------------
(* One task *)

(* While a task runs, the latest open run is the last run. *)
LEMMA OpenRunIsLast ==
  ASSUME NEW runs \in Seq(NodeRun), OpenRuns(runs) = {Len(runs)}
  PROVE  /\ OpenRun(runs) = Len(runs)
         /\ Len(runs) \in DOMAIN runs
         /\ Len(runs) \in 1 .. Len(runs)
  BY DEF OpenRun, OpenRuns

(* Appending a new run to a history with no open run leaves it alone open. *)
LEMMA AppendOpens ==
  ASSUME NEW runs \in Seq(NodeRun), OpenRuns(runs) = {},
         NEW run \in NodeRun, run.terminalReason = Unset
  PROVE  /\ Append(runs, run) \in Seq(NodeRun)
         /\ OpenRuns(Append(runs, run)) = {Len(Append(runs, run))}
         /\ Append(runs, run)[Len(Append(runs, run))] = run
  BY DEF OpenRuns

(* Closing the only open run leaves none open. *)
LEMMA CloseCloses ==
  ASSUME NEW runs \in Seq(NodeRun),
         OpenRuns(runs) \in {{}, {Len(runs)}},
         NEW reason \in TerminalReasons
  PROVE  /\ CloseLatestRun(runs, reason) \in Seq(NodeRun)
         /\ OpenRuns(CloseLatestRun(runs, reason)) = {}
         /\ Len(CloseLatestRun(runs, reason)) = Len(runs)
         /\ Len(runs) > 0 => LastOf(CloseLatestRun(runs, reason)).runtimeSessionId
                               = LastOf(runs).runtimeSessionId
  <1>1. CASE OpenRuns(runs) = {}
    BY <1>1 DEF CloseLatestRun, OpenRun, LastOf
  <1>2. CASE OpenRuns(runs) = {Len(runs)}
    <2>1. OpenRun(runs) = Len(runs) /\ Len(runs) \in 1 .. Len(runs)
      BY <1>2, OpenRunIsLast
    <2> DEFINE closed == [runs EXCEPT ![Len(runs)].terminalReason = reason]
    <2>2. CloseLatestRun(runs, reason) = closed
      BY <2>1 DEF CloseLatestRun
    <2> DEFINE last == [runs[Len(runs)] EXCEPT !.terminalReason = reason]
    <2>b. runs[Len(runs)] \in NodeRun
      BY <2>1
    <2>c. last \in NodeRun
      BY <2>b DEF NodeRun
    <2>3. closed \in Seq(NodeRun) /\ Len(closed) = Len(runs)
      BY <2>1, <2>c, ExceptSeq
    <2>4. closed[Len(runs)].terminalReason # Unset
      BY <2>1, UnsetAssumption DEF NodeRun
    <2>5. \A i \in 1 .. Len(runs) : i # Len(runs) => closed[i] = runs[i]
      BY <2>1
    <2>6. OpenRuns(closed) = {}
      BY <1>2, <2>3, <2>4, <2>5 DEF OpenRuns
    <2>7. closed[Len(runs)].runtimeSessionId = runs[Len(runs)].runtimeSessionId
      BY <2>1, <2>b DEF NodeRun
    <2>8. QED
      BY <2>2, <2>3, <2>6, <2>7 DEF LastOf
  <1>3. QED
    BY <1>1, <1>2

(* Patching the provider reference of the open run keeps it open and keeps *)
(* its session.                                                            *)
LEMMA PatchKeepsOpen ==
  ASSUME NEW runs \in Seq(NodeRun), OpenRuns(runs) = {Len(runs)},
         NEW ref \in Refs \cup {Unset}
  PROVE  /\ PatchOpenRun(runs, ref) \in Seq(NodeRun)
         /\ Len(PatchOpenRun(runs, ref)) = Len(runs)
         /\ OpenRuns(PatchOpenRun(runs, ref)) = {Len(runs)}
         /\ PatchOpenRun(runs, ref)[Len(runs)].runtimeSessionId
              = runs[Len(runs)].runtimeSessionId
  <1>1. CASE ref = Unset
    BY <1>1 DEF PatchOpenRun
  <1>2. CASE ref # Unset
    <2>1. OpenRun(runs) = Len(runs) /\ Len(runs) \in 1 .. Len(runs)
      BY OpenRunIsLast
    <2> DEFINE patched == [runs EXCEPT ![Len(runs)].providerSessionRef = ref]
    <2>2. PatchOpenRun(runs, ref) = patched
      BY <1>2, <2>1 DEF PatchOpenRun
    <2> DEFINE last == [runs[Len(runs)] EXCEPT !.providerSessionRef = ref]
    <2>b. runs[Len(runs)] \in NodeRun
      BY <2>1
    <2>c. last \in NodeRun
      BY <1>2, <2>b DEF NodeRun
    <2>3. patched \in Seq(NodeRun) /\ Len(patched) = Len(runs)
      BY <2>1, <2>c, ExceptSeq
    <2>4. \A i \in 1 .. Len(runs) :
            /\ patched[i].terminalReason = runs[i].terminalReason
            /\ patched[i].runtimeSessionId = runs[i].runtimeSessionId
      BY <2>1 DEF NodeRun
    <2>5. OpenRuns(patched) = OpenRuns(runs)
      BY <2>3, <2>4 DEF OpenRuns
    <2>6. QED
      BY <2>1, <2>2, <2>3, <2>4, <2>5
  <1>3. QED
    BY <1>1, <1>2

(* The shape of the node a transition produces. *)
LEMMA UpdateTaskShape ==
  ASSUME NEW t, NEW c
  PROVE  /\ UpdateTask(t, c).executionStatus = Target(t, c)
         /\ UpdateTask(t, c).sessionId = SessionAfter(t, c)
         /\ UpdateTask(t, c).runs = RunsAfter(t, c)
         /\ UpdateTask(t, c).stackStatus = t.stackStatus
         /\ UpdateTask(t, c).version = t.version + 1
         /\ UpdateTask(t, c).artifacts = IF AppendsArtifacts(c.kind)
                                         THEN t.artifacts \cup c.artifacts
                                         ELSE t.artifacts
  BY DEF UpdateTask, ArtifactsAfter

(* A transition that closes the run leaves the task with every run closed  *)
(* and not running.                                                        *)
LEMMA ClosingTransition ==
  ASSUME NEW t, TaskInv(t), NEW c \in TransitionCommand, Accepted(t, c),
         CloseReason(c.kind) # Unset
  PROVE  /\ RunsAfter(t, c) \in Seq(NodeRun)
         /\ OpenRuns(RunsAfter(t, c)) = {}
         /\ Len(RunsAfter(t, c)) = Len(t.runs)
         /\ Len(t.runs) > 0 => LastOf(RunsAfter(t, c)).runtimeSessionId
                                 = LastOf(t.runs).runtimeSessionId
         /\ Target(t, c) \in ExecutionStatuses \ {"running", "ready"}
  <1>1. CloseReason(c.kind) \in TerminalReasons
    BY DEF CloseReason, TerminalReasons
  <1>2. c.kind \in {"complete-runtime", "cancel-task", "recover-task",
                    "mark-interrupted", "fail-task"}
    BY DEF CloseReason
  <1>3. RunsAfter(t, c) = CloseLatestRun(t.runs, CloseReason(c.kind))
    BY <1>2 DEF RunsAfter
  <1>4. t.runs \in Seq(NodeRun) /\ OpenRuns(t.runs) \in {{}, {Len(t.runs)}}
    BY DEF TaskInv, TaskHasOneOpenRunIffRunning, TaskNode
  <1>5. Target(t, c) \in ExecutionStatuses \ {"running", "ready"}
    BY <1>2 DEF Target, ExecutionStatuses
  <1>6. QED
    BY <1>1, <1>3, <1>4, <1>5, CloseCloses

(* A transition that neither opens, patches nor closes a run is taken by a *)
(* task that has none open, and does not make it run.                      *)
LEMMA NeutralTransition ==
  ASSUME NEW t, TaskInv(t), NEW c \in TransitionCommand, Accepted(t, c),
         CloseReason(c.kind) = Unset, c.kind \notin {"mark-running", "update-run"}
  PROVE  /\ RunsAfter(t, c) = t.runs
         /\ OpenRuns(t.runs) = {}
         /\ Target(t, c) \in ExecutionStatuses \ {"running"}
         /\ SessionAfter(t, c) = t.sessionId
         /\ Target(t, c) = "ready" => t.executionStatus = "pending"
         /\ Target(t, c) # "pending"
  <1>1. c.kind \in {"mark-ready", "start-finalization", "open-review",
                    "start-quality-gate", "complete-quality-gate",
                    "start-ci-gate", "complete-ci-gate", "merge-task",
                    "complete-without-pr", "merge-conflict"}
    BY UnsetAssumption DEF TransitionCommand, TransitionKinds, CloseReason, TerminalReasons
  <1>2. RunsAfter(t, c) = t.runs /\ SessionAfter(t, c) = t.sessionId
    BY <1>1 DEF RunsAfter, SessionAfter, ClearsSession
  <1>3. t.executionStatus # "running"
    BY <1>1 DEF Accepted, From
  <1>4. OpenRuns(t.runs) = {}
    BY <1>3 DEF TaskInv, TaskHasOneOpenRunIffRunning
  <1>5. /\ Target(t, c) \in ExecutionStatuses \ {"running", "pending"}
        /\ Target(t, c) = "ready" => c.kind = "mark-ready"
    BY <1>1 DEF Target, ExecutionStatuses
  <1>6. c.kind = "mark-ready" => t.executionStatus = "pending"
    BY DEF Accepted, From
  <1>7. QED
    BY <1>2, <1>4, <1>5, <1>6

(* Every accepted transition preserves the invariant of its task. *)
LEMMA UpdateTaskInv ==
  ASSUME NEW t, TaskInv(t), NEW c \in TransitionCommand, Accepted(t, c)
  PROVE  TaskInv(UpdateTask(t, c))
  <1> DEFINE u == UpdateTask(t, c)
  <1>0. /\ t \in TaskNode
        /\ t.runs \in Seq(NodeRun)
        /\ t.sessionId \in Sessions \cup {Unset}
        /\ t.executionStatus \in ExecutionStatuses
    BY DEF TaskInv, TaskNode
  <1>1. ASSUME NEW runs \in Seq(NodeRun), NEW session \in Sessions \cup {Unset},
               RunsAfter(t, c) = runs, SessionAfter(t, c) = session,
               Target(t, c) \in ExecutionStatuses
        PROVE  u \in TaskNode
    <2>1. /\ t.stackStatus \in StackStatuses
          /\ t.artifacts \in SUBSET Artifacts
          /\ t.version + 1 \in Nat
      BY <1>0 DEF TaskNode
    <2>2. c.artifacts \in SUBSET Artifacts
      BY DEF TransitionCommand
    <2>3. QED
      BY <1>1, <2>1, <2>2 DEF UpdateTask, ArtifactsAfter, TaskNode
  <1>2. CASE c.kind = "mark-running"
    <2>1. c.sessionId \in Sessions /\ NewRun(c) \in NodeRun
      BY <1>2 DEF TransitionCommand, NewRun, NodeRun, Accepted
    <2>2. OpenRuns(t.runs) = {}
      BY <1>2 DEF TaskInv, TaskHasOneOpenRunIffRunning, Accepted, From
    <2>3. /\ RunsAfter(t, c) = Append(t.runs, NewRun(c))
          /\ SessionAfter(t, c) = c.sessionId
          /\ Target(t, c) = "running"
      BY <1>2 DEF RunsAfter, SessionAfter, Target, CloseReason, ClearsSession
    <2>4. /\ RunsAfter(t, c) \in Seq(NodeRun)
          /\ OpenRuns(RunsAfter(t, c)) = {Len(RunsAfter(t, c))}
          /\ RunsAfter(t, c)[Len(RunsAfter(t, c))].runtimeSessionId = c.sessionId
          /\ Len(RunsAfter(t, c)) > 0
      BY <1>0, <2>1, <2>2, <2>3, AppendOpens DEF NewRun
    <2>5. u \in TaskNode
      BY <1>1, <2>1, <2>3, <2>4 DEF ExecutionStatuses
    <2>6. QED
      BY <2>3, <2>4, <2>5, UpdateTaskShape
         DEF TaskInv, TaskHasOneOpenRunIffRunning, NamesLastRun, LastOf
  <1>3. CASE c.kind = "update-run"
    <2>1. t.executionStatus = "running"
      BY <1>3 DEF Accepted, From
    <2>2. /\ OpenRuns(t.runs) = {Len(t.runs)}
          /\ t.sessionId = t.runs[Len(t.runs)].runtimeSessionId
      BY <2>1 DEF TaskInv, TaskHasOneOpenRunIffRunning
    <2>3. c.providerSessionRef \in Refs \cup {Unset}
      BY DEF TransitionCommand
    <2>4. /\ RunsAfter(t, c) = PatchOpenRun(t.runs, c.providerSessionRef)
          /\ SessionAfter(t, c) = t.sessionId
          /\ Target(t, c) = "running"
      BY <1>3, <2>1 DEF RunsAfter, SessionAfter, Target, CloseReason, ClearsSession
    <2>5. /\ RunsAfter(t, c) \in Seq(NodeRun)
          /\ OpenRuns(RunsAfter(t, c)) = {Len(RunsAfter(t, c))}
          /\ RunsAfter(t, c)[Len(RunsAfter(t, c))].runtimeSessionId = t.sessionId
          /\ Len(RunsAfter(t, c)) = Len(t.runs)
      BY <1>0, <2>2, <2>3, <2>4, PatchKeepsOpen
    <2>6. u \in TaskNode
      BY <1>0, <1>1, <2>4, <2>5 DEF ExecutionStatuses
    <2>7. QED
      BY <2>4, <2>5, <2>6, UpdateTaskShape
         DEF TaskInv, TaskHasOneOpenRunIffRunning, NamesLastRun, LastOf
  <1>4. CASE CloseReason(c.kind) # Unset
    <2>1. /\ RunsAfter(t, c) \in Seq(NodeRun)
          /\ OpenRuns(RunsAfter(t, c)) = {}
          /\ Len(RunsAfter(t, c)) = Len(t.runs)
          /\ Len(t.runs) > 0 => LastOf(RunsAfter(t, c)).runtimeSessionId
                                  = LastOf(t.runs).runtimeSessionId
          /\ Target(t, c) \in ExecutionStatuses \ {"running", "ready"}
      BY <1>4, ClosingTransition
    <2>2. /\ SessionAfter(t, c) \in {t.sessionId, Unset}
          /\ Target(t, c) = "pending" => SessionAfter(t, c) = Unset
      BY <1>0, <1>4 DEF SessionAfter, Target, ClearsSession, TransitionCommand,
                        CloseReason
    <2>3. u \in TaskNode
      BY <1>0, <1>1, <2>1, <2>2
    <2>4. NamesLastRun(u)
      BY <2>1, <2>2, UpdateTaskShape DEF TaskInv, NamesLastRun
    <2>5. QED
      BY <2>1, <2>2, <2>3, <2>4, UpdateTaskShape DEF TaskInv, TaskHasOneOpenRunIffRunning
  <1>5. CASE /\ CloseReason(c.kind) = Unset
             /\ c.kind \notin {"mark-running", "update-run"}
    <2>1. /\ RunsAfter(t, c) = t.runs
          /\ OpenRuns(t.runs) = {}
          /\ Target(t, c) \in ExecutionStatuses \ {"running"}
          /\ SessionAfter(t, c) = t.sessionId
          /\ Target(t, c) = "ready" => t.executionStatus = "pending"
          /\ Target(t, c) # "pending"
      BY <1>5, NeutralTransition
    <2>2. u \in TaskNode
      BY <1>0, <1>1, <2>1
    <2>3. QED
      BY <2>1, <2>2, UpdateTaskShape DEF TaskInv, TaskHasOneOpenRunIffRunning, NamesLastRun
  <1>6. QED
    BY <1>2, <1>3, <1>4, <1>5

-----------------------------------------------------------------------------
(* The graph *)

(* The roll-up is one of the statuses of a workflow. *)
LEMMA DerivedStatusType ==
  ASSUME NEW graph
  PROVE  DeriveWorkflowStatus(graph) \in WorkflowStatuses
  BY DEF DeriveWorkflowStatus, WorkflowStatuses

(* The next version of a workflow is a workflow. *)
LEMMA NextVersionType ==
  ASSUME NEW w \in Workflow, NEW graph \in [Tasks -> TaskNode],
         NEW operations \in [OpIds -> GraphOperation \cup {Unset}],
         NEW status \in WorkflowStatuses
  PROVE  NextVersion(w, graph, operations, status) \in Workflow
  BY DEF NextVersion, Workflow


(* A transition leaves the other tasks and the operations alone. *)
LEMMA TransitionShape ==
  ASSUME NEW w \in Workflow, NEW c \in TransitionCommand
  PROVE  /\ TransitionTask(w, c).graph =
              [t \in Tasks |-> IF t = c.taskId THEN UpdateTask(w.graph[t], c)
                               ELSE w.graph[t]]
         /\ TransitionTask(w, c).status =
              DeriveWorkflowStatus(TransitionTask(w, c).graph)
         /\ TransitionTask(w, c).operations = w.operations
         /\ TransitionTask(w, c).version = w.version + 1
         /\ c.taskId \in Tasks
  BY DEF TransitionTask, NextVersion, Workflow, TransitionCommand

(* A transition that gets past its checks has an argument its task accepts. *)
LEMMA AcceptedTransition ==
  ASSUME NEW w, NEW c \in TransitionCommand, TransitionOutcome(w, c) = "ok"
  PROVE  c.taskId \in Tasks /\ Accepted(w.graph[c.taskId], c)
  BY DEF TransitionOutcome, CannotRun, StaleSession, Accepted, TransitionCommand

(* An accepted transition preserves the invariant of every task. *)
LEMMA TransitionInv ==
  ASSUME NEW w, WorkflowInv(w), NEW c \in TransitionCommand,
         TransitionOutcome(w, c) = "ok"
  PROVE  WorkflowInv(TransitionTask(w, c))
  <1> DEFINE n == TransitionTask(w, c)
  <1>1. w \in Workflow /\ \A t \in Tasks : TaskInv(w.graph[t])
    BY DEF WorkflowInv
  <1>2. c.taskId \in Tasks /\ Accepted(w.graph[c.taskId], c)
    BY AcceptedTransition
  <1>3. TaskInv(UpdateTask(w.graph[c.taskId], c))
    BY <1>1, <1>2, UpdateTaskInv
  <1>4. /\ n.graph = [t \in Tasks |-> IF t = c.taskId THEN UpdateTask(w.graph[t], c)
                                      ELSE w.graph[t]]
        /\ n.status = DeriveWorkflowStatus(n.graph)
        /\ n.operations = w.operations
        /\ n.version = w.version + 1
    BY <1>1, TransitionShape
  <1>5. n = NextVersion(w, n.graph, n.operations, n.status)
    BY DEF TransitionTask, NextVersion
  <1> HIDE DEF n
  <1>6. \A t \in Tasks : TaskInv(n.graph[t])
    BY <1>1, <1>3, <1>4
  <1>7. n.graph \in [Tasks -> TaskNode]
    BY <1>4, <1>6 DEF TaskInv
  <1>8. n.status \in WorkflowStatuses
    BY <1>4, DerivedStatusType
  <1>9. n.operations \in [OpIds -> GraphOperation \cup {Unset}]
    BY <1>1, <1>4 DEF Workflow
  <1>10. n \in Workflow
    BY <1>1, <1>5, <1>7, <1>8, <1>9, NextVersionType
  <1>11. QED
    BY <1>6, <1>10 DEF WorkflowInv, n

(* What a graph command leaves alone: the statuses, the sessions and the   *)
(* runs of every task, and the roll-up.                                    *)
SameLives(w, n) ==
  /\ \A t \in Tasks :
       /\ n.graph[t].executionStatus = w.graph[t].executionStatus
       /\ n.graph[t].sessionId = w.graph[t].sessionId
       /\ n.graph[t].runs = w.graph[t].runs
       /\ w.graph[t].artifacts \subseteq n.graph[t].artifacts
  /\ n.status = w.status

(* So it preserves the invariant. *)
LEMMA SameLivesInv ==
  ASSUME NEW w, WorkflowInv(w), NEW n \in Workflow, SameLives(w, n)
  PROVE  WorkflowInv(n)
  BY DEF WorkflowInv, SameLives, TaskInv, TaskHasOneOpenRunIffRunning, NamesLastRun, Workflow

NeverCleans(w, n) ==
  \A t \in Tasks : n.graph[t].stackStatus = "clean" => w.graph[t].stackStatus = "clean"

(* Updates of the records of the aggregate, field by field. *)
LEMMA NodeUpdate ==
  ASSUME NEW t \in TaskNode, NEW stack \in StackStatuses, NEW version \in Nat
  PROVE  [t EXCEPT !.stackStatus = stack, !.version = version] \in TaskNode
  BY DEF TaskNode

(* Adding evidence changes the artifacts of a node and nothing else. *)
LEMMA ArtifactsUpdate ==
  ASSUME NEW t \in TaskNode, NEW arts \in SUBSET Artifacts
  PROVE  [t EXCEPT !.artifacts = arts] \in TaskNode
  BY DEF TaskNode

(* The graph new differs from graph in the stack status, and the versions, *)
(* of the affected tasks.                                                  *)
RestacksOnly(graph, new, affected, stack) ==
  /\ new \in [Tasks -> TaskNode]
  /\ \A t \in Tasks :
       /\ new[t].executionStatus = graph[t].executionStatus
       /\ new[t].sessionId = graph[t].sessionId
       /\ new[t].runs = graph[t].runs
       /\ new[t].artifacts = graph[t].artifacts
       /\ new[t].stackStatus = IF t \in affected THEN stack ELSE graph[t].stackStatus

(* Moving the affected nodes to a stack status only restacks the graph. *)
LEMMA RestackedShape ==
  ASSUME NEW graph \in [Tasks -> TaskNode], NEW affected \in SUBSET Tasks,
         NEW stack \in StackStatuses
  PROVE  RestacksOnly(graph, Restacked(graph, affected, stack), affected, stack)
  <1>1. ASSUME NEW t \in Tasks
        PROVE  [graph[t] EXCEPT !.stackStatus = stack, !.version = @ + 1] \in TaskNode
    <2>1. graph[t] \in TaskNode
      OBVIOUS
    <2>2. graph[t].version + 1 \in Nat
      BY <2>1 DEF TaskNode
    <2>3. QED
      BY <2>1, <2>2, NodeUpdate
  <1>2. \A t \in Tasks : graph[t] \in TaskNode
    OBVIOUS
  <1>3. QED
    BY <1>1, <1>2 DEF Restacked, RestacksOnly, TaskNode

(* Asking for a restack makes a workflow of the right type whose graph is  *)
(* only restacked.                                                         *)
LEMMA RequestShape ==
  ASSUME NEW w \in Workflow, NEW id \in OpIds, NEW ancestor \in Tasks, NEW key \in Keys,
         NEW n, n = RequestRestack(w, id, ancestor, key)
  PROVE  n \in Workflow /\ SameLives(w, n) /\ NeverCleans(w, n)
  <1>1. CASE \E o \in Requested(w) : w.operations[o].idempotencyKey = key
    BY <1>1 DEF RequestRestack, SameLives, NeverCleans
  <1>2. CASE ~ \E o \in Requested(w) : w.operations[o].idempotencyKey = key
    <2> DEFINE graph == Restacked(w.graph, Descendants(ancestor), "restack-pending")
               operations == [w.operations EXCEPT ![id] = RestackOperation(ancestor, key)]
    <2>1. /\ w \in Workflow
          /\ w.graph \in [Tasks -> TaskNode]
          /\ w.operations \in [OpIds -> GraphOperation \cup {Unset}]
          /\ w.status \in WorkflowStatuses
          /\ Descendants(ancestor) \in SUBSET Tasks
          /\ "restack-pending" \in StackStatuses
      BY DEF Workflow, Descendants, StackStatuses
    <2>2. RestackOperation(ancestor, key) \in GraphOperation
      BY <2>1 DEF RestackOperation, GraphOperation, OperationStatuses
    <2>3. operations \in [OpIds -> GraphOperation \cup {Unset}]
      BY <2>1, <2>2
    <2>4. /\ graph \in [Tasks -> TaskNode]
          /\ \A t \in Tasks :
               /\ graph[t].executionStatus = w.graph[t].executionStatus
               /\ graph[t].sessionId = w.graph[t].sessionId
               /\ graph[t].runs = w.graph[t].runs
               /\ graph[t].artifacts = w.graph[t].artifacts
               /\ graph[t].stackStatus = "clean" => w.graph[t].stackStatus = "clean"
      <3>1. RestacksOnly(w.graph, graph, Descendants(ancestor), "restack-pending")
        BY <2>1, RestackedShape
      <3>2. QED
        BY <3>1 DEF RestacksOnly
    <2>5. n = NextVersion(w, graph, operations, w.status)
      BY <1>2 DEF RequestRestack
    <2> HIDE DEF graph, operations
    <2>6. n \in Workflow
      BY <2>1, <2>3, <2>4, <2>5, NextVersionType
    <2>7. n.graph = graph /\ n.status = w.status
      BY <2>5 DEF NextVersion
    <2>8. SameLives(w, n) /\ NeverCleans(w, n)
      BY <2>4, <2>7 DEF SameLives, NeverCleans
    <2>9. QED
      BY <2>6, <2>8
  <1>3. QED
    BY <1>1, <1>2

(* Starting a restack or marking its conflict moves one operation and only *)
(* restacks the graph.                                                     *)
LEMMA MoveShape ==
  ASSUME NEW w \in Workflow, NEW id \in Requested(w), NEW status \in OperationStatuses,
         NEW stack \in StackStatuses
  PROVE  /\ MoveOperation(w, id, status, stack) \in Workflow
         /\ SameLives(w, MoveOperation(w, id, status, stack))
         /\ stack # "clean" => NeverCleans(w, MoveOperation(w, id, status, stack))
  <1> DEFINE op == w.operations[id]
             affected == op.affectedNodeIds
             graph == Restacked(w.graph, affected, stack)
             operations == [w.operations EXCEPT ![id] = MovedOperation(op, status)]
             n == MoveOperation(w, id, status, stack)
  <1>1. /\ id \in OpIds
        /\ op \in GraphOperation
        /\ w \in Workflow
        /\ w.graph \in [Tasks -> TaskNode]
        /\ w.operations \in [OpIds -> GraphOperation \cup {Unset}]
        /\ w.status \in WorkflowStatuses
    BY DEF Requested, Workflow
  <1>2. affected \in SUBSET Tasks /\ MovedOperation(op, status) \in GraphOperation
    BY <1>1 DEF GraphOperation, MovedOperation
  <1>3. operations \in [OpIds -> GraphOperation \cup {Unset}]
    BY <1>1, <1>2
  <1>4. n = NextVersion(w, graph, operations, w.status)
    BY <1>1 DEF MoveOperation
  <1> HIDE DEF op, n, affected
  <1>5. /\ graph \in [Tasks -> TaskNode]
        /\ \A t \in Tasks :
             /\ graph[t].executionStatus = w.graph[t].executionStatus
             /\ graph[t].sessionId = w.graph[t].sessionId
             /\ graph[t].runs = w.graph[t].runs
             /\ graph[t].artifacts = w.graph[t].artifacts
             /\ graph[t].stackStatus = IF t \in affected THEN stack
                                       ELSE w.graph[t].stackStatus
    <2>1. RestacksOnly(w.graph, graph, affected, stack)
      BY <1>1, <1>2, RestackedShape
    <2>2. QED
      BY <2>1 DEF RestacksOnly
  <1> HIDE DEF graph, operations
  <1>6. n \in Workflow
    BY <1>1, <1>3, <1>4, <1>5, NextVersionType
  <1>7. n.graph = graph /\ n.status = w.status
    BY <1>4 DEF NextVersion
  <1>8. SameLives(w, n) /\ (stack # "clean" => NeverCleans(w, n))
    BY <1>5, <1>7 DEF SameLives, NeverCleans
  <1>9. QED
    BY <1>6, <1>8 DEF n

(* Adding artifacts to the affected nodes changes nothing else. *)
LEMMA WithArtifactsShape ==
  ASSUME NEW graph \in [Tasks -> TaskNode], NEW affected \in SUBSET Tasks,
         NEW arts \in [Tasks -> SUBSET Artifacts]
  PROVE  /\ WithArtifacts(graph, affected, arts) \in [Tasks -> TaskNode]
         /\ \A t \in Tasks :
              /\ WithArtifacts(graph, affected, arts)[t].executionStatus
                   = graph[t].executionStatus
              /\ WithArtifacts(graph, affected, arts)[t].sessionId = graph[t].sessionId
              /\ WithArtifacts(graph, affected, arts)[t].runs = graph[t].runs
              /\ WithArtifacts(graph, affected, arts)[t].stackStatus
                   = graph[t].stackStatus
              /\ graph[t].artifacts
                   \subseteq WithArtifacts(graph, affected, arts)[t].artifacts
  <1>1. ASSUME NEW t \in Tasks
        PROVE  [graph[t] EXCEPT !.artifacts = @ \cup arts[t]] \in TaskNode
    <2>1. graph[t] \in TaskNode
      OBVIOUS
    <2>2. graph[t].artifacts \cup arts[t] \in SUBSET Artifacts
      BY <2>1 DEF TaskNode
    <2>3. QED
      BY <2>1, <2>2, ArtifactsUpdate
  <1>2. \A t \in Tasks : graph[t] \in TaskNode
    OBVIOUS
  <1>3. QED
    BY <1>1, <1>2 DEF WithArtifacts, TaskNode

(* Completing a restack: the operation is completed and the lives of the   *)
(* tasks go on.                                                            *)
LEMMA CompleteShape ==
  ASSUME NEW w \in Workflow, NEW id \in Requested(w), NEW arts \in [Tasks -> SUBSET Artifacts]
  PROVE  /\ CompleteRestack(w, id, arts) \in Workflow
         /\ SameLives(w, CompleteRestack(w, id, arts))
         /\ \A t \in Tasks :
              CompleteRestack(w, id, arts).graph[t].stackStatus
                = IF t \in w.operations[id].affectedNodeIds THEN "clean"
                  ELSE w.graph[t].stackStatus
         /\ CompleteRestack(w, id, arts).operations =
              [w.operations EXCEPT ![id] = MovedOperation(@, "completed")]
  <1> DEFINE op == w.operations[id]
             affected == op.affectedNodeIds
             cleaned == Restacked(w.graph, affected, "clean")
             graph == WithArtifacts(cleaned, affected, arts)
             operations == [w.operations EXCEPT ![id] = MovedOperation(op, "completed")]
             n == CompleteRestack(w, id, arts)
  <1>1. /\ id \in OpIds
        /\ op \in GraphOperation
        /\ w \in Workflow
        /\ w.graph \in [Tasks -> TaskNode]
        /\ w.operations \in [OpIds -> GraphOperation \cup {Unset}]
        /\ w.status \in WorkflowStatuses
    BY DEF Requested, Workflow
  <1>2. affected \in SUBSET Tasks /\ MovedOperation(op, "completed") \in GraphOperation
    BY <1>1 DEF GraphOperation, MovedOperation, OperationStatuses
  <1>3. operations \in [OpIds -> GraphOperation \cup {Unset}]
    BY <1>1, <1>2
  <1>4. n = NextVersion(w, graph, operations, w.status)
    BY <1>1 DEF CompleteRestack
  <1>5. "clean" \in StackStatuses
    BY DEF StackStatuses
  <1> HIDE DEF n, op, affected
  <1>6. /\ cleaned \in [Tasks -> TaskNode]
        /\ \A t \in Tasks :
             /\ cleaned[t].executionStatus = w.graph[t].executionStatus
             /\ cleaned[t].sessionId = w.graph[t].sessionId
             /\ cleaned[t].runs = w.graph[t].runs
             /\ cleaned[t].artifacts = w.graph[t].artifacts
             /\ cleaned[t].stackStatus = IF t \in affected THEN "clean"
                                         ELSE w.graph[t].stackStatus
    <2>1. RestacksOnly(w.graph, cleaned, affected, "clean")
      BY <1>1, <1>2, <1>5, RestackedShape
    <2>2. QED
      BY <2>1 DEF RestacksOnly
  <1> HIDE DEF cleaned
  <1>7. /\ graph \in [Tasks -> TaskNode]
        /\ \A t \in Tasks :
             /\ graph[t].executionStatus = cleaned[t].executionStatus
             /\ graph[t].sessionId = cleaned[t].sessionId
             /\ graph[t].runs = cleaned[t].runs
             /\ graph[t].stackStatus = cleaned[t].stackStatus
             /\ cleaned[t].artifacts \subseteq graph[t].artifacts
    BY <1>2, <1>6, WithArtifactsShape
  <1> HIDE DEF graph, operations
  <1>8. n \in Workflow
    BY <1>1, <1>3, <1>4, <1>7, NextVersionType
  <1>9. n.graph = graph /\ n.status = w.status /\ n.operations = operations
    BY <1>4 DEF NextVersion
  <1>10. SameLives(w, n)
    BY <1>6, <1>7, <1>9 DEF SameLives
  <1>11. \A t \in Tasks : n.graph[t].stackStatus
             = IF t \in affected THEN "clean" ELSE w.graph[t].stackStatus
    BY <1>6, <1>7, <1>9
  <1>12. QED
    BY <1>8, <1>9, <1>10, <1>11 DEF n, op, operations, affected

-----------------------------------------------------------------------------
(* One step *)

(* A completed restack cleans the tasks its running operation covers. *)
Cleans(w, n, id) ==
  /\ id \in OpIds
  /\ w.operations[id] # Unset
  /\ w.operations[id].status = "running"
  /\ n.operations[id].status = "completed"
  /\ \A t \in Tasks : /\ w.graph[t].stackStatus # "clean"
                       /\ n.graph[t].stackStatus = "clean"
                       => t \in w.operations[id].affectedNodeIds

(* A graph command leaves the lives of the tasks alone, and only a         *)
(* completion cleans a task.                                               *)
LEMMA GraphCommandShape ==
  ASSUME NEW w \in Workflow, NEW c \in Command, c.kind # "transition-task",
         Outcome(w, c) = "ok", NEW n, n = Apply(w, c)
  PROVE  /\ n \in Workflow
         /\ SameLives(w, n)
         /\ NeverCleans(w, n) \/ \E id \in OpIds : Cleans(w, n, id)
  <1>1. CASE c.kind = "request-restack"
    <2>1. c.operationId \in OpIds /\ c.ancestorId \in Tasks /\ c.idempotencyKey \in Keys
      BY <1>1 DEF Command
    <2>2. n = RequestRestack(w, c.operationId, c.ancestorId, c.idempotencyKey)
      BY <1>1 DEF Apply
    <2>3. QED
      BY <2>1, <2>2, RequestShape
  <1>2. CASE c.kind = "start-restack"
    <2>1. n = MoveOperation(w, c.operationId, "running", "restacking")
      BY <1>2 DEF Apply, StartRestack
    <2>2. c.operationId \in Requested(w)
      BY <1>2 DEF Outcome, OperationOutcome
    <2>3. "running" \in OperationStatuses /\ "restacking" \in StackStatuses
      BY DEF OperationStatuses, StackStatuses
    <2>4. QED
      BY <2>1, <2>2, <2>3, MoveShape
  <1>3. CASE c.kind = "mark-restack-conflict"
    <2>1. n = MoveOperation(w, c.operationId, "conflict", "restack-conflict")
      BY <1>3 DEF Apply, MarkRestackConflict
    <2>2. c.operationId \in Requested(w)
      BY <1>3 DEF Outcome, OperationOutcome
    <2>3. "conflict" \in OperationStatuses /\ "restack-conflict" \in StackStatuses
      BY DEF OperationStatuses, StackStatuses
    <2>4. QED
      BY <2>1, <2>2, <2>3, MoveShape
  <1>4. CASE c.kind = "complete-restack"
    <2>1. n = CompleteRestack(w, c.operationId, c.artifactsByTaskId)
      BY <1>4 DEF Apply
    <2>2. /\ c.operationId \in Requested(w)
          /\ w.operations[c.operationId].status = "running"
      BY <1>4 DEF Outcome, OperationOutcome
    <2>3. c.artifactsByTaskId \in [Tasks -> SUBSET Artifacts]
      BY <1>4 DEF Command
    <2>4. /\ n \in Workflow
          /\ SameLives(w, n)
          /\ \A t \in Tasks :
               n.graph[t].stackStatus
                 = IF t \in w.operations[c.operationId].affectedNodeIds THEN "clean"
                   ELSE w.graph[t].stackStatus
          /\ n.operations =
               [w.operations EXCEPT ![c.operationId] = MovedOperation(@, "completed")]
      BY <2>1, <2>2, <2>3, CompleteShape
    <2>5. /\ c.operationId \in OpIds
          /\ w.operations[c.operationId] # Unset
          /\ w.operations \in [OpIds -> GraphOperation \cup {Unset}]
      BY <2>2 DEF Requested, Workflow
    <2>6. n.operations[c.operationId]
            = MovedOperation(w.operations[c.operationId], "completed")
      BY <2>4, <2>5
    <2>7. n.operations[c.operationId].status = "completed"
      BY <2>6 DEF MovedOperation
    <2>8. Cleans(w, n, c.operationId)
      BY <2>2, <2>4, <2>5, <2>7 DEF Cleans
    <2>9. QED
      BY <2>4, <2>5, <2>8
  <1>5. QED
    BY <1>1, <1>2, <1>3, <1>4 DEF Command

(* A new workflow satisfies the invariant ... *)
LEMMA NewWorkflowInv == WorkflowInv(NewWorkflow)
  <1>1. NewTask \in TaskNode
    BY DEF NewTask, TaskNode, ExecutionStatuses, StackStatuses
  <1>2. OpenRuns(NewTask.runs) = {}
    BY DEF NewTask, OpenRuns
  <1>3. TaskInv(NewTask)
    BY <1>1, <1>2 DEF NewTask, TaskInv, TaskHasOneOpenRunIffRunning, NamesLastRun
  <1>4. NewWorkflow \in Workflow
    BY <1>1 DEF NewWorkflow, Workflow, WorkflowStatuses
  <1>5. QED
    BY <1>3, <1>4 DEF NewWorkflow, WorkflowInv

(* ... and every accepted command preserves it. *)
LEMMA ApplyInv ==
  ASSUME NEW w, WorkflowInv(w), NEW c \in Command, Outcome(w, c) = "ok"
  PROVE  WorkflowInv(Apply(w, c))
  <1>1. CASE c.kind = "transition-task"
    <2>1. /\ c.transition \in TransitionCommand
          /\ TransitionOutcome(w, c.transition) = "ok"
          /\ Apply(w, c) = TransitionTask(w, c.transition)
      BY <1>1 DEF Command, Outcome, Apply
    <2>2. QED
      BY <2>1, TransitionInv
  <1>2. CASE c.kind # "transition-task"
    <2>1. Apply(w, c) \in Workflow /\ SameLives(w, Apply(w, c))
      BY <1>2, GraphCommandShape DEF WorkflowInv
    <2>2. QED
      BY <2>1, SameLivesInv
  <1>3. QED
    BY <1>1, <1>2

-----------------------------------------------------------------------------
(* Replaying a log *)

(* A set of natural numbers has a least one. *)
LEMMA LeastNumber ==
  ASSUME NEW I \in SUBSET Nat, I # {}
  PROVE  \E m \in I : \A j \in I : m <= j
  <1>1. PICK m \in I : \A j \in I : ~(<<j, m>> \in OpToRel(<, Nat))
    BY NatLessThanWellFounded, WFMin, Zenon
  <1>2. \A j \in I : ~(j < m)
    BY <1>1 DEF OpToRel
  <1>3. QED
    BY <1>2

(* h holds the copies after up to m events *)
Replays(h, copy, events, m) ==
  h = [n \in 0 .. m |-> IF n = 0 THEN copy
                        ELSE ApplyWorkflowEvent(h[n - 1], events[n])]

(* The events can be applied one after the other: the first copies are     *)
(* continued by applying the next event to the last.                       *)
LEMMA ReplayExists ==
  ASSUME NEW copy, NEW events, Len(events) \in Nat
  PROVE  \E h : Replays(h, copy, events, Len(events))
  <1> DEFINE Stuck == {m \in Nat : ~ \E h : Replays(h, copy, events, m)}
  <1>1. CASE Stuck = {}
    BY <1>1
  <1>2. CASE Stuck # {}
    <2>1. PICK m \in Stuck : \A j \in Stuck : m <= j
      BY <1>2, LeastNumber
    <2>2. m \in Nat /\ ~ \E h : Replays(h, copy, events, m)
      OBVIOUS
    <2>3. CASE m = 0
      <3> DEFINE g == [n \in 0 .. 0 |-> copy]
      <3>1. g = [n \in 0 .. 0 |-> IF n = 0 THEN copy
                                  ELSE ApplyWorkflowEvent(g[n - 1], events[n])]
        OBVIOUS
      <3> HIDE DEF g
      <3>2. Replays(g, copy, events, m)
        BY <2>3, <3>1 DEF Replays
      <3>3. QED
        BY <2>2, <3>2
    <2>4. CASE m # 0
      <3>1. m - 1 \in Nat /\ m - 1 \notin Stuck
        BY <2>1, <2>2, <2>4
      <3>2. PICK h : Replays(h, copy, events, m - 1)
        BY <3>1
      <3> DEFINE g == [n \in 0 .. m |-> IF n = m THEN ApplyWorkflowEvent(h[m - 1], events[m])
                                        ELSE h[n]]
      <3>3. \A n \in 0 .. m - 1 :
              h[n] = IF n = 0 THEN copy ELSE ApplyWorkflowEvent(h[n - 1], events[n])
        BY <3>2 DEF Replays
      <3>4. \A n \in 0 .. m - 1 : g[n] = h[n]
        BY <2>2
      <3>5. g[m] = ApplyWorkflowEvent(g[m - 1], events[m])
        BY <2>2, <3>1, <3>4
      <3>6. \A n \in 0 .. m :
              g[n] = IF n = 0 THEN copy ELSE ApplyWorkflowEvent(g[n - 1], events[n])
        <4> SUFFICES ASSUME NEW n \in 0 .. m
                     PROVE  g[n] = IF n = 0 THEN copy
                                   ELSE ApplyWorkflowEvent(g[n - 1], events[n])
          OBVIOUS
        <4> HIDE DEF g
        <4>1. CASE n = m
          BY <2>4, <3>5, <4>1
        <4>2. CASE n = 0 /\ n # m
          BY <2>2, <3>1, <3>3, <3>4, <4>2
        <4>3. CASE n # 0 /\ n # m
          <5>1. n \in 0 .. m - 1 /\ n - 1 \in 0 .. m - 1
            BY <2>2, <4>3
          <5>2. QED
            BY <3>3, <3>4, <4>3, <5>1
        <4>4. QED
          BY <4>1, <4>2, <4>3
      <3>7. g = [n \in 0 .. m |-> g[n]]
        OBVIOUS
      <3> HIDE DEF g
      <3>8. Replays(g, copy, events, m)
        BY <3>6, <3>7 DEF Replays
      <3>9. QED
        BY <2>2, <3>8
    <2>5. QED
      BY <2>3, <2>4
  <1>3. QED
    BY <1>1, <1>2

(* The copies of the reducer are the copy it starts with and then, at each *)
(* event, the one before with the event applied.                           *)
LEMMA CopiesStep ==
  ASSUME NEW copy, NEW events, Len(events) \in Nat
  PROVE  /\ Copies(copy, events)[0] = copy
         /\ \A n \in 1 .. Len(events) :
              Copies(copy, events)[n]
                = ApplyWorkflowEvent(Copies(copy, events)[n - 1], events[n])
  <1> DEFINE after == Copies(copy, events)
  <1>1. PICK h : Replays(h, copy, events, Len(events))
    BY ReplayExists
  <1>2. (h = [n \in 0 .. Len(events) |->
                IF n = 0 THEN copy ELSE ApplyWorkflowEvent(h[n - 1], events[n])])
          => Copies(copy, events)
               = [n \in 0 .. Len(events) |->
                    IF n = 0 THEN copy
                    ELSE ApplyWorkflowEvent(Copies(copy, events)[n - 1], events[n])]
    BY DEF Copies
  <1>3. after = [n \in 0 .. Len(events) |->
                   IF n = 0 THEN copy ELSE ApplyWorkflowEvent(after[n - 1], events[n])]
    BY <1>1, <1>2 DEF Replays
  <1> HIDE DEF after
  <1>4. \A n \in 0 .. Len(events) :
          after[n] = IF n = 0 THEN copy ELSE ApplyWorkflowEvent(after[n - 1], events[n])
    BY <1>3
  <1>5. QED
    BY <1>4 DEF after

(* Two logs that tell the same from somewhere on, beginning with the same  *)
(* copy, lead to the same copy.                                            *)
LEMMA SameTale ==
  ASSUME NEW one, NEW two, NEW s, NEW t, Len(s) \in Nat, Len(t) \in Nat,
         NEW k \in Nat, NEW m \in Nat, k + m <= Len(s), m <= Len(t),
         Copies(one, s)[k] = two, \A i \in 1 .. m : s[k + i] = t[i]
  PROVE  Copies(one, s)[k + m] = Copies(two, t)[m]
  <1> DEFINE Differ == {n \in 0 .. m : Copies(one, s)[k + n] # Copies(two, t)[n]}
  <1>1. CASE Differ = {}
    BY <1>1
  <1>2. CASE Differ # {}
    <2>0. Differ \in SUBSET Nat
      OBVIOUS
    <2>1. PICK n \in Differ : \A j \in Differ : n <= j
      <3> HIDE DEF Differ
      <3>1. QED
        BY <1>2, <2>0, LeastNumber
    <2>2. n \in 0 .. m /\ Copies(one, s)[k + n] # Copies(two, t)[n]
      OBVIOUS
    <2>3. n # 0
      BY <2>2, CopiesStep
    <2>4. n - 1 \in 0 .. m /\ n - 1 \notin Differ
      BY <2>1, <2>2, <2>3
    <2>5. Copies(one, s)[k + (n - 1)] = Copies(two, t)[n - 1]
      BY <2>4
    <2>6. /\ k + n \in 1 .. Len(s) /\ n \in 1 .. Len(t) /\ (k + n) - 1 = k + (n - 1)
          /\ s[k + n] = t[n]
      BY <2>2, <2>3
    <2>7. /\ Copies(one, s)[k + n] = ApplyWorkflowEvent(Copies(one, s)[k + (n - 1)], s[k + n])
          /\ Copies(two, t)[n] = ApplyWorkflowEvent(Copies(two, t)[n - 1], t[n])
      BY <2>6, CopiesStep
    <2>8. QED
      BY <2>2, <2>5, <2>6, <2>7
  <1>3. QED
    BY <1>1, <1>2

(* A log that is continued is applied by applying what is new to the copy  *)
(* reached so far.                                                         *)
LEMMA ReducedOnwards ==
  ASSUME NEW copy, NEW E, NEW past \in Seq(E), NEW more \in Seq(E)
  PROVE  Reduced(copy, past \o more) = Reduced(Reduced(copy, past), more)
  <1> DEFINE all == past \o more
  <1>1. /\ Len(past) \in Nat /\ Len(more) \in Nat /\ Len(all) = Len(past) + Len(more)
        /\ \A i \in 1 .. Len(past) : all[0 + i] = past[i]
        /\ \A i \in 1 .. Len(more) : all[Len(past) + i] = more[i]
    OBVIOUS
  <1> HIDE DEF all
  <1>2. Copies(copy, all)[0] = copy
    BY <1>1, CopiesStep
  <1>3. Copies(copy, all)[0 + Len(past)] = Copies(copy, past)[Len(past)]
    BY <1>1, <1>2, SameTale
  <1>4. Copies(copy, all)[Len(past)] = Reduced(copy, past)
    BY <1>1, <1>3 DEF Reduced
  <1>5. Copies(copy, all)[Len(past) + Len(more)] = Copies(Reduced(copy, past), more)[Len(more)]
    <2> DEFINE two == Reduced(copy, past)
               k == Len(past)
               m == Len(more)
    <2>1. Copies(copy, all)[k] = two
      BY <1>4
    <2>2. k \in Nat /\ m \in Nat /\ k + m <= Len(all) /\ m <= Len(more) /\ Len(all) \in Nat
      BY <1>1
    <2>3. \A i \in 1 .. m : all[k + i] = more[i]
      BY <1>1
    <2>4. Len(more) \in Nat
      BY <1>1
    <2> HIDE DEF two, k, m
    <2>5. Copies(copy, all)[k + m] = Copies(two, more)[m]
      BY <2>1, <2>2, <2>3, <2>4, SameTale
    <2>6. QED
      BY <2>5 DEF two, k, m
  <1>6. QED
    BY <1>1, <1>5 DEF Reduced, all

-----------------------------------------------------------------------------
(* Listings *)

Lists(events, S) ==
  /\ \A i \in 1 .. Len(events) : events[i] \in S
  /\ \A e \in S : \E i \in 1 .. Len(events) : events[i] = e

(* Listing a finite set without repetition lists all of it. *)
LEMMA InjectionLists ==
  ASSUME NEW S, IsFiniteSet(S), NEW f \in [1 .. Cardinality(S) -> S],
         \A a, b \in 1 .. Cardinality(S) : f[a] = f[b] => a = b
  PROVE  f \in Seq(S) /\ Lists(f, S)
  <1> DEFINE n == Cardinality(S)
  <1>1. n \in Nat
    BY FS_CardinalityType
  <1>2. IsFiniteSet(1 .. n) /\ Cardinality(1 .. n) = n
    BY <1>1, FS_Interval
  <1>3. f \in Injection(1 .. n, S)
    BY DEF Injection, IsInjective
  <1>4. f \in Surjection(1 .. n, S)
    BY <1>2, <1>3, FS_Injection
  <1>5. f \in Seq(S) /\ Len(f) = n
    BY <1>1
  <1> HIDE DEF n
  <1>6. QED
    BY <1>1, <1>4, <1>5 DEF Lists, Surjection

-----------------------------------------------------------------------------
(* What a command does to the history of a task is what clients are told:  *)
(* they see the same runs, or one more that is open, or the last one ended *)
RunsTellable(old, new) ==
  \/ /\ Len(new) = Len(old)
     /\ ClientRuns(new) = ClientRuns(old)
     /\ ~LastRunEnded(old, new)
  \/ /\ Len(new) = Len(old) + 1
     /\ ClientRuns(new) = Append(ClientRuns(old),
          [runtimeSessionId |-> LastOf(new).runtimeSessionId, terminalReason |-> Unset])
  \/ /\ LastRunEnded(old, new)
     /\ ClientRuns(new) = [ClientRuns(old) EXCEPT ![Len(new)].terminalReason
                                                    = LastOf(new).terminalReason]

(* Every accepted transition leaves a history that can be told. *)
LEMMA RunsAreTold ==
  ASSUME NEW t, TaskInv(t), NEW c \in TransitionCommand, Accepted(t, c)
  PROVE  RunsTellable(t.runs, RunsAfter(t, c))
  <1>0. t.runs \in Seq(NodeRun)
    BY DEF TaskInv, TaskNode
  <1> DEFINE runs == t.runs
             new == RunsAfter(t, c)
  <1>1. CASE c.kind = "mark-running"
    <2>1. new = Append(runs, NewRun(c))
      BY <1>1 DEF RunsAfter, CloseReason
    <2>2. Len(new) = Len(runs) + 1 /\ LastOf(new) = NewRun(c)
      BY <1>0, <2>1 DEF LastOf
    <2>3. /\ DOMAIN runs = 1 .. Len(runs) /\ DOMAIN new = 1 .. (Len(runs) + 1)
          /\ \A i \in 1 .. Len(runs) : new[i] = runs[i]
          /\ new[Len(runs) + 1] = NewRun(c)
          /\ Len(runs) \in Nat
      BY <1>0, <2>1
    <2> HIDE DEF new, runs
    <2>4. Append(ClientRuns(runs), [runtimeSessionId |-> LastOf(new).runtimeSessionId,
                                    terminalReason |-> Unset])
            = [i \in 1 .. (Len(runs) + 1) |->
                 IF i = Len(runs) + 1
                 THEN [runtimeSessionId |-> LastOf(new).runtimeSessionId, terminalReason |-> Unset]
                 ELSE ClientRuns(runs)[i]]
      <3>1. ClientRuns(runs) \in Seq({ClientRuns(runs)[i] : i \in 1 .. Len(runs)})
            /\ Len(ClientRuns(runs)) = Len(runs)
        BY <2>3 DEF ClientRuns
      <3>2. QED
        BY <3>1, <2>3
    <2>5. ClientRuns(new) = Append(ClientRuns(runs),
            [runtimeSessionId |-> LastOf(new).runtimeSessionId, terminalReason |-> Unset])
      BY <2>2, <2>3, <2>4 DEF ClientRuns, NewRun
    <2>6. RunsTellable(runs, new)
      BY <2>2, <2>5 DEF RunsTellable
    <2>7. QED
      BY <2>6 DEF runs, new
  <1>2. CASE c.kind = "update-run"
    <2>1. t.executionStatus = "running"
      BY <1>2 DEF Accepted, From
    <2>2. OpenRuns(runs) = {Len(runs)}
      BY <2>1 DEF TaskInv, TaskHasOneOpenRunIffRunning
    <2>3. new = PatchOpenRun(runs, c.providerSessionRef)
      BY <1>2 DEF RunsAfter, CloseReason
    <2>4. OpenRun(runs) = Len(runs) /\ Len(runs) \in DOMAIN runs
      BY <1>0, <2>2, OpenRunIsLast
    <2>5. /\ DOMAIN new = DOMAIN runs /\ Len(new) = Len(runs)
          /\ \A i \in DOMAIN runs :
               /\ new[i].terminalReason = runs[i].terminalReason
               /\ new[i].runtimeSessionId = runs[i].runtimeSessionId
      <3>1. CASE c.providerSessionRef = Unset
        BY <2>3, <3>1 DEF PatchOpenRun
      <3>2. CASE c.providerSessionRef # Unset
        <4>1. new = [runs EXCEPT ![Len(runs)].providerSessionRef = c.providerSessionRef]
          BY <2>3, <2>4, <3>2 DEF PatchOpenRun
        <4>2. \A i \in DOMAIN runs : runs[i] \in NodeRun
          BY <1>0
        <4> HIDE DEF new, runs
        <4>3. QED
          BY <1>0, <2>4, <4>1, <4>2 DEF NodeRun, runs
      <3>3. QED
        BY <3>1, <3>2
    <2> HIDE DEF new, runs
    <2>6. ClientRuns(new) = ClientRuns(runs)
      BY <2>5 DEF ClientRuns
    <2>7. ~LastRunEnded(runs, new)
      BY <2>4, <2>5 DEF LastRunEnded, LastOf
    <2>8. RunsTellable(runs, new)
      BY <2>5, <2>6, <2>7 DEF RunsTellable
    <2>9. QED
      BY <2>8 DEF runs, new
  <1>3. CASE CloseReason(c.kind) # Unset
    <2>1. c.kind \in {"complete-runtime", "cancel-task", "recover-task",
                      "mark-interrupted", "fail-task"}
      BY <1>3 DEF CloseReason
    <2>2. /\ new = CloseLatestRun(runs, CloseReason(c.kind))
          /\ CloseReason(c.kind) \in TerminalReasons
      BY <1>3, <2>1 DEF RunsAfter, CloseReason, TerminalReasons
    <2>3. CASE OpenRuns(runs) = {}
      <3>1. new = runs
        BY <2>2, <2>3 DEF CloseLatestRun, OpenRun
      <3> HIDE DEF new, runs
      <3>2. RunsTellable(runs, new)
        BY <3>1 DEF RunsTellable, LastRunEnded
      <3>3. QED
        BY <3>2 DEF runs, new
    <2>4. CASE OpenRuns(runs) = {Len(runs)}
      <3> DEFINE reason == CloseReason(c.kind)
                 n == Len(runs)
      <3>1. OpenRun(runs) = n /\ n \in DOMAIN runs /\ n \in 1 .. n /\ n \in Nat
        BY <1>0, <2>4, OpenRunIsLast
      <3>2. new = [runs EXCEPT ![n].terminalReason = reason]
        BY <2>2, <3>1 DEF CloseLatestRun
      <3>3. runs[n].terminalReason = Unset /\ reason # Unset
        BY <1>3, <2>4 DEF OpenRuns
      <3>4. \A i \in DOMAIN runs : runs[i] \in NodeRun
        BY <1>0
      <3> HIDE DEF new, reason
      <3>5. /\ DOMAIN new = DOMAIN runs /\ Len(new) = n
            /\ \A i \in DOMAIN runs :
                 /\ new[i].runtimeSessionId = runs[i].runtimeSessionId
                 /\ new[i].terminalReason = IF i = n THEN reason ELSE runs[i].terminalReason
        BY <1>0, <3>1, <3>2, <3>4 DEF NodeRun
      <3> HIDE DEF n, runs
      <3>6. LastOf(runs) = runs[n] /\ LastOf(new) = new[n]
        BY <3>5 DEF LastOf, n
      <3>7. LastRunEnded(runs, new)
        BY <3>1, <3>3, <3>5, <3>6 DEF LastRunEnded, n
      <3>8. ClientRuns(new) = [ClientRuns(runs) EXCEPT ![n].terminalReason
                                                          = LastOf(new).terminalReason]
        BY <3>1, <3>5, <3>6 DEF ClientRuns
      <3>9. RunsTellable(runs, new)
        BY <3>5, <3>7, <3>8 DEF RunsTellable
      <3>10. QED
        BY <3>9 DEF runs, new
    <2>5. OpenRuns(runs) \in {{}, {Len(runs)}}
      BY DEF TaskInv, TaskHasOneOpenRunIffRunning
    <2>6. QED
      BY <2>3, <2>4, <2>5
  <1>4. CASE /\ CloseReason(c.kind) = Unset
             /\ c.kind \notin {"mark-running", "update-run"}
    <2>1. new = runs
      BY <1>4, NeutralTransition
    <2> HIDE DEF new, runs
    <2>2. RunsTellable(runs, new)
      BY <2>1 DEF RunsTellable, LastRunEnded
    <2>3. QED
      BY <2>2 DEF new, runs
  <1>5. QED
    BY <1>1, <1>2, <1>3, <1>4

-----------------------------------------------------------------------------
(* What a command does to a workflow can be told: to the history of each   *)
(* task and its version, and to the operations, of which it moves one at   *)
(* most and drops none.                                                    *)
MovesOne(w, n, id) ==
  \A o \in OpIds : /\ o # id => n.operations[o] = w.operations[o]
                   /\ w.operations[o] # Unset => n.operations[o] # Unset

Tellable(w, n) ==
  /\ w \in Workflow /\ n \in Workflow
  /\ \A t \in Tasks : /\ w.graph[t].version <= n.graph[t].version
                      /\ RunsTellable(w.graph[t].runs, n.graph[t].runs)
  /\ n.operations # w.operations => \E id \in OpIds : MovesOne(w, n, id)

(* A history that is not touched can be told. *)
LEMMA SameRunsTellable == ASSUME NEW runs PROVE RunsTellable(runs, runs)
  BY DEF RunsTellable, LastRunEnded

(* Restacking never takes a version back. *)
LEMMA RestackedVersions ==
  ASSUME NEW graph \in [Tasks -> TaskNode], NEW affected, NEW stack, NEW t \in Tasks
  PROVE  /\ Restacked(graph, affected, stack)[t].version \in Nat
         /\ graph[t].version <= Restacked(graph, affected, stack)[t].version
  <1>1. graph[t] \in TaskNode
    OBVIOUS
  <1>2. graph[t].version \in Nat
    BY <1>1 DEF TaskNode
  <1> DEFINE node == graph[t]
  <1>3. [node EXCEPT !.stackStatus = stack, !.version = @ + 1].version = node.version + 1
    BY <1>1 DEF TaskNode
  <1>4. CASE t \in affected
    <2>1. Restacked(graph, affected, stack)[t]
            = [node EXCEPT !.stackStatus = stack, !.version = @ + 1]
      BY <1>4 DEF Restacked
    <2>2. QED
      BY <1>2, <1>3, <2>1
  <1>5. CASE t \notin affected
    BY <1>2, <1>5 DEF Restacked
  <1>6. QED
    BY <1>4, <1>5

(* Moving an operation moves one. *)
LEMMA OneMoves ==
  ASSUME NEW w \in Workflow, NEW n, NEW id \in OpIds, NEW op \in GraphOperation,
         n.operations = [w.operations EXCEPT ![id] = op]
  PROVE  MovesOne(w, n, id)
  <1>1. w.operations \in [OpIds -> GraphOperation \cup {Unset}] /\ op # Unset
    BY UnsetAssumption DEF Workflow
  <1>2. QED
    BY <1>1 DEF MovesOne

LEMMA MovedIsGraphOperation ==
  ASSUME NEW w \in Workflow, NEW id \in Requested(w), NEW status \in OperationStatuses
  PROVE  id \in OpIds /\ MovedOperation(w.operations[id], status) \in GraphOperation
  <1>1. id \in OpIds /\ w.operations[id] \in GraphOperation
    BY DEF Requested, Workflow
  <1>2. QED
    BY <1>1 DEF MovedOperation, GraphOperation

(* A restack command takes no version back and moves one operation. *)
LEMMA GraphCommandTells ==
  ASSUME NEW w \in Workflow, NEW c \in Command, c.kind # "transition-task",
         Outcome(w, c) = "ok", NEW n, n = Apply(w, c)
  PROVE  /\ \A t \in Tasks : w.graph[t].version <= n.graph[t].version
         /\ n.operations # w.operations => \E id \in OpIds : MovesOne(w, n, id)
  <1>0. /\ w.graph \in [Tasks -> TaskNode]
        /\ \A t \in Tasks : w.graph[t].version \in Nat
    BY DEF Workflow, TaskNode
  <1>1. CASE c.kind = "request-restack"
    <2> DEFINE id == c.operationId
               key == c.idempotencyKey
               op == RestackOperation(c.ancestorId, key)
    <2>1. id \in OpIds /\ key \in Keys
      BY <1>1 DEF Command
    <2>2. n = RequestRestack(w, id, c.ancestorId, key)
      BY <1>1 DEF Apply
    <2>3. CASE n = w
      BY <1>0, <2>3
    <2>4. CASE n # w
      <3>1. /\ n.operations = [w.operations EXCEPT ![id] = op]
            /\ n.graph = Restacked(w.graph, Descendants(c.ancestorId), "restack-pending")
        BY <2>2, <2>4 DEF RequestRestack, NextVersion
      <3>2. op \in GraphOperation
        BY <2>1 DEF RestackOperation, GraphOperation, OperationStatuses, Descendants
      <3>3. MovesOne(w, n, id)
        BY <2>1, <3>1, <3>2, OneMoves
      <3>4. QED
        BY <1>0, <2>1, <3>1, <3>3, RestackedVersions
    <2>5. QED
      BY <2>3, <2>4
  <1>2. CASE c.kind \in {"start-restack", "mark-restack-conflict"}
    <2>1. PICK status \in OperationStatuses, stack \in StackStatuses :
            n = MoveOperation(w, c.operationId, status, stack)
      BY <1>2 DEF Apply, StartRestack, MarkRestackConflict, OperationStatuses, StackStatuses
    <2>2. c.operationId \in Requested(w)
      BY <1>2 DEF Outcome, OperationOutcome
    <2> DEFINE op == MovedOperation(w.operations[c.operationId], status)
               affected == w.operations[c.operationId].affectedNodeIds
    <2>3. c.operationId \in OpIds /\ op \in GraphOperation
      BY <2>2, MovedIsGraphOperation
    <2>4. /\ n.operations = [w.operations EXCEPT ![c.operationId] = op]
          /\ n.graph = Restacked(w.graph, affected, stack)
      BY <2>1 DEF MoveOperation, NextVersion
    <2>5. MovesOne(w, n, c.operationId)
      BY <2>3, <2>4, OneMoves
    <2>6. QED
      BY <1>0, <2>3, <2>4, <2>5, RestackedVersions
  <1>3. CASE c.kind = "complete-restack"
    <2> DEFINE op == MovedOperation(w.operations[c.operationId], "completed")
               affected == w.operations[c.operationId].affectedNodeIds
               cleaned == Restacked(w.graph, affected, "clean")
    <2>1. n = CompleteRestack(w, c.operationId, c.artifactsByTaskId)
      BY <1>3 DEF Apply
    <2>2. c.operationId \in Requested(w)
      BY <1>3 DEF Outcome, OperationOutcome
    <2>3. c.operationId \in OpIds /\ op \in GraphOperation
      BY <2>2, MovedIsGraphOperation DEF OperationStatuses
    <2>4. /\ n.operations = [w.operations EXCEPT ![c.operationId] = op]
          /\ n.graph = WithArtifacts(cleaned, affected, c.artifactsByTaskId)
      BY <2>1 DEF CompleteRestack, NextVersion
    <2>5. MovesOne(w, n, c.operationId)
      BY <2>3, <2>4, OneMoves
    <2>6. \A t \in Tasks : n.graph[t].version = cleaned[t].version
      <3>1. affected \in SUBSET Tasks
        BY <2>2 DEF Requested, Workflow, GraphOperation
      <3>2. RestacksOnly(w.graph, cleaned, affected, "clean")
        BY <1>0, <3>1, RestackedShape DEF StackStatuses
      <3>3. \A t \in Tasks : cleaned[t] \in TaskNode
        BY <3>2 DEF RestacksOnly
      <3> HIDE DEF cleaned, affected
      <3>4. \A t \in Tasks : n.graph[t] = IF t \in affected
              THEN [cleaned[t] EXCEPT !.artifacts = @ \cup c.artifactsByTaskId[t]]
              ELSE cleaned[t]
        BY <2>4 DEF WithArtifacts
      <3>5. QED
        BY <3>3, <3>4 DEF TaskNode
    <2>7. \A t \in Tasks : w.graph[t].version <= cleaned[t].version
      BY <1>0, RestackedVersions
    <2>8. QED
      BY <2>3, <2>5, <2>6, <2>7
  <1>4. QED
    BY <1>1, <1>2, <1>3 DEF Command

(* What an accepted command does can be told. *)
LEMMA ApplyTellable ==
  ASSUME NEW w, WorkflowInv(w), NEW c \in Command, Outcome(w, c) = "ok"
  PROVE  Tellable(w, Apply(w, c))
  <1> DEFINE n == Apply(w, c)
  <1>0. /\ w \in Workflow /\ n \in Workflow
        /\ \A t \in Tasks : w.graph[t].version \in Nat
    BY ApplyInv DEF WorkflowInv, Workflow, TaskNode
  <1>1. CASE c.kind = "transition-task"
    <2> DEFINE d == c.transition
    <2>1. d \in TransitionCommand /\ TransitionOutcome(w, d) = "ok" /\ n = TransitionTask(w, d)
      BY <1>1 DEF Command, Outcome, Apply
    <2>2. d.taskId \in Tasks /\ Accepted(w.graph[d.taskId], d)
      BY <2>1, AcceptedTransition
    <2>3. /\ \A t \in Tasks : n.graph[t] = IF t = d.taskId THEN UpdateTask(w.graph[t], d)
                                           ELSE w.graph[t]
          /\ n.operations = w.operations
      <3>1. /\ TransitionTask(w, d).operations = w.operations
            /\ TransitionTask(w, d).graph =
                 [t \in Tasks |-> IF t = d.taskId THEN UpdateTask(w.graph[t], d)
                                 ELSE w.graph[t]]
        BY <1>0, <2>1, TransitionShape, Zenon
      <3> HIDE DEF n
      <3>2. QED
        BY <2>1, <3>1
    <2> HIDE DEF n
    <2>4. ASSUME NEW t \in Tasks
          PROVE  /\ w.graph[t].version <= n.graph[t].version
                 /\ RunsTellable(w.graph[t].runs, n.graph[t].runs)
      <3>1. CASE t = d.taskId
        <4>0. /\ UpdateTask(w.graph[t], d).version = w.graph[t].version + 1
              /\ UpdateTask(w.graph[t], d).runs = RunsAfter(w.graph[t], d)
          BY UpdateTaskShape
        <4>1. /\ n.graph[t].version = w.graph[t].version + 1
              /\ n.graph[t].runs = RunsAfter(w.graph[t], d)
          BY <2>3, <3>1, <4>0
        <4>2. TaskInv(w.graph[t])
          BY DEF WorkflowInv
        <4>3. RunsTellable(w.graph[t].runs, RunsAfter(w.graph[t], d))
          BY <2>1, <2>2, <3>1, <4>2, RunsAreTold
        <4>4. QED
          BY <1>0, <4>1, <4>3
      <3>2. CASE t # d.taskId
        BY <1>0, <2>3, <3>2, SameRunsTellable
      <3>3. QED
        BY <3>1, <3>2
    <2>5. QED
      BY <1>0, <2>3, <2>4 DEF Tellable, n
  <1>2. CASE c.kind # "transition-task"
    <2>1. SameLives(w, n)
      BY <1>0, <1>2, GraphCommandShape
    <2>2. \A t \in Tasks : RunsTellable(w.graph[t].runs, n.graph[t].runs)
      BY <2>1, SameRunsTellable DEF SameLives
    <2>3. /\ \A t \in Tasks : w.graph[t].version <= n.graph[t].version
          /\ n.operations # w.operations => \E id \in OpIds : MovesOne(w, n, id)
      BY <1>0, <1>2, GraphCommandTells
    <2>4. QED
      BY <1>0, <2>2, <2>3 DEF Tellable
  <1>3. QED
    BY <1>1, <1>2

-----------------------------------------------------------------------------
(* The events of a save *)

(* the five events that deriveEvents makes *)
EventOf(w, n, e) ==
  \/ e = [kind |-> "workflow-status-changed", toStatus |-> n.status]
  \/ \E t \in Tasks :
       e = [kind |-> "task-transitioned", taskId |-> t,
            toExecutionStatus |-> n.graph[t].executionStatus,
            toStackStatus |-> n.graph[t].stackStatus,
            taskVersion |-> n.graph[t].version]
  \/ \E t \in Tasks :
       /\ Len(n.graph[t].runs) > Len(w.graph[t].runs)
       /\ e = [kind |-> "run-started", taskId |-> t,
               attempt |-> Len(n.graph[t].runs),
               runtimeSessionId |-> LastOf(n.graph[t].runs).runtimeSessionId]
  \/ \E t \in Tasks :
       /\ LastRunEnded(w.graph[t].runs, n.graph[t].runs)
       /\ e = [kind |-> "run-ended", taskId |-> t,
               attempt |-> Len(n.graph[t].runs),
               terminalReason |-> LastOf(n.graph[t].runs).terminalReason]
  \/ \E o \in OpIds :
       /\ OperationStatus(w.operations[o]) # OperationStatus(n.operations[o])
       /\ e = [kind |-> "graph-operation-changed", operationId |-> o,
               toStatus |-> OperationStatus(n.operations[o])]

(* An event of a save is one of them. *)
LEMMA EventIs ==
  ASSUME NEW w, NEW n, NEW e \in DeriveEvents(w, n)
  PROVE  EventOf(w, n, e)
  BY DEF DeriveEvents, StatusEvents, TaskEvents, RunStartedEvents, RunEndedEvents,
         OperationEvents, EventOf

(* The statuses of the operations of a workflow. *)
LEMMA OperationStatusType ==
  ASSUME NEW w \in Workflow, NEW o \in OpIds
  PROVE  /\ OperationStatus(w.operations[o]) \in OperationStatuses \cup {Unset}
         /\ OperationStatus(w.operations[o]) = Unset <=> w.operations[o] = Unset
  <1>1. w.operations[o] \in GraphOperation \cup {Unset}
    BY DEF Workflow
  <1>2. CASE w.operations[o] = Unset
    BY <1>2 DEF OperationStatus
  <1>3. CASE w.operations[o] # Unset
    <2>1. w.operations[o].status \in OperationStatuses
      BY <1>1, <1>3 DEF GraphOperation
    <2>2. w.operations[o].status # Unset
      BY <2>1, UnsetAssumption
    <2>3. QED
      BY <1>3, <2>1, <2>2 DEF OperationStatus
  <1>4. QED
    BY <1>2, <1>3

(* The operations a step tells of are known before and after. *)
LEMMA ToldOperation ==
  ASSUME NEW w, NEW n, Tellable(w, n), NEW o \in OpIds,
         OperationStatus(w.operations[o]) # OperationStatus(n.operations[o])
  PROVE  /\ OperationStatus(n.operations[o]) \in OperationStatuses
         /\ OperationStatus(n.operations[o]) # Unset
         /\ MovesOne(w, n, o)
  <1>1. w \in Workflow /\ n \in Workflow
    BY DEF Tellable
  <1>2. n.operations[o] # w.operations[o]
    OBVIOUS
  <1>3. PICK id \in OpIds : MovesOne(w, n, id)
    BY <1>2 DEF Tellable
  <1>4. id = o
    BY <1>2, <1>3 DEF MovesOne
  <1>5. n.operations[o] # Unset
    BY <1>2, <1>3 DEF MovesOne
  <1>6. QED
    BY <1>1, <1>3, <1>4, <1>5, OperationStatusType

(* They are events of domain/events.ts ... *)
LEMMA EventTypes ==
  ASSUME NEW w, NEW n, Tellable(w, n)
  PROVE  DeriveEvents(w, n) \subseteq WorkflowEvent
  <1> SUFFICES ASSUME NEW e \in DeriveEvents(w, n) PROVE e \in WorkflowEvent
    OBVIOUS
  <1>1. n \in Workflow /\ w \in Workflow
    BY DEF Tellable
  <1>2. \A t \in Tasks : n.graph[t] \in TaskNode /\ w.graph[t] \in TaskNode
    BY <1>1 DEF Workflow
  <1>3. \A t \in Tasks : /\ n.graph[t].executionStatus \in ExecutionStatuses
                         /\ n.graph[t].stackStatus \in StackStatuses
                         /\ n.graph[t].version \in Nat
                         /\ n.graph[t].runs \in Seq(NodeRun)
                         /\ w.graph[t].runs \in Seq(NodeRun)
    BY <1>2 DEF TaskNode
  <1>4. \A t \in Tasks : /\ Len(n.graph[t].runs) \in Nat
                         /\ Len(n.graph[t].runs) > 0 =>
                              LastOf(n.graph[t].runs) \in NodeRun
    BY <1>3 DEF LastOf
  <1>5. n.status \in WorkflowStatuses
    BY <1>1 DEF Workflow
  <1>6. \A t \in Tasks : Len(n.graph[t].runs) > Len(w.graph[t].runs)
          => Len(n.graph[t].runs) > 0
    BY <1>3
  <1>7. \A o \in OpIds :
          OperationStatus(w.operations[o]) # OperationStatus(n.operations[o])
            => OperationStatus(n.operations[o]) \in OperationStatuses
    BY ToldOperation
  <1>8. CASE e = [kind |-> "workflow-status-changed", toStatus |-> n.status]
    BY <1>5, <1>8 DEF WorkflowEvent
  <1>9. ASSUME NEW t \in Tasks,
               e = [kind |-> "task-transitioned", taskId |-> t,
                    toExecutionStatus |-> n.graph[t].executionStatus,
                    toStackStatus |-> n.graph[t].stackStatus,
                    taskVersion |-> n.graph[t].version]
        PROVE  e \in WorkflowEvent
    BY <1>3, <1>9 DEF WorkflowEvent
  <1>10. ASSUME NEW t \in Tasks, Len(n.graph[t].runs) > Len(w.graph[t].runs),
                e = [kind |-> "run-started", taskId |-> t,
                     attempt |-> Len(n.graph[t].runs),
                     runtimeSessionId |-> LastOf(n.graph[t].runs).runtimeSessionId]
         PROVE  e \in WorkflowEvent
    <2>1. LastOf(n.graph[t].runs).runtimeSessionId \in Sessions
      BY <1>4, <1>6, <1>10 DEF NodeRun
    <2>2. QED
      BY <1>4, <1>10, <2>1 DEF WorkflowEvent
  <1>11. ASSUME NEW t \in Tasks, LastRunEnded(w.graph[t].runs, n.graph[t].runs),
                e = [kind |-> "run-ended", taskId |-> t,
                     attempt |-> Len(n.graph[t].runs),
                     terminalReason |-> LastOf(n.graph[t].runs).terminalReason]
         PROVE  e \in WorkflowEvent
    <2>1. LastOf(n.graph[t].runs).terminalReason \in TerminalReasons
      BY <1>4, <1>11 DEF NodeRun, LastRunEnded
    <2>2. QED
      BY <1>4, <1>11, <2>1 DEF WorkflowEvent
  <1>12. ASSUME NEW o \in OpIds,
                OperationStatus(w.operations[o]) # OperationStatus(n.operations[o]),
                e = [kind |-> "graph-operation-changed", operationId |-> o,
                     toStatus |-> OperationStatus(n.operations[o])]
         PROVE  e \in WorkflowEvent
    BY <1>7, <1>12 DEF WorkflowEvent
  <1>13. QED
    BY <1>8, <1>9, <1>10, <1>11, <1>12, EventIs DEF EventOf

(* ... and they are finitely many, as the tasks are. *)
LEMMA FiniteImage ==
  ASSUME NEW f, IsFiniteSet(DOMAIN f), f = [x \in DOMAIN f |-> f[x]]
  PROVE  IsFiniteSet({f[x] : x \in DOMAIN f})
  <1>1. f \in Surjection(DOMAIN f, {f[x] : x \in DOMAIN f})
    BY DEF Surjection
  <1>2. QED
    BY <1>1, FS_Surjection

LEMMA EventsAreFinite ==
  ASSUME NEW w, NEW n, Tellable(w, n)
  PROVE  IsFiniteSet(DeriveEvents(w, n))
  <1>1. IsFiniteSet(StatusEvents(w, n))
    BY FS_EmptySet, FS_Singleton DEF StatusEvents
  <1>2. IsFiniteSet(TaskEvents(w, n))
    <2> DEFINE T == {u \in Tasks :
                       \/ w.graph[u].executionStatus # n.graph[u].executionStatus
                       \/ w.graph[u].stackStatus # n.graph[u].stackStatus}
               f == [t \in T |->
                       [kind |-> "task-transitioned", taskId |-> t,
                        toExecutionStatus |-> n.graph[t].executionStatus,
                        toStackStatus |-> n.graph[t].stackStatus,
                        taskVersion |-> n.graph[t].version]]
    <2>1. TaskEvents(w, n) = {f[t] : t \in T}
      BY DEF TaskEvents
    <2>2. IsFiniteSet(T)
      BY TasksAreFinite, FS_Subset
    <2>3. DOMAIN f = T /\ f = [x \in DOMAIN f |-> f[x]]
      OBVIOUS
    <2> HIDE DEF f, T
    <2>4. QED
      BY <2>1, <2>2, <2>3, FiniteImage
  <1>3. IsFiniteSet(RunStartedEvents(w, n))
    <2> DEFINE T == {u \in Tasks : Len(n.graph[u].runs) > Len(w.graph[u].runs)}
               f == [t \in T |->
                       [kind |-> "run-started", taskId |-> t,
                        attempt |-> Len(n.graph[t].runs),
                        runtimeSessionId |-> LastOf(n.graph[t].runs).runtimeSessionId]]
    <2>1. RunStartedEvents(w, n) = {f[t] : t \in T}
      BY DEF RunStartedEvents
    <2>2. IsFiniteSet(T)
      BY TasksAreFinite, FS_Subset
    <2>3. DOMAIN f = T /\ f = [x \in DOMAIN f |-> f[x]]
      OBVIOUS
    <2> HIDE DEF f, T
    <2>4. QED
      BY <2>1, <2>2, <2>3, FiniteImage
  <1>4. IsFiniteSet(RunEndedEvents(w, n))
    <2> DEFINE T == {u \in Tasks : LastRunEnded(w.graph[u].runs, n.graph[u].runs)}
               f == [t \in T |->
                       [kind |-> "run-ended", taskId |-> t,
                        attempt |-> Len(n.graph[t].runs),
                        terminalReason |-> LastOf(n.graph[t].runs).terminalReason]]
    <2>1. RunEndedEvents(w, n) = {f[t] : t \in T}
      BY DEF RunEndedEvents
    <2>2. IsFiniteSet(T)
      BY TasksAreFinite, FS_Subset
    <2>3. DOMAIN f = T /\ f = [x \in DOMAIN f |-> f[x]]
      OBVIOUS
    <2> HIDE DEF f, T
    <2>4. QED
      BY <2>1, <2>2, <2>3, FiniteImage
  <1>5. IsFiniteSet(OperationEvents(w, n))
    <2> DEFINE P == {p \in OpIds : OperationStatus(w.operations[p])
                                     # OperationStatus(n.operations[p])}
               f == [o \in P |-> [kind |-> "graph-operation-changed", operationId |-> o,
                                  toStatus |-> OperationStatus(n.operations[o])]]
    <2>1. OperationEvents(w, n) = {f[o] : o \in P}
      BY DEF OperationEvents
    <2>2. \A p, q \in P : p = q
      BY ToldOperation DEF MovesOne
    <2>3. DOMAIN f = P /\ f = [x \in DOMAIN f |-> f[x]]
      OBVIOUS
    <2> HIDE DEF f, P
    <2>4. IsFiniteSet(P)
      <3>1. CASE P = {}
        BY <3>1, FS_EmptySet
      <3>2. ASSUME NEW p \in P
            PROVE  IsFiniteSet(P)
        <4>1. P = {p}
          BY <2>2
        <4>2. QED
          BY <4>1, FS_Singleton
      <3>3. QED
        BY <3>1, <3>2
    <2>5. QED
      BY <2>1, <2>3, <2>4, FiniteImage
  <1>6. QED
    BY <1>1, <1>2, <1>3, <1>4, <1>5, FS_Union DEF DeriveEvents

-----------------------------------------------------------------------------
(* What a browser holds *)
ClientRun == [runtimeSessionId: Sessions, terminalReason: TerminalReasons \cup {Unset}]

ClientTask == [executionStatus: ExecutionStatuses, stackStatus: StackStatuses,
               version: Nat, runs: Seq(ClientRun)]

ClientCopies == [status: WorkflowStatuses, graph: [Tasks -> ClientTask],
                 operations: [OpIds -> OperationStatuses \cup {Unset}]]

SameStatuses(node, task) ==
  /\ node.executionStatus = task.executionStatus
  /\ node.stackStatus = task.stackStatus

(* a copy that shows the workflow; of a version it may be behind *)
Fits(copy, w) ==
  /\ copy \in ClientCopies
  /\ copy.status = w.status
  /\ \A t \in Tasks : /\ SameStatuses(copy.graph[t], w.graph[t])
                      /\ copy.graph[t].version <= w.graph[t].version
                      /\ copy.graph[t].runs = ClientRuns(w.graph[t].runs)

(* The history a client sees is one. *)
LEMMA ClientRunsType ==
  ASSUME NEW runs \in Seq(NodeRun)
  PROVE  /\ ClientRuns(runs) \in Seq(ClientRun)
         /\ Len(ClientRuns(runs)) = Len(runs)
         /\ DOMAIN ClientRuns(runs) = 1 .. Len(runs)
         /\ Len(runs) \in Nat
  <1>1. \A i \in 1 .. Len(runs) : runs[i] \in NodeRun
    OBVIOUS
  <1>2. \A i \in 1 .. Len(runs) :
          [runtimeSessionId |-> runs[i].runtimeSessionId,
           terminalReason |-> runs[i].terminalReason] \in ClientRun
    BY <1>1 DEF ClientRun, NodeRun
  <1>3. Len(runs) \in Nat /\ DOMAIN runs = 1 .. Len(runs)
    OBVIOUS
  <1>4. ClientRuns(runs) \in [1 .. Len(runs) -> ClientRun]
    BY <1>2, <1>3 DEF ClientRuns
  <1>5. QED
    BY <1>3, <1>4

(* The record of a task in a copy. *)
LEMMA NodeOfCopy ==
  ASSUME NEW execution \in ExecutionStatuses, NEW stack \in StackStatuses, NEW v \in Nat,
         NEW runs \in Seq(ClientRun)
  PROVE  [executionStatus |-> execution, stackStatus |-> stack, version |-> v,
          runs |-> runs] \in ClientTask
  BY DEF ClientTask

(* A fetched snapshot fits. *)
LEMMA SnapshotFits ==
  ASSUME NEW w \in Workflow
  PROVE  /\ Fits(ClientCopy(w), w)
         /\ \A o \in OpIds : ClientCopy(w).operations[o] = OperationStatus(w.operations[o])
  <1> DEFINE copy == ClientCopy(w)
  <1>1. \A t \in Tasks : w.graph[t] \in TaskNode
    BY DEF Workflow
  <1>2. \A t \in Tasks :
          /\ w.graph[t].executionStatus \in ExecutionStatuses
          /\ w.graph[t].stackStatus \in StackStatuses
          /\ w.graph[t].version \in Nat
          /\ ClientRuns(w.graph[t].runs) \in Seq(ClientRun)
    BY <1>1, ClientRunsType DEF TaskNode
  <1>3. w.status \in WorkflowStatuses
    BY DEF Workflow
  <1>4. \A t \in Tasks : copy.graph[t] =
          [executionStatus |-> w.graph[t].executionStatus,
           stackStatus |-> w.graph[t].stackStatus,
           version |-> w.graph[t].version,
           runs |-> ClientRuns(w.graph[t].runs)]
    BY DEF ClientCopy
  <1>5. \A t \in Tasks : copy.graph[t] \in ClientTask
    <2> SUFFICES ASSUME NEW t \in Tasks PROVE copy.graph[t] \in ClientTask
      OBVIOUS
    <2>1. copy.graph[t] =
            [executionStatus |-> w.graph[t].executionStatus,
             stackStatus |-> w.graph[t].stackStatus,
             version |-> w.graph[t].version,
             runs |-> ClientRuns(w.graph[t].runs)]
      BY <1>4
    <2> HIDE DEF copy
    <2>2. QED
      BY <1>2, <2>1, NodeOfCopy
  <1>6. copy.graph \in [Tasks -> ClientTask]
    BY <1>5 DEF ClientCopy
  <1>7. \A o \in OpIds : copy.operations[o] = OperationStatus(w.operations[o])
    BY DEF ClientCopy
  <1>8. copy.operations \in [OpIds -> OperationStatuses \cup {Unset}]
    BY <1>7, OperationStatusType DEF ClientCopy
  <1>9. copy \in ClientCopies
    BY <1>3, <1>6, <1>8 DEF ClientCopies, ClientCopy
  <1>10. copy.status = w.status
    BY DEF ClientCopy
  <1> HIDE DEF copy
  <1>11. Fits(copy, w)
    <2>1. \A t \in Tasks :
            /\ copy.graph[t].executionStatus = w.graph[t].executionStatus
            /\ copy.graph[t].stackStatus = w.graph[t].stackStatus
            /\ copy.graph[t].version = w.graph[t].version
            /\ copy.graph[t].runs = ClientRuns(w.graph[t].runs)
            /\ copy.graph[t].version <= w.graph[t].version
      <3> SUFFICES ASSUME NEW t \in Tasks
                   PROVE  /\ copy.graph[t].executionStatus = w.graph[t].executionStatus
                          /\ copy.graph[t].stackStatus = w.graph[t].stackStatus
                          /\ copy.graph[t].version = w.graph[t].version
                          /\ copy.graph[t].runs = ClientRuns(w.graph[t].runs)
                          /\ copy.graph[t].version <= w.graph[t].version
        OBVIOUS
      <3>1. copy.graph[t] =
              [executionStatus |-> w.graph[t].executionStatus,
               stackStatus |-> w.graph[t].stackStatus,
               version |-> w.graph[t].version,
               runs |-> ClientRuns(w.graph[t].runs)]
        BY <1>4
      <3>2. w.graph[t].version \in Nat
        BY <1>2
      <3>3. QED
        BY <3>1, <3>2
    <2>2. QED
      BY <1>9, <1>10, <2>1 DEF Fits, SameStatuses
  <1>12. QED
    BY <1>7, <1>11 DEF copy

-----------------------------------------------------------------------------
(* A browser that has applied some of the events of a save *)

IsRunEvent(e, t) == e.kind \in {"run-started", "run-ended"} /\ e.taskId = t
IsMoveOf(e, t) == e.kind = "task-transitioned" /\ e.taskId = t
IsMoveOfOperation(e, o) == e.kind = "graph-operation-changed" /\ e.operationId = o

PartlyStatus(w, n, done, copy) ==
  \/ copy.status = n.status
  \/ /\ copy.status = w.status
     /\ \A e \in done : e.kind # "workflow-status-changed"

PartlyTask(w, n, done, copy, t) ==
  /\ copy.graph[t].version <= n.graph[t].version
  /\ \/ SameStatuses(copy.graph[t], n.graph[t])
     \/ /\ SameStatuses(copy.graph[t], w.graph[t])
        /\ \A e \in done : ~IsMoveOf(e, t)
  /\ \/ copy.graph[t].runs = ClientRuns(n.graph[t].runs)
     \/ /\ copy.graph[t].runs = ClientRuns(w.graph[t].runs)
        /\ \A e \in done : ~IsRunEvent(e, t)

PartlyOperation(first, n, done, copy, o) ==
  /\ copy.operations[o] = Unset <=> first.operations[o] = Unset
  /\ \/ copy.operations[o] = Unset
     \/ copy.operations[o] = OperationStatus(n.operations[o])
     \/ /\ copy.operations[o] = first.operations[o]
        /\ \A e \in done : ~IsMoveOfOperation(e, o)

(* what the events done tell is the new workflow's, the rest is either's *)
PartlyTold(w, n, first, done, copy) ==
  /\ copy \in ClientCopies
  /\ PartlyStatus(w, n, done, copy)
  /\ \A t \in Tasks : PartlyTask(w, n, done, copy, t)
  /\ \A o \in OpIds : PartlyOperation(first, n, done, copy, o)

(* Replacing a task of a copy. *)
LEMMA NodeReplaced ==
  ASSUME NEW copy \in ClientCopies, NEW t \in Tasks, NEW node \in ClientTask,
         NEW new, new = [copy EXCEPT !.graph = [copy.graph EXCEPT ![t] = node]]
  PROVE  /\ new \in ClientCopies
         /\ new.status = copy.status
         /\ new.operations = copy.operations
         /\ new.graph[t] = node
         /\ \A u \in Tasks : u # t => new.graph[u] = copy.graph[u]
  BY DEF ClientCopies

(* The event of a task: the two statuses, unless the copy is ahead. *)
LEMMA MoveIsApplied ==
  ASSUME NEW w, NEW n, NEW first, NEW done, NEW copy, PartlyTold(w, n, first, done, copy),
         Tellable(w, n), NEW t \in Tasks,
         NEW e, e = [kind |-> "task-transitioned", taskId |-> t,
                     toExecutionStatus |-> n.graph[t].executionStatus,
                     toStackStatus |-> n.graph[t].stackStatus,
                     taskVersion |-> n.graph[t].version]
  PROVE  PartlyTold(w, n, first, done \cup {e}, ApplyWorkflowEvent(copy, e))
  <1> DEFINE new == ApplyWorkflowEvent(copy, e)
             old == copy.graph[t]
             node == [old EXCEPT !.executionStatus = n.graph[t].executionStatus,
                                 !.stackStatus = n.graph[t].stackStatus,
                                 !.version = n.graph[t].version]
  <1>1. copy \in ClientCopies /\ old \in ClientTask
    BY DEF PartlyTold, ClientCopies
  <1>2. n.graph[t] \in TaskNode
    BY DEF Tellable, Workflow
  <1>3. n.graph[t].version \in Nat /\ old.version \in Nat /\ old.version <= n.graph[t].version
    BY <1>1, <1>2 DEF PartlyTold, PartlyTask, ClientTask, TaskNode
  <1>4. /\ node \in ClientTask
        /\ SameStatuses(node, n.graph[t])
        /\ node.version = n.graph[t].version
        /\ node.runs = old.runs
    <2>1. n.graph[t].executionStatus \in ExecutionStatuses /\ n.graph[t].stackStatus \in StackStatuses
      BY <1>2 DEF TaskNode
    <2> DEFINE execution == n.graph[t].executionStatus
               stack == n.graph[t].stackStatus
               v == n.graph[t].version
    <2>a. node = [old EXCEPT !.executionStatus = execution, !.stackStatus = stack, !.version = v]
      OBVIOUS
    <2>b. execution \in ExecutionStatuses /\ stack \in StackStatuses /\ v \in Nat
      BY <1>3, <2>1
    <2> HIDE DEF old, node, execution, stack, v
    <2>c. /\ node \in ClientTask
          /\ node.executionStatus = execution
          /\ node.stackStatus = stack
          /\ node.version = v
          /\ node.runs = old.runs
      BY <1>1, <2>a, <2>b DEF ClientTask
    <2>2. /\ node \in ClientTask
          /\ node.executionStatus = n.graph[t].executionStatus
          /\ node.stackStatus = n.graph[t].stackStatus
          /\ node.version = n.graph[t].version
          /\ node.runs = old.runs
      BY <2>c DEF execution, stack, v
    <2>3. QED
      BY <2>2 DEF SameStatuses
  <1>5. new = [copy EXCEPT !.graph[t] = node]
    BY <1>3 DEF ApplyWorkflowEvent, ApplyTaskTransitioned
  <1>6. new = [copy EXCEPT !.graph = [copy.graph EXCEPT ![t] = node]]
    BY <1>5
  <1> HIDE DEF node
  <1> HIDE DEF new
  <1>7. /\ new \in ClientCopies
        /\ new.status = copy.status
        /\ new.operations = copy.operations
        /\ new.graph[t] = node
        /\ \A u \in Tasks : u # t => new.graph[u] = copy.graph[u]
    BY <1>1, <1>4, <1>6, NodeReplaced
  <1>8. /\ e.kind = "task-transitioned" /\ e.taskId = t
    OBVIOUS
  <1>9. PartlyStatus(w, n, done \cup {e}, new)
    BY <1>7, <1>8 DEF PartlyTold, PartlyStatus
  <1>10. ASSUME NEW u \in Tasks PROVE PartlyTask(w, n, done \cup {e}, new, u)
    <2>1. CASE u = t
      BY <1>3, <1>4, <1>7, <1>8, <2>1 DEF PartlyTold, PartlyTask, IsRunEvent
    <2>2. CASE u # t
      BY <1>7, <1>8, <2>2 DEF PartlyTold, PartlyTask, IsMoveOf, IsRunEvent
    <2>3. QED
      BY <2>1, <2>2
  <1>11. ASSUME NEW o \in OpIds PROVE PartlyOperation(first, n, done \cup {e}, new, o)
    BY <1>7, <1>8 DEF PartlyTold, PartlyOperation, IsMoveOfOperation
  <1>12. QED
    BY <1>7, <1>9, <1>10, <1>11 DEF PartlyTold, new

(* An event that gives the history of a task the form it has now. *)
LEMMA RunEventIsApplied ==
  ASSUME NEW w, NEW n, NEW first, NEW done, NEW copy, PartlyTold(w, n, first, done, copy),
         Tellable(w, n), NEW t \in Tasks, NEW e, IsRunEvent(e, t), NEW new,
         \/ new = copy /\ copy.graph[t].runs = ClientRuns(n.graph[t].runs)
         \/ new = [copy EXCEPT !.graph[t].runs = ClientRuns(n.graph[t].runs)]
  PROVE  PartlyTold(w, n, first, done \cup {e}, new)
  <1> DEFINE old == copy.graph[t]
             node == [executionStatus |-> old.executionStatus,
                      stackStatus |-> old.stackStatus,
                      version |-> old.version,
                      runs |-> ClientRuns(n.graph[t].runs)]
  <1>1. copy \in ClientCopies /\ old \in ClientTask
    BY DEF PartlyTold, ClientCopies
  <1>2. n.graph[t].runs \in Seq(NodeRun)
    BY DEF Tellable, Workflow, TaskNode
  <1>3. ClientRuns(n.graph[t].runs) \in Seq(ClientRun)
    BY <1>2, ClientRunsType
  <1>4. node \in ClientTask
    BY <1>1, <1>3 DEF ClientTask
  <1>5. /\ new \in ClientCopies
        /\ new.status = copy.status
        /\ new.operations = copy.operations
        /\ new.graph[t].runs = ClientRuns(n.graph[t].runs)
        /\ new.graph[t].executionStatus = copy.graph[t].executionStatus
        /\ new.graph[t].stackStatus = copy.graph[t].stackStatus
        /\ new.graph[t].version = copy.graph[t].version
        /\ \A u \in Tasks : u # t => new.graph[u] = copy.graph[u]
    <2>1. CASE new = copy /\ copy.graph[t].runs = ClientRuns(n.graph[t].runs)
      BY <1>1, <2>1
    <2>2. CASE new = [copy EXCEPT !.graph[t].runs = ClientRuns(n.graph[t].runs)]
      <3>a. [old EXCEPT !.runs = ClientRuns(n.graph[t].runs)] = node
        BY <1>1 DEF ClientTask
      <3>b. new = [copy EXCEPT !.graph = [copy.graph EXCEPT ![t] =
                     [old EXCEPT !.runs = ClientRuns(n.graph[t].runs)]]]
        BY <2>2
      <3>1. new = [copy EXCEPT !.graph = [copy.graph EXCEPT ![t] = node]]
        BY <3>a, <3>b
      <3> HIDE DEF node
      <3>2. /\ new \in ClientCopies
            /\ new.status = copy.status
            /\ new.operations = copy.operations
            /\ new.graph[t] = node
            /\ \A u \in Tasks : u # t => new.graph[u] = copy.graph[u]
        BY <1>1, <1>4, <3>1, NodeReplaced
      <3>3. QED
        BY <3>2 DEF node
    <2>3. QED
      BY <2>1, <2>2
  <1>6. e.kind \in {"run-started", "run-ended"} /\ e.taskId = t
    BY DEF IsRunEvent
  <1>7. PartlyStatus(w, n, done \cup {e}, new)
    BY <1>5, <1>6 DEF PartlyTold, PartlyStatus
  <1>8. ASSUME NEW u \in Tasks PROVE PartlyTask(w, n, done \cup {e}, new, u)
    <2>1. CASE u = t
      BY <1>5, <1>6, <2>1 DEF PartlyTold, PartlyTask, SameStatuses, IsMoveOf
    <2>2. CASE u # t
      BY <1>5, <1>6, <2>2 DEF PartlyTold, PartlyTask, IsMoveOf, IsRunEvent
    <2>3. QED
      BY <2>1, <2>2
  <1>9. ASSUME NEW o \in OpIds PROVE PartlyOperation(first, n, done \cup {e}, new, o)
    BY <1>5, <1>6 DEF PartlyTold, PartlyOperation, IsMoveOfOperation
  <1>10. QED
    BY <1>5, <1>7, <1>8, <1>9 DEF PartlyTold

(* A run that was started is appended, once. *)
LEMMA StartIsApplied ==
  ASSUME NEW w, NEW n, NEW first, NEW done, NEW copy, PartlyTold(w, n, first, done, copy),
         Tellable(w, n), NEW t \in Tasks,
         Len(n.graph[t].runs) > Len(w.graph[t].runs),
         NEW e, e = [kind |-> "run-started", taskId |-> t,
                     attempt |-> Len(n.graph[t].runs),
                     runtimeSessionId |-> LastOf(n.graph[t].runs).runtimeSessionId]
  PROVE  PartlyTold(w, n, first, done \cup {e}, ApplyWorkflowEvent(copy, e))
  <1> DEFINE was == w.graph[t].runs
             now == n.graph[t].runs
             has == copy.graph[t].runs
             run == [runtimeSessionId |-> LastOf(now).runtimeSessionId, terminalReason |-> Unset]
             new == ApplyWorkflowEvent(copy, e)
  <1>1. was \in Seq(NodeRun) /\ now \in Seq(NodeRun)
    BY DEF Tellable, Workflow, TaskNode
  <1>2. RunsTellable(was, now) /\ Len(now) > Len(was)
    BY DEF Tellable
  <1>3. has = ClientRuns(now) \/ has = ClientRuns(was)
    BY DEF PartlyTold, PartlyTask
  <1>4. IsRunEvent(e, t)
    BY DEF IsRunEvent
  <1>5. new = IF Len(now) \in DOMAIN has THEN copy
              ELSE [copy EXCEPT !.graph[t].runs = Append(has, run)]
    BY DEF ApplyWorkflowEvent, ApplyRunStarted
  <1> HIDE DEF new, was, now, has
  <1>6. /\ Len(now) = Len(was) + 1
        /\ ClientRuns(now) = Append(ClientRuns(was), run)
    BY <1>1, <1>2 DEF RunsTellable, LastRunEnded
  <1>7. /\ DOMAIN ClientRuns(now) = 1 .. Len(now)
        /\ DOMAIN ClientRuns(was) = 1 .. Len(was)
        /\ Len(was) \in Nat /\ Len(now) \in Nat
    BY <1>1, ClientRunsType
  <1>8. \/ new = copy /\ has = ClientRuns(now)
        \/ new = [copy EXCEPT !.graph[t].runs = ClientRuns(now)]
    <2>1. CASE has = ClientRuns(now)
      BY <1>5, <1>6, <1>7, <2>1
    <2>2. CASE has = ClientRuns(was)
      <3>1. Len(now) \notin DOMAIN has
        BY <1>6, <1>7, <2>2
      <3>2. Append(has, run) = ClientRuns(now)
        BY <1>6, <2>2
      <3>3. QED
        BY <1>5, <3>1, <3>2
    <2>3. QED
      BY <1>3, <2>1, <2>2
  <1>9. \/ new = copy /\ copy.graph[t].runs = ClientRuns(n.graph[t].runs)
        \/ new = [copy EXCEPT !.graph[t].runs = ClientRuns(n.graph[t].runs)]
    BY <1>8 DEF has, now
  <1>10. PartlyTold(w, n, first, done \cup {e}, new)
    BY <1>4, <1>9, RunEventIsApplied
  <1>11. QED
    BY <1>10 DEF new

(* A run that ended gets its reason. *)
LEMMA EndIsApplied ==
  ASSUME NEW w, NEW n, NEW first, NEW done, NEW copy, PartlyTold(w, n, first, done, copy),
         Tellable(w, n), NEW t \in Tasks,
         LastRunEnded(w.graph[t].runs, n.graph[t].runs),
         NEW e, e = [kind |-> "run-ended", taskId |-> t,
                     attempt |-> Len(n.graph[t].runs),
                     terminalReason |-> LastOf(n.graph[t].runs).terminalReason]
  PROVE  PartlyTold(w, n, first, done \cup {e}, ApplyWorkflowEvent(copy, e))
  <1> DEFINE was == w.graph[t].runs
             now == n.graph[t].runs
             has == copy.graph[t].runs
             reason == LastOf(now).terminalReason
             new == ApplyWorkflowEvent(copy, e)
  <1>1. was \in Seq(NodeRun) /\ now \in Seq(NodeRun)
    BY DEF Tellable, Workflow, TaskNode
  <1>2. RunsTellable(was, now) /\ LastRunEnded(was, now)
    BY DEF Tellable
  <1>3. has = ClientRuns(now) \/ has = ClientRuns(was)
    BY DEF PartlyTold, PartlyTask
  <1>4. IsRunEvent(e, t)
    BY DEF IsRunEvent
  <1>5. new = IF Len(now) \notin DOMAIN has THEN copy
              ELSE [copy EXCEPT !.graph[t].runs[Len(now)].terminalReason = reason]
    BY DEF ApplyWorkflowEvent, ApplyRunEnded
  <1>a. copy.graph[t] \in ClientTask /\ copy \in ClientCopies
    BY DEF PartlyTold, ClientCopies
  <1>b. new = IF Len(now) \notin DOMAIN has THEN copy
              ELSE [copy EXCEPT !.graph[t].runs = [has EXCEPT ![Len(now)].terminalReason = reason]]
    BY <1>5, <1>a DEF ClientCopies, ClientTask
  <1> HIDE DEF new, was, now, has, reason
  <1>6. /\ Len(now) = Len(was) /\ Len(was) > 0
        /\ ClientRuns(now) = [ClientRuns(was) EXCEPT ![Len(now)].terminalReason = reason]
    BY <1>1, <1>2 DEF RunsTellable, LastRunEnded, reason
  <1>7. /\ DOMAIN ClientRuns(now) = 1 .. Len(now)
        /\ DOMAIN ClientRuns(was) = 1 .. Len(was)
        /\ Len(was) \in Nat /\ Len(now) \in Nat
        /\ ClientRuns(now) \in Seq(ClientRun)
    BY <1>1, ClientRunsType
  <1>8. new = [copy EXCEPT !.graph[t].runs = ClientRuns(now)]
    <2>1. Len(now) \in DOMAIN has
      BY <1>3, <1>6, <1>7
    <2>2. [has EXCEPT ![Len(now)].terminalReason = reason] = ClientRuns(now)
      <3>1. CASE has = ClientRuns(now)
        <4>1. ClientRuns(now)[Len(now)] \in ClientRun
          BY <1>6, <1>7
        <4>2. ClientRuns(now)[Len(now)].terminalReason = reason
          BY <1>6, <1>7 DEF ClientRuns, reason, LastOf
        <4>3. [ClientRuns(now)[Len(now)] EXCEPT !.terminalReason = reason]
                = ClientRuns(now)[Len(now)]
          BY <4>1, <4>2 DEF ClientRun
        <4>4. QED
          BY <1>7, <3>1, <4>3
      <3>2. CASE has = ClientRuns(was)
        BY <1>6, <3>2
      <3>3. QED
        BY <1>3, <3>1, <3>2
    <2>3. QED
      BY <1>b, <2>1, <2>2
  <1>9. new = [copy EXCEPT !.graph[t].runs = ClientRuns(n.graph[t].runs)]
    BY <1>8 DEF now
  <1>10. PartlyTold(w, n, first, done \cup {e}, new)
    BY <1>4, <1>9, RunEventIsApplied
  <1>11. QED
    BY <1>10 DEF new

(* The event of an operation: its status, if the browser knows it. *)
LEMMA OperationIsApplied ==
  ASSUME NEW w, NEW n, NEW first, NEW done, NEW copy, PartlyTold(w, n, first, done, copy),
         Tellable(w, n), NEW o \in OpIds,
         OperationStatus(w.operations[o]) # OperationStatus(n.operations[o]),
         NEW e, e = [kind |-> "graph-operation-changed", operationId |-> o,
                     toStatus |-> OperationStatus(n.operations[o])]
  PROVE  PartlyTold(w, n, first, done \cup {e}, ApplyWorkflowEvent(copy, e))
  <1> DEFINE new == ApplyWorkflowEvent(copy, e)
             status == OperationStatus(n.operations[o])
  <1>1. status \in OperationStatuses /\ status # Unset
    BY ToldOperation
  <1>2. /\ copy \in ClientCopies
        /\ copy.operations \in [OpIds -> OperationStatuses \cup {Unset}]
    BY DEF PartlyTold, ClientCopies
  <1>3. new = IF copy.operations[o] = Unset THEN copy
              ELSE [copy EXCEPT !.operations[o] = status]
    BY DEF ApplyWorkflowEvent, ApplyOperationChanged
  <1>4. e.kind = "graph-operation-changed" /\ e.operationId = o
    OBVIOUS
  <1> HIDE DEF new, status
  <1>5. /\ new \in ClientCopies
        /\ new.status = copy.status
        /\ new.graph = copy.graph
        /\ \A q \in OpIds : new.operations[q] =
             IF q = o /\ copy.operations[o] # Unset THEN status ELSE copy.operations[q]
    BY <1>1, <1>2, <1>3 DEF ClientCopies
  <1>6. PartlyStatus(w, n, done \cup {e}, new)
    BY <1>4, <1>5 DEF PartlyTold, PartlyStatus
  <1>7. ASSUME NEW t \in Tasks PROVE PartlyTask(w, n, done \cup {e}, new, t)
    BY <1>4, <1>5 DEF PartlyTold, PartlyTask, IsMoveOf, IsRunEvent
  <1>8. ASSUME NEW q \in OpIds PROVE PartlyOperation(first, n, done \cup {e}, new, q)
    <2>1. PartlyOperation(first, n, done, copy, q)
      BY DEF PartlyTold
    <2>2. CASE q = o
      BY <1>1, <1>5, <2>1, <2>2 DEF PartlyOperation, status
    <2>3. CASE q # o
      BY <1>4, <1>5, <2>1, <2>3 DEF PartlyOperation, IsMoveOfOperation
    <2>4. QED
      BY <2>2, <2>3
  <1>9. QED
    BY <1>5, <1>6, <1>7, <1>8 DEF PartlyTold, new

(* The event of the workflow: its status. *)
LEMMA StatusIsApplied ==
  ASSUME NEW w, NEW n, NEW first, NEW done, NEW copy, PartlyTold(w, n, first, done, copy),
         Tellable(w, n),
         NEW e, e = [kind |-> "workflow-status-changed", toStatus |-> n.status]
  PROVE  PartlyTold(w, n, first, done \cup {e}, ApplyWorkflowEvent(copy, e))
  <1> DEFINE new == ApplyWorkflowEvent(copy, e)
  <1>1. n.status \in WorkflowStatuses /\ copy \in ClientCopies
    BY DEF Tellable, Workflow, PartlyTold
  <1>2. new = [copy EXCEPT !.status = n.status]
    BY DEF ApplyWorkflowEvent
  <1>3. e.kind = "workflow-status-changed"
    OBVIOUS
  <1> HIDE DEF new
  <1>4. /\ new \in ClientCopies
        /\ new.status = n.status
        /\ new.graph = copy.graph
        /\ new.operations = copy.operations
    BY <1>1, <1>2 DEF ClientCopies
  <1>5. PartlyStatus(w, n, done \cup {e}, new)
    BY <1>4 DEF PartlyStatus
  <1>6. ASSUME NEW t \in Tasks PROVE PartlyTask(w, n, done \cup {e}, new, t)
    BY <1>3, <1>4 DEF PartlyTold, PartlyTask, IsMoveOf, IsRunEvent
  <1>7. ASSUME NEW q \in OpIds PROVE PartlyOperation(first, n, done \cup {e}, new, q)
    BY <1>3, <1>4 DEF PartlyTold, PartlyOperation, IsMoveOfOperation
  <1>8. QED
    BY <1>4, <1>5, <1>6, <1>7 DEF PartlyTold, new

(* Whichever event is applied next, what was told stays told. *)
LEMMA EventIsApplied ==
  ASSUME NEW w, NEW n, NEW first, NEW done, NEW copy, PartlyTold(w, n, first, done, copy),
         Tellable(w, n), NEW e \in DeriveEvents(w, n)
  PROVE  PartlyTold(w, n, first, done \cup {e}, ApplyWorkflowEvent(copy, e))
  <1> DEFINE Goal == PartlyTold(w, n, first, done \cup {e}, ApplyWorkflowEvent(copy, e))
  <1>1. ASSUME e = [kind |-> "workflow-status-changed", toStatus |-> n.status]
        PROVE  Goal
    BY <1>1, StatusIsApplied
  <1>2. ASSUME NEW t \in Tasks,
               e = [kind |-> "task-transitioned", taskId |-> t,
                    toExecutionStatus |-> n.graph[t].executionStatus,
                    toStackStatus |-> n.graph[t].stackStatus,
                    taskVersion |-> n.graph[t].version]
        PROVE  Goal
    BY <1>2, MoveIsApplied
  <1>3. ASSUME NEW t \in Tasks, Len(n.graph[t].runs) > Len(w.graph[t].runs),
               e = [kind |-> "run-started", taskId |-> t,
                    attempt |-> Len(n.graph[t].runs),
                    runtimeSessionId |-> LastOf(n.graph[t].runs).runtimeSessionId]
        PROVE  Goal
    BY <1>3, StartIsApplied
  <1>4. ASSUME NEW t \in Tasks, LastRunEnded(w.graph[t].runs, n.graph[t].runs),
               e = [kind |-> "run-ended", taskId |-> t,
                    attempt |-> Len(n.graph[t].runs),
                    terminalReason |-> LastOf(n.graph[t].runs).terminalReason]
        PROVE  Goal
    BY <1>4, EndIsApplied
  <1>5. ASSUME NEW o \in OpIds,
               OperationStatus(w.operations[o]) # OperationStatus(n.operations[o]),
               e = [kind |-> "graph-operation-changed", operationId |-> o,
                    toStatus |-> OperationStatus(n.operations[o])]
        PROVE  Goal
    BY <1>5, OperationIsApplied
  <1> HIDE DEF Goal
  <1>6. Goal
    <2>1. EventOf(w, n, e)
      BY EventIs
    <2>2. QED
      BY <1>1, <1>2, <1>3, <1>4, <1>5, <2>1 DEF EventOf
  <1>7. QED
    BY <1>6 DEF Goal

(* Before the first event nothing is told. *)
LEMMA NothingTold ==
  ASSUME NEW w, NEW n, Tellable(w, n), NEW first, Fits(first, w)
  PROVE  PartlyTold(w, n, first, {}, first)
  <1>1. first \in ClientCopies /\ first.status = w.status
    BY DEF Fits
  <1>2. PartlyStatus(w, n, {}, first)
    BY <1>1 DEF PartlyStatus
  <1>3. ASSUME NEW t \in Tasks PROVE PartlyTask(w, n, {}, first, t)
    <2>1. /\ w.graph[t].version \in Nat /\ n.graph[t].version \in Nat
          /\ w.graph[t].version <= n.graph[t].version
      BY DEF Tellable, Workflow, TaskNode
    <2>2. first.graph[t].version \in Nat
      BY <1>1 DEF ClientCopies, ClientTask
    <2>3. QED
      BY <2>1, <2>2 DEF Fits, PartlyTask
  <1>4. ASSUME NEW o \in OpIds PROVE PartlyOperation(first, n, {}, first, o)
    BY DEF PartlyOperation
  <1>5. QED
    BY <1>1, <1>2, <1>3, <1>4 DEF PartlyTold

ToldBy(events, m) == {events[i] : i \in 1 .. m}

(* In whatever order the events are applied, what they tell is told. *)
LEMMA EventsAreApplied ==
  ASSUME NEW w, NEW n, Tellable(w, n), NEW first, Fits(first, w),
         NEW events, Len(events) \in Nat, Lists(events, DeriveEvents(w, n))
  PROVE  PartlyTold(w, n, first, ToldBy(events, Len(events)), Reduced(first, events))
  <1> DEFINE len == Len(events)
             Astray == {m \in 0 .. len :
                          ~PartlyTold(w, n, first, ToldBy(events, m), Copies(first, events)[m])}
  <1>1. Astray \in SUBSET Nat
    OBVIOUS
  <1>2. CASE Astray = {}
    BY <1>2 DEF Reduced
  <1>3. CASE Astray # {}
    <2>1. PICK m \in Astray : \A j \in Astray : m <= j
      <3> HIDE DEF Astray
      <3>1. QED
        BY <1>1, <1>3, LeastNumber
    <2>2. /\ m \in 0 .. len
          /\ ~PartlyTold(w, n, first, ToldBy(events, m), Copies(first, events)[m])
      OBVIOUS
    <2>3. m # 0
      <3>1. ToldBy(events, 0) = {} /\ Copies(first, events)[0] = first
        BY CopiesStep DEF ToldBy
      <3>2. QED
        BY <2>2, <3>1, NothingTold
    <2>4. m - 1 \in 0 .. len /\ m - 1 \notin Astray /\ m \in 1 .. len
      BY <2>1, <2>2, <2>3
    <2>5. PartlyTold(w, n, first, ToldBy(events, m - 1), Copies(first, events)[m - 1])
      BY <2>4
    <2> HIDE DEF Astray
    <2>6. events[m] \in DeriveEvents(w, n)
      BY <2>4 DEF Lists
    <2>7. ToldBy(events, m) = ToldBy(events, m - 1) \cup {events[m]}
      <3>1. 1 .. m = (1 .. (m - 1)) \cup {m}
        BY <2>4
      <3>2. QED
        BY <3>1 DEF ToldBy
    <2>8. Copies(first, events)[m] = ApplyWorkflowEvent(Copies(first, events)[m - 1], events[m])
      BY <2>4, CopiesStep
    <2>9. PartlyTold(w, n, first, ToldBy(events, m - 1) \cup {events[m]},
                     ApplyWorkflowEvent(Copies(first, events)[m - 1], events[m]))
      BY <2>5, <2>6, EventIsApplied
    <2>10. QED
      BY <2>2, <2>7, <2>8, <2>9
  <1>4. QED
    BY <1>2, <1>3

(* So a copy that fits the workflow before a command fits the one after it *)
(* when the events have been applied, and the operations it knew have the  *)
(* status they have now.                                                   *)
LEMMA EventsTell ==
  ASSUME NEW w, NEW n, Tellable(w, n), NEW first, Fits(first, w),
         NEW events, Len(events) \in Nat, Lists(events, DeriveEvents(w, n))
  PROVE  /\ Fits(Reduced(first, events), n)
         /\ \A o \in OpIds :
              /\ Reduced(first, events).operations[o] = Unset <=> first.operations[o] = Unset
              /\ first.operations[o] # Unset
                 /\ first.operations[o] = OperationStatus(w.operations[o])
                 => Reduced(first, events).operations[o] = OperationStatus(n.operations[o])
  <1> DEFINE copy == Reduced(first, events)
             done == ToldBy(events, Len(events))
  <1>1. PartlyTold(w, n, first, done, copy)
    BY EventsAreApplied
  <1>2. \A e \in DeriveEvents(w, n) : e \in done
    BY DEF Lists, ToldBy
  <1> HIDE DEF copy, done
  <1>3. copy.status = n.status
    <2>1. CASE w.status # n.status
      <3> DEFINE e == [kind |-> "workflow-status-changed", toStatus |-> n.status]
      <3>1. e \in done
        BY <1>2, <2>1 DEF DeriveEvents, StatusEvents
      <3>2. e.kind = "workflow-status-changed"
        OBVIOUS
      <3> HIDE DEF e
      <3>3. QED
        BY <1>1, <3>1, <3>2 DEF PartlyTold, PartlyStatus
    <2>2. CASE w.status = n.status
      BY <1>1, <2>2 DEF PartlyTold, PartlyStatus
    <2>3. QED
      BY <2>1, <2>2
  <1>4. ASSUME NEW t \in Tasks PROVE SameStatuses(copy.graph[t], n.graph[t])
    <2>0. PartlyTask(w, n, done, copy, t)
      BY <1>1 DEF PartlyTold
    <2>1. CASE \/ w.graph[t].executionStatus # n.graph[t].executionStatus
               \/ w.graph[t].stackStatus # n.graph[t].stackStatus
      <3> DEFINE e == [kind |-> "task-transitioned", taskId |-> t,
                       toExecutionStatus |-> n.graph[t].executionStatus,
                       toStackStatus |-> n.graph[t].stackStatus,
                       taskVersion |-> n.graph[t].version]
      <3>1. e \in TaskEvents(w, n)
        BY <2>1 DEF TaskEvents
      <3>2. IsMoveOf(e, t)
        BY DEF IsMoveOf
      <3> HIDE DEF e
      <3>3. e \in done
        BY <1>2, <3>1 DEF DeriveEvents
      <3>4. QED
        BY <2>0, <3>2, <3>3 DEF PartlyTask
    <2>2. CASE ~ \/ w.graph[t].executionStatus # n.graph[t].executionStatus
                 \/ w.graph[t].stackStatus # n.graph[t].stackStatus
      BY <2>0, <2>2 DEF PartlyTask, SameStatuses
    <2>3. QED
      BY <2>1, <2>2
  <1>5. ASSUME NEW t \in Tasks PROVE copy.graph[t].runs = ClientRuns(n.graph[t].runs)
    <2> DEFINE was == w.graph[t].runs
               now == n.graph[t].runs
    <2>0. PartlyTask(w, n, done, copy, t) /\ RunsTellable(was, now)
      BY <1>1 DEF PartlyTold, Tellable
    <2>1. Len(was) \in Nat /\ Len(now) \in Nat
      <3>1. was \in Seq(NodeRun) /\ now \in Seq(NodeRun)
        BY DEF Tellable, Workflow, TaskNode
      <3>2. QED
        BY <3>1
    <2>2. CASE ClientRuns(now) = ClientRuns(was)
      BY <2>0, <2>2 DEF PartlyTask
    <2>3. CASE Len(now) > Len(was)
      <3> DEFINE e == [kind |-> "run-started", taskId |-> t, attempt |-> Len(n.graph[t].runs),
                       runtimeSessionId |-> LastOf(n.graph[t].runs).runtimeSessionId]
      <3>1. e \in RunStartedEvents(w, n)
        BY <2>3 DEF RunStartedEvents
      <3>2. IsRunEvent(e, t)
        BY DEF IsRunEvent
      <3> HIDE DEF e
      <3>3. e \in done
        BY <1>2, <3>1 DEF DeriveEvents
      <3>4. QED
        BY <2>0, <3>2, <3>3 DEF PartlyTask
    <2>4. CASE LastRunEnded(was, now)
      <3> DEFINE e == [kind |-> "run-ended", taskId |-> t, attempt |-> Len(n.graph[t].runs),
                       terminalReason |-> LastOf(n.graph[t].runs).terminalReason]
      <3>1. e \in RunEndedEvents(w, n)
        BY <2>4 DEF RunEndedEvents
      <3>2. IsRunEvent(e, t)
        BY DEF IsRunEvent
      <3> HIDE DEF e
      <3>3. e \in done
        BY <1>2, <3>1 DEF DeriveEvents
      <3>4. QED
        BY <2>0, <3>2, <3>3 DEF PartlyTask
    <2> HIDE DEF was, now
    <2>5. QED
      BY <2>0, <2>1, <2>2, <2>3, <2>4 DEF RunsTellable
  <1>6. copy \in ClientCopies /\ \A t \in Tasks : copy.graph[t].version <= n.graph[t].version
    BY <1>1 DEF PartlyTold, PartlyTask
  <1>7. Fits(copy, n)
    BY <1>3, <1>4, <1>5, <1>6 DEF Fits
  <1>8. ASSUME NEW o \in OpIds
        PROVE  /\ copy.operations[o] = Unset <=> first.operations[o] = Unset
               /\ first.operations[o] # Unset
                  /\ first.operations[o] = OperationStatus(w.operations[o])
                  => copy.operations[o] = OperationStatus(n.operations[o])
    <2>0. PartlyOperation(first, n, done, copy, o)
      BY <1>1 DEF PartlyTold
    <2>1. CASE OperationStatus(w.operations[o]) # OperationStatus(n.operations[o])
      <3> DEFINE e == [kind |-> "graph-operation-changed", operationId |-> o,
                       toStatus |-> OperationStatus(n.operations[o])]
      <3>1. e \in OperationEvents(w, n)
        BY <2>1 DEF OperationEvents
      <3>2. IsMoveOfOperation(e, o)
        BY DEF IsMoveOfOperation
      <3> HIDE DEF e
      <3>3. e \in done
        BY <1>2, <3>1 DEF DeriveEvents
      <3>4. QED
        BY <2>0, <3>2, <3>3 DEF PartlyOperation
    <2>2. CASE OperationStatus(w.operations[o]) = OperationStatus(n.operations[o])
      BY <2>0, <2>2 DEF PartlyOperation
    <2>3. QED
      BY <2>1, <2>2
  <1>9. QED
    BY <1>7, <1>8 DEF copy

(* What a browser shows of a copy that fits is what it shows of a snapshot.*)
LEMMA FittingShows ==
  ASSUME NEW w \in Workflow, NEW copy, Fits(copy, w), NEW first,
         \A o \in OpIds : first.operations[o] # Unset
                            => copy.operations[o] = OperationStatus(w.operations[o])
  PROVE  Shown(first, copy) = Shown(first, ClientCopy(w))
  <1> DEFINE snap == ClientCopy(w)
  <1>1. /\ Fits(snap, w)
        /\ \A o \in OpIds : snap.operations[o] = OperationStatus(w.operations[o])
    BY SnapshotFits
  <1> HIDE DEF snap
  <1>2. copy.status = snap.status
    BY <1>1 DEF Fits
  <1>3. \A t \in Tasks : <<copy.graph[t].executionStatus, copy.graph[t].stackStatus,
                           copy.graph[t].runs>>
                       = <<snap.graph[t].executionStatus, snap.graph[t].stackStatus,
                           snap.graph[t].runs>>
    BY <1>1 DEF Fits, SameStatuses
  <1>4. \A o \in OpIds : first.operations[o] # Unset => copy.operations[o] = snap.operations[o]
    BY <1>1
  <1>5. Shown(first, copy) = Shown(first, snap)
    BY <1>2, <1>3, <1>4 DEF Shown
  <1>6. QED
    BY <1>5 DEF snap
=============================================================================
