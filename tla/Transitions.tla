---------------------------- MODULE Transitions ----------------------------
(***************************************************************************)
(* The pure core of the engine: what one command does to one workflow.     *)
(*                                                                         *)
(* A workflow is the aggregate of domain/types.ts: a graph of task nodes,  *)
(* the restack operations in flight, the status rolled up from the tasks   *)
(* and a version.  This module translates the transition table of          *)
(* application/transitions.ts, the run history of domain/runs.ts and the   *)
(* graph operations of application/restack.ts as operators on such values; *)
(* it has no variables.  AtomicWorkflow and WorkflowStore give them        *)
(* behaviours.                                                             *)
(*                                                                         *)
(* Data abstraction: an artifact is its kind and a task keeps the set of   *)
(* the kinds it has; a session, a provider session reference and an        *)
(* operation id are opaque; times, titles, prompts, priorities and the     *)
(* output offset of a run are left out.  Unset stands for JavaScript's     *)
(* undefined.                                                              *)
(***************************************************************************)
EXTENDS Naturals, Sequences, FiniteSets

CONSTANTS Tasks,        \* the task ids of the workflow
          DependsOn,    \* DependsOn[t]: the tasks t waits for
          Sessions,     \* runtime session ids
          Refs,         \* provider session references (what a provider resumes)
          Artifacts,    \* artifact kinds
          OpIds,        \* ids of graph operations
          Keys,         \* idempotency keys
          Unset         \* the undefined value

ASSUME DependsOnAssumption == DependsOn \in [Tasks -> SUBSET Tasks]
ASSUME TasksAreFinite == IsFiniteSet(Tasks)
-----------------------------------------------------------------------------
(* domain/types.ts *)
WorkflowStatuses == {"active", "completed", "failed", "cancelled"}

ExecutionStatuses ==
  {"pending", "ready", "running", "completed", "finalizing",
   "quality-pending", "ci-pending", "pr-open", "merged", "failed",
   "cancelled", "needs-review"}

StackStatuses ==
  {"clean", "restack-pending", "restacking", "restack-conflict",
   "stale-artifacts"}

OperationStatuses == {"pending", "running", "completed", "conflict", "failed"}

WorkflowCompleting ==
  {"completed", "pr-open", "merged", "failed", "cancelled"}

TerminalReasons ==
  {"completed", "failed", "cancelled", "recovered", "timeout", "interrupted"}

NodeRun == [runtimeSessionId: Sessions,
            providerSessionRef: Refs \cup {Unset},
            terminalReason: TerminalReasons \cup {Unset}]

TaskNode == [executionStatus: ExecutionStatuses,
             stackStatus: StackStatuses,
             artifacts: SUBSET Artifacts,
             sessionId: Sessions \cup {Unset},
             runs: Seq(NodeRun),
             version: Nat]

GraphOperation == [status: OperationStatuses,
                   attempt: Nat,
                   affectedNodeIds: SUBSET Tasks,
                   idempotencyKey: Keys]

(* undefined is none of the values it is told apart from *)
ASSUME UnsetAssumption ==
  Unset \notin Sessions \cup Refs \cup Nat \cup TerminalReasons
               \cup OperationStatuses \cup GraphOperation

Workflow == [graph: [Tasks -> TaskNode],
             operations: [OpIds -> GraphOperation \cup {Unset}],
             status: WorkflowStatuses,
             version: Nat]

(* createWorkflow and createTaskNode: every task pending and clean *)
NewTask == [executionStatus |-> "pending", stackStatus |-> "clean",
            artifacts |-> {}, sessionId |-> Unset, runs |-> << >>,
            version |-> 1]

NewWorkflow == [graph |-> [t \in Tasks |-> NewTask],
                operations |-> [o \in OpIds |-> Unset],
                status |-> "active",
                version |-> 1]
-----------------------------------------------------------------------------
(* domain/runs.ts: a run without an end is open *)
OpenRuns(runs) == {i \in DOMAIN runs : runs[i].terminalReason = Unset}

(* the position of the latest open run; 0 if every run has ended *)
OpenRun(runs) ==
  IF OpenRuns(runs) = {} THEN 0
  ELSE CHOOSE i \in OpenRuns(runs) : \A j \in OpenRuns(runs) : j <= i

(* a slip: the last run is closed whether it is open or not *)
CloseLastRun(runs, reason) ==
  IF runs = << >> THEN runs
  ELSE [runs EXCEPT ![Len(runs)].terminalReason = reason]

CloseLatestRun(runs, reason) ==
  IF OpenRun(runs) = 0 THEN runs
  ELSE [runs EXCEPT ![OpenRun(runs)].terminalReason = reason]

PatchOpenRun(runs, ref) ==
  IF ref = Unset THEN runs
  ELSE [runs EXCEPT ![OpenRun(runs)].providerSessionRef = ref]
-----------------------------------------------------------------------------
(* application/transitions.ts: the columns of the table TRANSITIONS *)
TransitionKinds ==
  {"mark-ready", "mark-running", "update-run", "complete-runtime",
   "start-finalization", "open-review", "start-quality-gate",
   "complete-quality-gate", "start-ci-gate", "complete-ci-gate",
   "merge-task", "complete-without-pr", "merge-conflict", "cancel-task",
   "recover-task", "mark-interrupted", "fail-task"}

TransitionCommand ==
  [kind: TransitionKinds,
   taskId: Tasks,
   expectedVersion: Nat \cup {Unset},
   expectedSessionId: Sessions \cup {Unset},
   sessionId: Sessions \cup {Unset},
   providerSessionRef: Refs \cup {Unset},
   artifacts: SUBSET Artifacts,
   passed: BOOLEAN]

From(kind) ==
  CASE kind = "mark-ready"            -> {"pending"}
    [] kind = "mark-running"          -> {"ready", "needs-review", "pr-open"}
    [] kind = "update-run"            -> {"running"}
    [] kind = "complete-runtime"      -> {"running"}
    [] kind = "start-finalization"    -> {"completed"}
    [] kind = "open-review"           -> {"finalizing"}
    [] kind = "start-quality-gate"    -> {"completed", "finalizing"}
    [] kind = "complete-quality-gate" -> {"quality-pending"}
    [] kind = "start-ci-gate"         -> {"pr-open"}
    [] kind = "complete-ci-gate"      -> {"ci-pending"}
    [] kind = "merge-task"            -> {"pr-open"}
    [] kind = "complete-without-pr"   -> {"finalizing"}
    [] kind = "merge-conflict"        -> {"pr-open", "finalizing", "ci-pending"}
    [] kind = "cancel-task"           -> {"pending", "ready", "running",
                                          "finalizing", "quality-pending",
                                          "ci-pending", "needs-review"}
    [] kind = "recover-task"          -> {"ready", "running",
                                          "quality-pending", "ci-pending"}
    [] kind = "mark-interrupted"      -> {"running"}
    [] kind = "fail-task"             -> {"pending", "ready", "running",
                                          "finalizing", "quality-pending",
                                          "ci-pending"}

Target(t, c) ==
  CASE c.kind = "mark-ready"            -> "ready"
    [] c.kind = "mark-running"          -> "running"
    [] c.kind = "update-run"            -> t.executionStatus
    [] c.kind = "complete-runtime"      -> "completed"
    [] c.kind = "start-finalization"    -> "finalizing"
    [] c.kind = "open-review"           -> "pr-open"
    [] c.kind = "start-quality-gate"    -> "quality-pending"
    [] c.kind = "complete-quality-gate" -> IF c.passed THEN "finalizing"
                                           ELSE "needs-review"
    [] c.kind = "start-ci-gate"         -> "ci-pending"
    [] c.kind = "complete-ci-gate"      -> "pr-open"
    [] c.kind = "merge-task"            -> "merged"
    [] c.kind = "complete-without-pr"   -> "merged"
    [] c.kind = "merge-conflict"        -> "needs-review"
    [] c.kind = "cancel-task"           -> "cancelled"
    [] c.kind = "recover-task"          -> IF t.artifacts # {}
                                           THEN "needs-review" ELSE "pending"
    [] c.kind = "mark-interrupted"      -> "needs-review"
    [] c.kind = "fail-task"             -> "failed"

(* a slip: only the regular end of a run closes it *)
CloseReasonIfCompleted(kind) ==
  IF kind = "complete-runtime" THEN "completed" ELSE Unset

(* the reason a transition closes the open run with; Unset: it closes none *)
CloseReason(kind) ==
  CASE kind = "complete-runtime" -> "completed"
    [] kind = "cancel-task"      -> "cancelled"
    [] kind = "recover-task"     -> "recovered"
    [] kind = "mark-interrupted" -> "interrupted"
    [] kind = "fail-task"        -> "failed"
    [] OTHER                     -> Unset

ClearsSession(kind) == kind \in {"recover-task", "mark-interrupted"}

AppendsArtifacts(kind) ==
  kind \in {"complete-runtime", "open-review", "complete-quality-gate",
            "complete-ci-gate", "merge-conflict"}

NewRun(c) == [runtimeSessionId |-> c.sessionId,
              providerSessionRef |-> c.providerSessionRef,
              terminalReason |-> Unset]

RunsAfter(t, c) ==
  CASE c.kind = "mark-running" -> Append(t.runs, NewRun(c))
    [] c.kind = "update-run"   -> PatchOpenRun(t.runs, c.providerSessionRef)
    [] CloseReason(c.kind) # Unset
                               -> CloseLatestRun(t.runs, CloseReason(c.kind))
    [] OTHER                   -> t.runs

SessionAfter(t, c) ==
  CASE c.kind = "mark-running"   -> c.sessionId
    [] ClearsSession(c.kind)     -> Unset
    [] OTHER                     -> t.sessionId

ArtifactsAfter(t, c) ==
  IF AppendsArtifacts(c.kind) THEN t.artifacts \cup c.artifacts ELSE t.artifacts

UpdateTask(t, c) ==
  [executionStatus |-> Target(t, c),
   stackStatus     |-> t.stackStatus,
   artifacts       |-> ArtifactsAfter(t, c),
   sessionId       |-> SessionAfter(t, c),
   runs            |-> RunsAfter(t, c),
   version         |-> t.version + 1]

(* mark-running: the extra conditions of its rule *)
CannotRun(t, c) == c.sessionId = Unset \/ t.stackStatus # "clean"

(* a slip: any session passes for the expected one *)
StaleIfSessionless(t, c) == c.expectedSessionId # Unset /\ t.sessionId = Unset

StaleSession(t, c) ==
  c.expectedSessionId # Unset /\ c.expectedSessionId # t.sessionId

(* What transitionTask answers: "ok" or the code of the error it throws.   *)
(* The checks are made in this order.                                      *)
TransitionOutcome(w, c) ==
  LET t == w.graph[c.taskId]
  IN  IF c.taskId \notin DOMAIN w.graph
      THEN "not_found"
      ELSE IF c.expectedVersion # Unset /\ c.expectedVersion # t.version
      THEN "version_conflict"
      ELSE IF StaleSession(t, c)
      THEN "session_mismatch"
      ELSE IF t.executionStatus \notin From(c.kind)
      THEN "invalid_transition"
      ELSE IF c.kind = "mark-running" /\ CannotRun(t, c)
      THEN "invalid_transition"
      ELSE IF c.kind = "update-run" /\ OpenRun(t.runs) = 0
      THEN "no_open_run"
      ELSE "ok"

DeriveWorkflowStatus(graph) ==
  LET statuses == {graph[t].executionStatus : t \in Tasks}
  IN  IF statuses \subseteq {"cancelled"} THEN "cancelled"
      ELSE IF statuses \subseteq WorkflowCompleting
      THEN IF "failed" \in statuses THEN "failed" ELSE "completed"
      ELSE "active"

(* what every accepted command makes: the next version of the workflow *)
NextVersion(w, graph, operations, status) ==
  [graph |-> graph, operations |-> operations, status |-> status,
   version |-> w.version + 1]

(* a slip: the status is rolled up from the tasks as they were *)
TransitionTaskRollsUpFirst(w, c) ==
  NextVersion(w, [w.graph EXCEPT ![c.taskId] = UpdateTask(@, c)],
              w.operations, DeriveWorkflowStatus(w.graph))

TransitionTask(w, c) ==
  LET graph == [w.graph EXCEPT ![c.taskId] = UpdateTask(@, c)]
  IN  NextVersion(w, graph, w.operations, DeriveWorkflowStatus(graph))
-----------------------------------------------------------------------------
(* application/restack.ts *)

(* S has every task that depends on the ancestor or on a member of S *)
ClosedUnderDependents(ancestor, S) ==
  \A t \in Tasks : DependsOn[t] \cap (S \cup {ancestor}) # {} => t \in S

(* the least such set, which is what the loop of collectDescendantIds      *)
(* computes; the graph is acyclic, so topologicalTasks drops none of them  *)
Descendants(ancestor) ==
  {t \in Tasks : \A S \in SUBSET Tasks :
                    ClosedUnderDependents(ancestor, S) => t \in S}

(* every affected node gets the stack status and a new version *)
Restacked(graph, affected, stack) ==
  [t \in Tasks |-> IF t \in affected
                   THEN [graph[t] EXCEPT !.stackStatus = stack,
                                         !.version = @ + 1]
                   ELSE graph[t]]

Requested(w) == {o \in OpIds : w.operations[o] # Unset}

(* createRestackOperation *)
RestackOperation(ancestor, key) ==
  [status |-> "pending", attempt |-> 0,
   affectedNodeIds |-> Descendants(ancestor), idempotencyKey |-> key]

(* requestRestack: a key some operation already has changes nothing, not   *)
(* even the version; an id already in use is overwritten                   *)
RequestRestack(w, id, ancestor, key) ==
  IF \E o \in Requested(w) : w.operations[o].idempotencyKey = key
  THEN w
  ELSE NextVersion(w,
         Restacked(w.graph, Descendants(ancestor), "restack-pending"),
         [w.operations EXCEPT ![id] = RestackOperation(ancestor, key)],
         w.status)

(* requireOperation *)
OperationOutcome(w, id, allowed) ==
  IF id \notin Requested(w) THEN "not_found"
  ELSE IF w.operations[id].status \notin allowed THEN "invalid_transition"
  ELSE "ok"

(* updateRestackOperation, completeRestackOperation, markRestackConflict:  *)
(* the operation moves and its affected nodes follow                       *)
MovedOperation(op, status) ==
  [status |-> status,
   attempt |-> IF status = "running" THEN op.attempt + 1 ELSE op.attempt,
   affectedNodeIds |-> op.affectedNodeIds,
   idempotencyKey |-> op.idempotencyKey]

MoveOperation(w, id, status, stack) ==
  NextVersion(w,
    Restacked(w.graph, w.operations[id].affectedNodeIds, stack),
    [w.operations EXCEPT ![id] = MovedOperation(@, status)],
    w.status)

StartRestack(w, id) == MoveOperation(w, id, "running", "restacking")

(* arts[t]: what the executor produced for t (artifactsByTaskId) *)
WithArtifacts(graph, affected, arts) ==
  [t \in Tasks |-> IF t \in affected
                   THEN [graph[t] EXCEPT !.artifacts = @ \cup arts[t]]
                   ELSE graph[t]]

(* a slip: the nodes of a completed restack stay blocked *)
CompleteRestackBlocked(w, id, arts) ==
  LET affected == w.operations[id].affectedNodeIds
  IN  NextVersion(w, WithArtifacts(w.graph, affected, arts),
        [w.operations EXCEPT ![id] = MovedOperation(@, "completed")],
        w.status)

CompleteRestack(w, id, arts) ==
  LET affected == w.operations[id].affectedNodeIds
  IN  NextVersion(w,
        WithArtifacts(Restacked(w.graph, affected, "clean"), affected, arts),
        [w.operations EXCEPT ![id] = MovedOperation(@, "completed")],
        w.status)

MarkRestackConflict(w, id) ==
  MoveOperation(w, id, "conflict", "restack-conflict")
-----------------------------------------------------------------------------
(* what ties a task's status to its runs: the last one is open while it    *)
(* runs, and is the run of its session; no other ever is                   *)
TaskHasOneOpenRunIffRunning(t) ==
  IF t.executionStatus = "running"
  THEN /\ OpenRuns(t.runs) = {Len(t.runs)}
       /\ t.sessionId = t.runs[Len(t.runs)].runtimeSessionId
  ELSE OpenRuns(t.runs) = {}
=============================================================================
