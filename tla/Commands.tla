------------------------------ MODULE Commands ------------------------------
(***************************************************************************)
(* The command layer over the aggregate (application/commands.ts) and the  *)
(* events a save publishes (domain/events.ts).  Still without variables: a *)
(* command is a value, Apply is what it makes of a workflow, Outcome       *)
(* whether it is accepted, and DeriveEvents the difference of two          *)
(* workflows that clients are told about.                                  *)
(***************************************************************************)
EXTENDS Transitions

Command ==
       [kind: {"transition-task"}, transition: TransitionCommand]
  \cup [kind: {"request-restack"}, operationId: OpIds, ancestorId: Tasks,
        idempotencyKey: Keys]
  \cup [kind: {"start-restack"}, operationId: OpIds]
  \cup [kind: {"complete-restack"}, operationId: OpIds,
        artifactsByTaskId: [Tasks -> SUBSET Artifacts]]
  \cup [kind: {"mark-restack-conflict"}, operationId: OpIds]

(* "ok", or the code of the error the command's rule throws *)
Outcome(w, c) ==
  CASE c.kind = "transition-task"  -> TransitionOutcome(w, c.transition)
    [] c.kind = "request-restack"  -> "ok"
    [] c.kind = "start-restack"    ->
         OperationOutcome(w, c.operationId, {"pending"})
    [] c.kind \in {"complete-restack", "mark-restack-conflict"} ->
         OperationOutcome(w, c.operationId, {"running"})

Apply(w, c) ==
  CASE c.kind = "transition-task"  -> TransitionTask(w, c.transition)
    [] c.kind = "request-restack"  ->
         RequestRestack(w, c.operationId, c.ancestorId, c.idempotencyKey)
    [] c.kind = "start-restack"    -> StartRestack(w, c.operationId)
    [] c.kind = "complete-restack" ->
         CompleteRestack(w, c.operationId, c.artifactsByTaskId)
    [] c.kind = "mark-restack-conflict" -> MarkRestackConflict(w, c.operationId)
-----------------------------------------------------------------------------
(* domain/events.ts *)
WorkflowEvent ==
       [kind: {"workflow-status-changed"}, toStatus: WorkflowStatuses]
  \cup [kind: {"task-transitioned"}, taskId: Tasks,
        toExecutionStatus: ExecutionStatuses, toStackStatus: StackStatuses,
        taskVersion: Nat]
  \cup [kind: {"run-started"}, taskId: Tasks, attempt: Nat,
        runtimeSessionId: Sessions]
  \cup [kind: {"run-ended"}, taskId: Tasks, attempt: Nat,
        terminalReason: TerminalReasons]
  \cup [kind: {"graph-operation-changed"}, operationId: OpIds,
        toStatus: OperationStatuses]

OperationStatus(op) == IF op = Unset THEN Unset ELSE op.status

StatusEvents(prev, next) ==
  IF prev.status = next.status THEN {}
  ELSE {[kind |-> "workflow-status-changed", toStatus |-> next.status]}

TaskEvents(prev, next) ==
  {[kind |-> "task-transitioned", taskId |-> t,
    toExecutionStatus |-> next.graph[t].executionStatus,
    toStackStatus |-> next.graph[t].stackStatus,
    taskVersion |-> next.graph[t].version] :
      t \in {u \in Tasks :
               \/ prev.graph[u].executionStatus # next.graph[u].executionStatus
               \/ prev.graph[u].stackStatus # next.graph[u].stackStatus}}

LastOf(runs) == runs[Len(runs)]

(* one run event per task at most: a run was added, or the last one ended *)
RunStartedEvents(prev, next) ==
  {[kind |-> "run-started", taskId |-> t, attempt |-> Len(next.graph[t].runs),
    runtimeSessionId |-> LastOf(next.graph[t].runs).runtimeSessionId] :
      t \in {u \in Tasks : Len(next.graph[u].runs) > Len(prev.graph[u].runs)}}

(* a slip: only a run that completed is told to have ended *)
LastRunCompleted(prevRuns, nextRuns) ==
  /\ Len(nextRuns) = Len(prevRuns)
  /\ Len(nextRuns) > 0
  /\ LastOf(prevRuns).terminalReason = Unset
  /\ LastOf(nextRuns).terminalReason = "completed"

LastRunEnded(prevRuns, nextRuns) ==
  /\ Len(nextRuns) = Len(prevRuns)
  /\ Len(nextRuns) > 0
  /\ LastOf(prevRuns).terminalReason = Unset
  /\ LastOf(nextRuns).terminalReason # Unset

RunEndedEvents(prev, next) ==
  {[kind |-> "run-ended", taskId |-> t, attempt |-> Len(next.graph[t].runs),
    terminalReason |-> LastOf(next.graph[t].runs).terminalReason] :
      t \in {u \in Tasks : LastRunEnded(prev.graph[u].runs, next.graph[u].runs)}}

OperationEvents(prev, next) ==
  {[kind |-> "graph-operation-changed", operationId |-> o,
    toStatus |-> OperationStatus(next.operations[o])] :
      o \in {p \in OpIds : OperationStatus(prev.operations[p])
                             # OperationStatus(next.operations[p])}}

DeriveEvents(prev, next) ==
  StatusEvents(prev, next) \cup TaskEvents(prev, next)
    \cup RunStartedEvents(prev, next) \cup RunEndedEvents(prev, next)
    \cup OperationEvents(prev, next)
=============================================================================
