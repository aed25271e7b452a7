------------------------------ MODULE Planners ------------------------------
(***************************************************************************)
(* The two pure planners that look at a stored workflow and say what to do *)
(* with it: planDispatch (application/scheduler.ts) chooses the pending    *)
(* tasks to start, planRecovery (application/recovery.ts) the tasks to     *)
(* take back from runs that died and steps that were never finished.       *)
(*                                                                         *)
(* A plan is a set: its order is that of the tasks, and is given.          *)
(*                                                                         *)
(* Data abstraction: claims are scopes of files, and all that matters of   *)
(* them here is which tasks have conflicting ones; a priority is a place   *)
(* in DispatchOrder.  Time is abstract: a planner is given the tasks that  *)
(* have been in their status for longer than the limit.                    *)
(***************************************************************************)
EXTENDS Commands, FiniteSets

CONSTANTS MaxConcurrent,   \* policy.maxConcurrent
          DispatchOrder,   \* the tasks by descending priority, then id
          Overlapping      \* the pairs {t, u} with conflicting claims

(* the tasks one after the other *)
IsOrder(order) ==
  /\ order \in Seq(Tasks)
  /\ \A t \in Tasks : \E i \in DOMAIN order : order[i] = t
  /\ \A i, j \in DOMAIN order : order[i] = order[j] => i = j

Precedes(order, u, t) ==
  \E i, j \in DOMAIN order : i < j /\ order[i] = u /\ order[j] = t

ASSUME PlannersAssumption ==
  /\ MaxConcurrent \in Nat \ {0}
  /\ IsOrder(DispatchOrder)
  /\ Overlapping \subseteq SUBSET Tasks
  /\ {"quality-report", "ci-report"} \subseteq Artifacts
-----------------------------------------------------------------------------
(* domain/types.ts *)
SuccessStatuses == {"completed", "pr-open", "merged"}

ClaimHolding ==
  {"ready", "running", "finalizing", "quality-pending", "ci-pending",
   "needs-review"}

AgentOccupying == {"ready", "running", "finalizing"}

(* application/scheduler.ts *)
TasksIn(w, statuses) == {t \in Tasks : w.graph[t].executionStatus \in statuses}

Capacity(w) ==
  LET busy == Cardinality(TasksIn(w, AgentOccupying))
  IN  IF busy >= MaxConcurrent THEN 0 ELSE MaxConcurrent - busy

(* a slip: the executions of the dependencies are not looked at *)
DependenciesClean(w, t) == \A d \in DependsOn[t] : w.graph[d].stackStatus = "clean"

DependenciesSucceeded(w, t) ==
  \A d \in DependsOn[t] : /\ w.graph[d].executionStatus \in SuccessStatuses
                          /\ w.graph[d].stackStatus = "clean"

ClaimsAvailable(w, t) ==
  \A holder \in TasksIn(w, ClaimHolding) \ {t} : {t, holder} \notin Overlapping

Candidates(w) ==
  {t \in TasksIn(w, {"pending"}) : /\ w.graph[t].stackStatus = "clean"
                                   /\ DependenciesSucceeded(w, t)
                                   /\ ClaimsAvailable(w, t)}

(* the tasks of the first candidates that fit; they are in DispatchOrder *)
PlanDispatch(w) ==
  {t \in Candidates(w) :
     /\ w.status = "active"
     /\ Cardinality({u \in Candidates(w) : Precedes(DispatchOrder, u, t)})
          < Capacity(w)}

(* priorSessionRef: what the last resumable run that ended left to resume *)
PriorSessionRef(task) ==
  LET resumable == {i \in DOMAIN task.runs :
                      /\ task.runs[i].terminalReason # Unset
                      /\ task.runs[i].providerSessionRef # Unset}
  IN  IF resumable = {} THEN Unset
      ELSE task.runs[CHOOSE i \in resumable : \A j \in resumable : j <= i]
             .providerSessionRef
-----------------------------------------------------------------------------
(* application/recovery.ts: the first rule that matches a task; probes[s]  *)
(* is the state of session s, for the sessions that were probed            *)
RecoveryKind(task, probes, cancelled, stale) ==
  LET s == task.sessionId
      probed(state) == s \in DOMAIN probes /\ probes[s] = state
  IN  CASE cancelled /\ s # Unset -> "stop-runtime"
        [] task.executionStatus = "ready" /\ s = Unset /\ stale -> "recover-task"
        [] task.executionStatus = "running" /\ s = Unset -> "recover-task"
        [] task.executionStatus = "running" /\ probed("dead") -> "recover-task"
        [] task.executionStatus = "running" /\ probed("missing")
             -> "interrupt-task"
        [] task.executionStatus \in {"quality-pending", "ci-pending"} /\ stale
             -> "probe-gate"
        [] OTHER -> Unset

(* only the actions on runs carry the session they are about *)
RecoveryAction(w, t, kind) ==
  [kind |-> kind, taskId |-> t, runs |-> Len(w.graph[t].runs),
   gate |-> w.graph[t].executionStatus,
   sessionId |-> IF kind = "probe-gate" THEN Unset ELSE w.graph[t].sessionId]

(* one action at most for a task; they are in the order of the graph *)
PlanRecovery(w, probes, cancelled, stale) ==
  LET kindOf(t) == RecoveryKind(w.graph[t], probes, cancelled, t \in stale)
  IN  {RecoveryAction(w, t, kindOf(t)) : t \in {u \in Tasks : kindOf(u) # Unset}}

(* application/recovery-service.ts: planKey *)

(* a slip: a task is recovered once in its life *)
PlanKeyOfTask(action) == <<action.taskId, action.kind>>

PlanKey(action) == <<action.taskId, action.kind, action.runs>>

(* the transition an action is carried out by *)
RecoveryTransition(action) ==
  CASE action.kind = "recover-task"   -> "recover-task"
    [] action.kind = "interrupt-task" -> "mark-interrupted"
    [] action.kind = "stop-runtime"   -> "cancel-task"
    [] action.kind = "probe-gate" /\ action.gate = "quality-pending"
                                      -> "complete-quality-gate"
    [] OTHER                          -> "merge-conflict"

(* a slip: the session the action is about is not named *)
RecoveryCommandUnfenced(action) ==
  [kind |-> RecoveryTransition(action), taskId |-> action.taskId,
   expectedVersion |-> Unset, expectedSessionId |-> Unset,
   sessionId |-> Unset, providerSessionRef |-> Unset,
   artifacts |-> CASE action.kind # "probe-gate" -> {}
                   [] action.gate = "quality-pending" -> {"quality-report"}
                   [] OTHER -> {"ci-report"},
   passed |-> FALSE]

RecoveryCommand(action) ==
  [kind |-> RecoveryTransition(action), taskId |-> action.taskId,
   expectedVersion |-> Unset, expectedSessionId |-> action.sessionId,
   sessionId |-> Unset, providerSessionRef |-> Unset,
   artifacts |-> CASE action.kind # "probe-gate" -> {}
                   [] action.gate = "quality-pending" -> {"quality-report"}
                   [] OTHER -> {"ci-report"},
   passed |-> FALSE]
=============================================================================
