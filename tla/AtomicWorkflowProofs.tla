------------------------ MODULE AtomicWorkflowProofs ------------------------
(***************************************************************************)
(* Proofs about the lifecycle of a workflow, for every set of tasks,       *)
(* dependency graph, set of commands and length of history.                *)
(*                                                                         *)
(* The inductive invariant IInv is the invariant of a workflow that every  *)
(* command preserves (TransitionsProofs), and the fresh roll-up.           *)
(***************************************************************************)
EXTENDS AtomicWorkflow, TransitionsProofs

IInv == WorkflowInv(wf) /\ StatusIsRollup

-----------------------------------------------------------------------------
(* One step *)

(* Every step executes a command. *)
LEMMA StepExecutes == Next => \E c \in CommandSet : Execute(c)
  <1>0. ASSUME NEW kind \in TransitionKinds, Transition(kind)
        PROVE  \E c \in CommandSet : Execute(c)
    BY <1>0 DEF Transition, TransitionsOf
  <1>1. QED
    BY <1>0 DEF TransitionKinds, Next, GraphCommand, MarkReady, MarkRunning, UpdateRun,
                CompleteRuntime, StartFinalization, OpenReview, StartQualityGate,
                CompleteQualityGate, StartCIGate, CompleteCIGate, MergeTask,
                CompleteWithoutPR, MergeConflict, CancelTask, RecoverTask,
                MarkInterrupted, FailTask, AskRestack, BeginRestack,
                FinishRestack, ConflictRestack

(* What a step of the specification is. *)
LEMMA StepOf ==
  ASSUME TypeOK, [Next]_wf
  PROVE  \/ wf' = wf
         \/ \E c \in TransitionCommand : /\ TransitionOutcome(wf, c) = "ok"
                                        /\ wf' = TransitionTask(wf, c)
         \/ /\ TypeOK'
            /\ SameLives(wf, wf')
            /\ NeverCleans(wf, wf') \/ \E id \in OpIds : Cleans(wf, wf', id)
  <1>1. ASSUME NEW c \in CommandSet, Execute(c)
        PROVE  \/ \E d \in TransitionCommand : /\ TransitionOutcome(wf, d) = "ok"
                                              /\ wf' = TransitionTask(wf, d)
               \/ /\ TypeOK'
                  /\ SameLives(wf, wf')
                  /\ NeverCleans(wf, wf') \/ \E id \in OpIds : Cleans(wf, wf', id)
    <2>1. c \in Command /\ Outcome(wf, c) = "ok" /\ wf' = Apply(wf, c)
      BY <1>1, CommandSetAssumption DEF Execute
    <2>2. CASE c.kind = "transition-task"
      <3>1. c.transition \in TransitionCommand
        BY <2>1, <2>2 DEF Command
      <3>2. /\ TransitionOutcome(wf, c.transition) = "ok"
            /\ wf' = TransitionTask(wf, c.transition)
        BY <2>1, <2>2 DEF Outcome, Apply
      <3>3. QED
        BY <3>1, <3>2
    <2>3. CASE c.kind # "transition-task"
      BY <2>1, <2>3, GraphCommandShape DEF TypeOK
    <2>4. QED
      BY <2>2, <2>3
  <1>2. CASE Next
    <2>1. \E c \in CommandSet : Execute(c)
      BY <1>2, StepExecutes
    <2>2. QED
      BY <1>1, <2>1
  <1>3. QED
    BY <1>2

(* The inductive invariant holds initially ... *)
LEMMA InitInv == Init => IInv
  <1> SUFFICES ASSUME Init PROVE IInv
    OBVIOUS
  <1>1. WorkflowInv(wf)
    BY NewWorkflowInv DEF Init
  <1>2. wf.graph = [t \in Tasks |-> NewTask] /\ wf.status = "active"
    BY DEF Init, NewWorkflow
  <1>3. {wf.graph[t].executionStatus : t \in Tasks} = {"pending"}
    BY <1>2, TasksAssumption DEF NewTask
  <1>4. StatusIsRollup
    BY <1>2, <1>3 DEF StatusIsRollup, DeriveWorkflowStatus, WorkflowCompleting
  <1>5. QED
    BY <1>1, <1>4 DEF IInv

(* ... and every step preserves it. *)
LEMMA NextInv == IInv /\ [Next]_wf => IInv'
  <1> SUFFICES ASSUME IInv, [Next]_wf PROVE IInv'
    OBVIOUS
  <1>0. WorkflowInv(wf) /\ TypeOK
    BY DEF IInv, WorkflowInv, TypeOK
  <1>1. CASE wf' = wf
    BY <1>1 DEF IInv, StatusIsRollup
  <1>2. ASSUME NEW c \in TransitionCommand, TransitionOutcome(wf, c) = "ok",
               wf' = TransitionTask(wf, c)
        PROVE  IInv'
    <2>1. WorkflowInv(wf')
      BY <1>0, <1>2, TransitionInv
    <2>2. wf'.status = DeriveWorkflowStatus(wf'.graph)
      BY <1>0, <1>2, TransitionShape DEF TypeOK
    <2>3. QED
      BY <2>1, <2>2 DEF IInv, StatusIsRollup
  <1>3. CASE TypeOK' /\ SameLives(wf, wf')
    <2>1. WorkflowInv(wf')
      BY <1>0, <1>3, SameLivesInv DEF TypeOK
    <2>2. {wf'.graph[t].executionStatus : t \in Tasks}
            = {wf.graph[t].executionStatus : t \in Tasks}
      BY <1>3 DEF SameLives
    <2>3. DeriveWorkflowStatus(wf'.graph) = DeriveWorkflowStatus(wf.graph)
      BY <2>2 DEF DeriveWorkflowStatus
    <2>4. StatusIsRollup'
      BY <1>3, <2>3 DEF IInv, StatusIsRollup, SameLives
    <2>5. QED
      BY <2>1, <2>4 DEF IInv
  <1>4. QED
    BY <1>0, <1>1, <1>2, <1>3, StepOf

(* The inductive invariant holds in every reachable state. *)
THEOREM Invariance == Spec => []IInv
  BY InitInv, NextInv, PTL DEF Spec

-----------------------------------------------------------------------------
(* The invariants *)

(* The stored workflow is always a Workflow of domain/types.ts. *)
THEOREM TypeCorrect == Spec => []TypeOK
  <1>1. IInv => TypeOK
    BY DEF IInv, WorkflowInv, TypeOK
  <1>2. QED
    BY <1>1, Invariance, PTL

(* A task is running exactly while its last run, and no other, is open and *)
(* is the run of the session the task names.                               *)
THEOREM RunningIsOpen == Spec => []RunIsOpenIffRunning
  <1>1. IInv => RunIsOpenIffRunning
    BY DEF IInv, WorkflowInv, TaskInv, RunIsOpenIffRunning
  <1>2. QED
    BY <1>1, Invariance, PTL

(* A task that waits to be dispatched names no session. *)
THEOREM IdleIsSessionless == Spec => []IdleHasNoSession
  <1>1. IInv => IdleHasNoSession
    BY DEF IInv, WorkflowInv, TaskInv, IdleHasNoSession
  <1>2. QED
    BY <1>1, Invariance, PTL

(* The stored status is the roll-up of the stored tasks. *)
THEOREM RollupIsFresh == Spec => []StatusIsRollup
  <1>1. IInv => StatusIsRollup
    BY DEF IInv
  <1>2. QED
    BY <1>1, Invariance, PTL

(* A workflow that is no longer active has no open run. *)
THEOREM SettledIsQuiet == Spec => []SettledHasNoOpenRun
  <1>1. ASSUME IInv PROVE SettledHasNoOpenRun
    <2> SUFFICES ASSUME wf.status # "active", NEW t \in Tasks
                 PROVE  OpenRuns(wf.graph[t].runs) = {}
      BY DEF SettledHasNoOpenRun
    <2>1. {wf.graph[u].executionStatus : u \in Tasks} \subseteq WorkflowCompleting
      BY <1>1 DEF IInv, StatusIsRollup, DeriveWorkflowStatus, WorkflowCompleting
    <2>2. wf.graph[t].executionStatus # "running"
      BY <2>1 DEF WorkflowCompleting
    <2>3. QED
      BY <1>1, <2>2 DEF IInv, WorkflowInv, TaskInv, TaskHasOneOpenRunIffRunning
  <1>2. QED
    BY <1>1, Invariance, PTL

-----------------------------------------------------------------------------
(* The action properties *)

(* What a transition may do to the task it names: it is not a settled one, *)
(* the history grows by one run or keeps its length and its ended runs,    *)
(* and the evidence is kept.                                               *)
LEMMA UpdateTaskKeeps ==
  ASSUME NEW t, TaskInv(t), NEW c \in TransitionCommand, Accepted(t, c)
  PROVE  /\ t.executionStatus \notin Settled
         /\ Len(RunsAfter(t, c)) \in {Len(t.runs), Len(t.runs) + 1}
         /\ \A i \in DOMAIN t.runs : t.runs[i].terminalReason # Unset
                                       => RunsAfter(t, c)[i] = t.runs[i]
         /\ t.artifacts # {} => Target(t, c) # "pending"
  <1>0. t.runs \in Seq(NodeRun) /\ t.executionStatus \in ExecutionStatuses
    BY DEF TaskInv, TaskNode
  <1>1. t.executionStatus \notin Settled
    BY DEF Accepted, From, Settled, TransitionCommand, TransitionKinds
  <1>2. t.artifacts # {} => Target(t, c) # "pending"
    <2>1. CASE c.kind = "update-run"
      BY <2>1 DEF Target, Accepted, From
    <2>2. CASE c.kind # "update-run"
      BY <2>2 DEF Target, TransitionCommand, TransitionKinds
    <2>3. QED
      BY <2>1, <2>2
  <1>3. CASE c.kind = "mark-running"
    <2>1. RunsAfter(t, c) = Append(t.runs, NewRun(c))
      BY <1>3 DEF RunsAfter, CloseReason
    <2>2. NewRun(c) \in NodeRun
      BY <1>3 DEF TransitionCommand, NewRun, NodeRun, Accepted
    <2>3. QED
      BY <1>0, <1>1, <1>2, <2>1, <2>2
  <1>4. CASE c.kind = "update-run"
    <2>1. t.executionStatus = "running"
      BY <1>4 DEF Accepted, From
    <2>2. OpenRuns(t.runs) = {Len(t.runs)}
      BY <2>1 DEF TaskInv, TaskHasOneOpenRunIffRunning
    <2>3. OpenRun(t.runs) = Len(t.runs) /\ Len(t.runs) \in DOMAIN t.runs
      BY <1>0, <2>2, OpenRunIsLast
    <2>4. RunsAfter(t, c) = PatchOpenRun(t.runs, c.providerSessionRef)
      BY <1>4 DEF RunsAfter, CloseReason
    <2>5. /\ Len(PatchOpenRun(t.runs, c.providerSessionRef)) = Len(t.runs)
          /\ \A i \in DOMAIN t.runs : i # Len(t.runs)
               => PatchOpenRun(t.runs, c.providerSessionRef)[i] = t.runs[i]
      BY <1>0, <2>3 DEF PatchOpenRun
    <2>6. t.runs[Len(t.runs)].terminalReason = Unset
      BY <2>2 DEF OpenRuns
    <2>7. QED
      BY <1>0, <1>1, <1>2, <2>4, <2>5, <2>6
  <1>5. CASE CloseReason(c.kind) # Unset
    <2>1. c.kind \in {"complete-runtime", "cancel-task", "recover-task",
                      "mark-interrupted", "fail-task"}
      BY <1>5 DEF CloseReason
    <2>2. RunsAfter(t, c) = CloseLatestRun(t.runs, CloseReason(c.kind))
      BY <1>5, <2>1 DEF RunsAfter
    <2>3. OpenRuns(t.runs) = {} => RunsAfter(t, c) = t.runs
      BY <2>2 DEF CloseLatestRun, OpenRun
    <2>4. ASSUME OpenRuns(t.runs) = {Len(t.runs)}
          PROVE  /\ Len(RunsAfter(t, c)) = Len(t.runs)
                 /\ \A i \in DOMAIN t.runs : i # Len(t.runs)
                      => RunsAfter(t, c)[i] = t.runs[i]
                 /\ t.runs[Len(t.runs)].terminalReason = Unset
      <3>1. OpenRun(t.runs) = Len(t.runs) /\ Len(t.runs) \in DOMAIN t.runs
        BY <1>0, <2>4, OpenRunIsLast
      <3>2. t.runs[Len(t.runs)].terminalReason = Unset
        BY <2>4 DEF OpenRuns
      <3> DEFINE reason == CloseReason(c.kind)
      <3>3. RunsAfter(t, c) = [t.runs EXCEPT ![Len(t.runs)].terminalReason = reason]
              \/ RunsAfter(t, c) = t.runs
        BY <2>2, <3>1 DEF CloseLatestRun
      <3> HIDE DEF reason
      <3>4. QED
        BY <1>0, <3>1, <3>2, <3>3
    <2>5. OpenRuns(t.runs) \in {{}, {Len(t.runs)}}
      BY DEF TaskInv, TaskHasOneOpenRunIffRunning
    <2>6. QED
      BY <1>0, <1>1, <1>2, <2>3, <2>4, <2>5
  <1>6. CASE /\ CloseReason(c.kind) = Unset
             /\ c.kind \notin {"mark-running", "update-run"}
    <2>1. RunsAfter(t, c) = t.runs
      BY <1>6, NeutralTransition
    <2>2. QED
      BY <1>0, <1>1, <1>2, <2>1
  <1>7. QED
    BY <1>3, <1>4, <1>5, <1>6

(* A step changes at most the life of one task, by an accepted transition. *)
LEMMA StepOfTask ==
  ASSUME IInv, [Next]_wf, NEW t \in Tasks
  PROVE  \/ /\ wf'.graph[t].executionStatus = wf.graph[t].executionStatus
            /\ wf'.graph[t].runs = wf.graph[t].runs
            /\ wf.graph[t].artifacts \subseteq wf'.graph[t].artifacts
         \/ \E c \in TransitionCommand :
              Accepted(wf.graph[t], c) /\ wf'.graph[t] = UpdateTask(wf.graph[t], c)
  <1>1. TypeOK
    BY DEF IInv, WorkflowInv, TypeOK
  <1>2. CASE wf' = wf
    BY <1>2
  <1>3. ASSUME NEW c \in TransitionCommand, TransitionOutcome(wf, c) = "ok",
               wf' = TransitionTask(wf, c)
        PROVE  \/ wf'.graph[t] = wf.graph[t]
               \/ Accepted(wf.graph[t], c) /\ wf'.graph[t] = UpdateTask(wf.graph[t], c)
    <2>1. wf'.graph = [u \in Tasks |-> IF u = c.taskId THEN UpdateTask(wf.graph[u], c)
                                       ELSE wf.graph[u]]
      BY <1>1, <1>3, TransitionShape DEF TypeOK
    <2>2. Accepted(wf.graph[c.taskId], c)
      BY <1>3, AcceptedTransition
    <2>3. QED
      BY <2>1, <2>2
  <1>4. CASE SameLives(wf, wf')
    BY <1>4 DEF SameLives
  <1>5. QED
    BY <1>1, <1>2, <1>3, <1>4, StepOf

(* No command revives a merged, failed or cancelled task. *)
THEOREM SettledStays == Spec => SettledForGood
  <1>1. ASSUME IInv, [Next]_wf
        PROVE  \A t \in Tasks : wf.graph[t].executionStatus \in Settled =>
                 /\ wf'.graph[t].executionStatus = wf.graph[t].executionStatus
                 /\ wf'.graph[t].runs = wf.graph[t].runs
    <2> SUFFICES ASSUME NEW t \in Tasks, wf.graph[t].executionStatus \in Settled
                 PROVE  /\ wf'.graph[t].executionStatus = wf.graph[t].executionStatus
                        /\ wf'.graph[t].runs = wf.graph[t].runs
      OBVIOUS
    <2>1. TaskInv(wf.graph[t])
      BY <1>1 DEF IInv, WorkflowInv
    <2>2. QED
      BY <1>1, <2>1, StepOfTask, UpdateTaskKeeps
  <1>2. QED
    BY <1>1, Invariance, PTL DEF Spec, SettledForGood

(* The history of runs is append-only and an ended run is frozen. *)
THEOREM HistoryGrows == Spec => HistoryIsAppendOnly
  <1>1. ASSUME IInv, [Next]_wf
        PROVE  \A t \in Tasks :
                 LET old == wf.graph[t].runs
                     new == wf'.graph[t].runs
                 IN  /\ Len(new) \in {Len(old), Len(old) + 1}
                     /\ \A i \in DOMAIN old : old[i].terminalReason # Unset
                                                => new[i] = old[i]
    <2> SUFFICES ASSUME NEW t \in Tasks
                 PROVE  /\ Len(wf'.graph[t].runs)
                              \in {Len(wf.graph[t].runs), Len(wf.graph[t].runs) + 1}
                        /\ \A i \in DOMAIN wf.graph[t].runs :
                             wf.graph[t].runs[i].terminalReason # Unset
                               => wf'.graph[t].runs[i] = wf.graph[t].runs[i]
      OBVIOUS
    <2>1. TaskInv(wf.graph[t])
      BY <1>1 DEF IInv, WorkflowInv
    <2>2. CASE wf'.graph[t].runs = wf.graph[t].runs
      BY <2>2
    <2>3. ASSUME NEW c \in TransitionCommand, Accepted(wf.graph[t], c),
                 wf'.graph[t].runs = RunsAfter(wf.graph[t], c)
          PROVE  /\ Len(wf'.graph[t].runs)
                       \in {Len(wf.graph[t].runs), Len(wf.graph[t].runs) + 1}
                 /\ \A i \in DOMAIN wf.graph[t].runs :
                      wf.graph[t].runs[i].terminalReason # Unset
                        => wf'.graph[t].runs[i] = wf.graph[t].runs[i]
      BY <2>1, <2>3, UpdateTaskKeeps
    <2>4. wf'.graph[t].runs # wf.graph[t].runs
            => \E c \in TransitionCommand :
                 /\ Accepted(wf.graph[t], c)
                 /\ wf'.graph[t].runs = RunsAfter(wf.graph[t], c)
      <3>1. \A c : UpdateTask(wf.graph[t], c).runs = RunsAfter(wf.graph[t], c)
        BY UpdateTaskShape
      <3>2. QED
        BY <1>1, <3>1, StepOfTask
    <2>5. QED
      BY <2>2, <2>3, <2>4
  <1>2. QED
    BY <1>1, Invariance, PTL DEF Spec, HistoryIsAppendOnly

(* Evidence is kept, and a task with evidence is not thrown back to        *)
(* pending.                                                                *)
THEOREM EvidenceStays == Spec => EvidenceIsKept
  <1>1. ASSUME IInv, [Next]_wf
        PROVE  \A t \in Tasks :
                 /\ wf.graph[t].artifacts \subseteq wf'.graph[t].artifacts
                 /\ /\ wf.graph[t].artifacts # {}
                    /\ wf.graph[t].executionStatus # "pending"
                    => wf'.graph[t].executionStatus # "pending"
    <2> SUFFICES ASSUME NEW t \in Tasks
                 PROVE  /\ wf.graph[t].artifacts \subseteq wf'.graph[t].artifacts
                        /\ /\ wf.graph[t].artifacts # {}
                           /\ wf.graph[t].executionStatus # "pending"
                           => wf'.graph[t].executionStatus # "pending"
      OBVIOUS
    <2>1. TaskInv(wf.graph[t])
      BY <1>1 DEF IInv, WorkflowInv
    <2>2. ASSUME NEW c \in TransitionCommand, Accepted(wf.graph[t], c),
                 wf'.graph[t] = UpdateTask(wf.graph[t], c)
          PROVE  /\ wf.graph[t].artifacts \subseteq wf'.graph[t].artifacts
                 /\ wf.graph[t].artifacts # {}
                    => wf'.graph[t].executionStatus # "pending"
      <3>1. /\ wf'.graph[t].executionStatus = Target(wf.graph[t], c)
            /\ wf'.graph[t].artifacts = IF AppendsArtifacts(c.kind)
                                        THEN wf.graph[t].artifacts \cup c.artifacts
                                        ELSE wf.graph[t].artifacts
        BY <2>2 DEF UpdateTask, ArtifactsAfter
      <3>2. wf.graph[t].artifacts # {} => Target(wf.graph[t], c) # "pending"
        BY <2>1, <2>2, UpdateTaskKeeps
      <3>3. QED
        BY <3>1, <3>2
    <2>3. QED
      BY <1>1, <2>2, StepOfTask
  <1>2. QED
    BY <1>1, Invariance, PTL DEF Spec, EvidenceIsKept

(* Only the completion of a running restack that covers a task makes it    *)
(* clean again.                                                            *)
THEOREM CleanedByCompletion == Spec => CleanedByCompletionOnly
  <1>1. ASSUME IInv, [Next]_wf
        PROVE  \A t \in Tasks :
                 /\ wf.graph[t].stackStatus # "clean"
                 /\ wf'.graph[t].stackStatus = "clean"
                 => \E o \in OpIds : /\ Covers(wf.operations[o], t)
                                     /\ wf.operations[o].status = "running"
                                     /\ wf'.operations[o].status = "completed"
    <2> SUFFICES ASSUME NEW t \in Tasks, wf.graph[t].stackStatus # "clean",
                        wf'.graph[t].stackStatus = "clean"
                 PROVE  \E o \in OpIds : /\ Covers(wf.operations[o], t)
                                         /\ wf.operations[o].status = "running"
                                         /\ wf'.operations[o].status = "completed"
      OBVIOUS
    <2>0. TypeOK
      BY <1>1 DEF IInv, WorkflowInv, TypeOK
    <2>1. wf' # wf
      OBVIOUS
    <2>2. ASSUME NEW c \in TransitionCommand, wf' = TransitionTask(wf, c)
          PROVE  FALSE
      <3>1. wf'.graph = [u \in Tasks |-> IF u = c.taskId
                                         THEN UpdateTask(wf.graph[u], c)
                                         ELSE wf.graph[u]]
        BY <2>0, <2>2, TransitionShape DEF TypeOK
      <3>2. UpdateTask(wf.graph[t], c).stackStatus = wf.graph[t].stackStatus
        BY UpdateTaskShape
      <3>3. QED
        BY <3>1, <3>2
    <2>3. ~ NeverCleans(wf, wf')
      BY DEF NeverCleans
    <2>4. PICK o \in OpIds : Cleans(wf, wf', o)
      BY <1>1, <2>0, <2>1, <2>2, <2>3, StepOf
    <2>5. QED
      BY <2>4 DEF Cleans, Covers
  <1>2. QED
    BY <1>1, Invariance, PTL DEF Spec, CleanedByCompletionOnly

(* A run is open exactly while its task runs, and neither a session nor an *)
(* open run is left where no agent can be at work.                         *)
THEOREM RunsFit == Spec => []RunsFitStatus
  BY RunningIsOpen, IdleIsSessionless, SettledIsQuiet, PTL DEF RunsFitStatus

(* Verdicts, the history of the runs, evidence and blocks are not undone.  *)
THEOREM NothingUndone == Spec => NothingIsUndone
  BY SettledStays, HistoryGrows, EvidenceStays, CleanedByCompletion DEF NothingIsUndone

-----------------------------------------------------------------------------
(* Blocked tasks *)

(* An operation id is used with one idempotency key.  Both come from who   *)
(* posts the request, and nothing checks that an id is new: otherwise a    *)
(* request overwrites an operation, and what only that one covered stays   *)
(* blocked.                                                                *)
OneKeyPerId ==
  \A c, d \in CommandSet : /\ c.kind = "request-restack"
                          /\ d.kind = "request-restack"
                          /\ c.operationId = d.operationId
                          => c.idempotencyKey = d.idempotencyKey

(* an operation has the key of the requests for its id *)
KeysFit ==
  \A o \in Requested(wf) : \A c \in CommandSet :
    c.kind = "request-restack" /\ c.operationId = o
      => c.idempotencyKey = wf.operations[o].idempotencyKey

BlockInv == TypeOK /\ KeysFit /\ BlockedIsCovered

(* Operation id has gone to a status and covers what it did. *)
Moved(w, operations, id, status) ==
  /\ id \in OpIds
  /\ w.operations[id] # Unset /\ operations[id] # Unset
  /\ operations[id].affectedNodeIds = w.operations[id].affectedNodeIds
  /\ operations[id].idempotencyKey = w.operations[id].idempotencyKey
  /\ operations[id].status = status
  /\ \A o \in OpIds \ {id} : operations[o] = w.operations[o]

(* It has, and the tasks it covers with it; nothing else has changed. *)
Moves(w, n, id, status, stack) ==
  /\ Moved(w, n.operations, id, status)
  /\ \A t \in Tasks : n.graph[t].stackStatus
                        = IF t \in w.operations[id].affectedNodeIds THEN stack
                          ELSE w.graph[t].stackStatus

Steps == {<<"running", "restacking">>, <<"conflict", "restack-conflict">>,
          <<"completed", "clean">>}

(* A moved operation keeps what it covers and its key. *)
LEMMA MovedIsOperation ==
  ASSUME NEW w \in Workflow, NEW id \in Requested(w), NEW status \in OperationStatuses,
         NEW operations,
         operations = [w.operations EXCEPT ![id] = MovedOperation(w.operations[id], status)]
  PROVE  Moved(w, operations, id, status)
  <1>1. /\ id \in OpIds /\ w.operations[id] # Unset
        /\ w.operations[id] \in GraphOperation
        /\ w.operations \in [OpIds -> GraphOperation \cup {Unset}]
    BY DEF Requested, Workflow
  <1>2. MovedOperation(w.operations[id], status) \in GraphOperation
    BY <1>1 DEF MovedOperation, GraphOperation
  <1>3. operations[id] = MovedOperation(w.operations[id], status)
    BY <1>1
  <1>4. operations[id] # Unset
    BY <1>2, <1>3, UnsetAssumption
  <1>5. \A o \in OpIds \ {id} : operations[o] = w.operations[o]
    BY <1>1
  <1>6. QED
    BY <1>1, <1>3, <1>4, <1>5 DEF Moved, MovedOperation

(* Starting a restack and marking its conflict move an operation ... *)
LEMMA MoveMoves ==
  ASSUME NEW w \in Workflow, NEW id \in Requested(w), NEW status \in OperationStatuses,
         NEW stack \in StackStatuses
  PROVE  Moves(w, MoveOperation(w, id, status, stack), id, status, stack)
  <1> DEFINE n == MoveOperation(w, id, status, stack)
             affected == w.operations[id].affectedNodeIds
  <1>1. /\ w.graph \in [Tasks -> TaskNode] /\ affected \in SUBSET Tasks
    BY DEF Requested, Workflow, GraphOperation
  <1>2. /\ n.graph = Restacked(w.graph, affected, stack)
        /\ n.operations = [w.operations EXCEPT ![id] = MovedOperation(w.operations[id], status)]
    BY DEF MoveOperation, NextVersion, Requested, Workflow
  <1>3. RestacksOnly(w.graph, n.graph, affected, stack)
    BY <1>1, <1>2, RestackedShape
  <1>4. \A t \in Tasks : n.graph[t].stackStatus
             = IF t \in affected THEN stack ELSE w.graph[t].stackStatus
    BY <1>3 DEF RestacksOnly
  <1> HIDE DEF n
  <1>5. Moves(w, n, id, status, stack)
    <2>1. Moved(w, n.operations, id, status)
      BY <1>2, MovedIsOperation
    <2>2. QED
      BY <1>4, <2>1 DEF Moves
  <1>6. QED
    BY <1>5 DEF n

(* ... and so does its completion. *)
LEMMA CompletionMoves ==
  ASSUME NEW w \in Workflow, NEW id \in Requested(w), NEW arts \in [Tasks -> SUBSET Artifacts]
  PROVE  Moves(w, CompleteRestack(w, id, arts), id, "completed", "clean")
  <1> DEFINE n == CompleteRestack(w, id, arts)
  <1>1. id \in OpIds
    BY DEF Requested
  <1>2. /\ \A t \in Tasks : n.graph[t].stackStatus
              = IF t \in w.operations[id].affectedNodeIds THEN "clean"
                ELSE w.graph[t].stackStatus
        /\ n.operations = [w.operations EXCEPT ![id] = MovedOperation(w.operations[id], "completed")]
    BY <1>1, CompleteShape DEF Workflow
  <1>3. "completed" \in OperationStatuses
    BY DEF OperationStatuses
  <1> HIDE DEF n
  <1>4. Moves(w, n, id, "completed", "clean")
    <2>1. Moved(w, n.operations, id, "completed")
      BY <1>2, <1>3, MovedIsOperation
    <2>2. QED
      BY <1>2, <2>1 DEF Moves
  <1>5. QED
    BY <1>4 DEF n

(* What the covering of the tasks is about. *)
LEMMA CommandMoves ==
  ASSUME NEW w \in Workflow, NEW c \in Command, Outcome(w, c) = "ok", NEW n, n = Apply(w, c)
  PROVE  \/ /\ n.operations = w.operations
            /\ \A t \in Tasks : n.graph[t].stackStatus = w.graph[t].stackStatus
         \/ \E step \in Steps : \E id \in OpIds : Moves(w, n, id, step[1], step[2])
         \/ /\ c.kind = "request-restack"
            /\ n = RequestRestack(w, c.operationId, c.ancestorId, c.idempotencyKey)
  <1>1. CASE c.kind = "transition-task"
    <2>1. c.transition \in TransitionCommand /\ n = TransitionTask(w, c.transition)
      BY <1>1 DEF Command, Apply
    <2>2. /\ n.operations = w.operations
          /\ n.graph = [t \in Tasks |-> IF t = c.transition.taskId
                                        THEN UpdateTask(w.graph[t], c.transition)
                                        ELSE w.graph[t]]
      <3>1. /\ TransitionTask(w, c.transition).operations = w.operations
            /\ TransitionTask(w, c.transition).graph =
                 [t \in Tasks |-> IF t = c.transition.taskId
                                 THEN UpdateTask(w.graph[t], c.transition)
                                 ELSE w.graph[t]]
        BY <2>1, TransitionShape, Zenon
      <3>2. QED
        BY <2>1, <3>1
    <2>3. \A t \in Tasks : UpdateTask(w.graph[t], c.transition).stackStatus
                             = w.graph[t].stackStatus
      BY UpdateTaskShape
    <2>4. QED
      BY <2>2, <2>3
  <1>2. CASE c.kind = "request-restack"
    BY <1>2 DEF Apply
  <1>3. ASSUME c.kind # "transition-task", c.kind # "request-restack"
        PROVE  c.operationId \in Requested(w) /\ c.operationId \in OpIds
    BY <1>3 DEF Command, Outcome, OperationOutcome, Requested
  <1>4. CASE c.kind = "start-restack"
    <2>1. n = MoveOperation(w, c.operationId, "running", "restacking")
      BY <1>4 DEF Apply, StartRestack
    <2>2. "running" \in OperationStatuses /\ "restacking" \in StackStatuses
      BY DEF OperationStatuses, StackStatuses
    <2>3. Moves(w, n, c.operationId, "running", "restacking")
      BY <1>3, <1>4, <2>1, <2>2, MoveMoves
    <2>4. QED
      BY <1>3, <1>4, <2>3 DEF Steps
  <1>5. CASE c.kind = "mark-restack-conflict"
    <2>1. n = MoveOperation(w, c.operationId, "conflict", "restack-conflict")
      BY <1>5 DEF Apply, MarkRestackConflict
    <2>2. "conflict" \in OperationStatuses /\ "restack-conflict" \in StackStatuses
      BY DEF OperationStatuses, StackStatuses
    <2>3. Moves(w, n, c.operationId, "conflict", "restack-conflict")
      BY <1>3, <1>5, <2>1, <2>2, MoveMoves
    <2>4. QED
      BY <1>3, <1>5, <2>3 DEF Steps
  <1>6. CASE c.kind = "complete-restack"
    <2>1. /\ n = CompleteRestack(w, c.operationId, c.artifactsByTaskId)
          /\ c.artifactsByTaskId \in [Tasks -> SUBSET Artifacts]
      BY <1>6 DEF Apply, Command
    <2>2. Moves(w, n, c.operationId, "completed", "clean")
      BY <1>3, <1>6, <2>1, CompletionMoves
    <2>3. QED
      BY <1>3, <1>6, <2>2 DEF Steps
  <1>7. QED
    BY <1>1, <1>2, <1>4, <1>5, <1>6 DEF Command

(* the stack status of a task that waits for an operation of a status *)
Waits == {<<"restack-pending", "pending">>, <<"restacking", "running">>,
          <<"restack-conflict", "conflict">>}

LEMMA CoveredIs ==
  BlockedIsCovered <=>
    \A t \in Tasks : \A wait \in Waits :
      wf.graph[t].stackStatus = wait[1] =>
        \E o \in OpIds : Covers(wf.operations[o], t) /\ wf.operations[o].status = wait[2]
  BY DEF BlockedIsCovered, Waits

(* A move takes the tasks along that its operation covers, and only those. *)
LEMMA MoveKeepsCovered ==
  ASSUME BlockInv, NEW step \in Steps, NEW id \in OpIds, Moves(wf, wf', id, step[1], step[2])
  PROVE  BlockedIsCovered'
  <1> SUFFICES ASSUME NEW t \in Tasks, NEW wait \in Waits,
                      wf'.graph[t].stackStatus = wait[1]
               PROVE  \E o \in OpIds : /\ Covers(wf'.operations[o], t)
                                       /\ wf'.operations[o].status = wait[2]
    BY DEF BlockedIsCovered, Waits
  <1>1. CASE t \in wf.operations[id].affectedNodeIds
    <2>1. wait[1] = step[2]
      BY <1>1 DEF Moves, Moved
    <2>2. wait[2] = step[1]
      BY <2>1 DEF Waits, Steps
    <2>3. QED
      BY <1>1, <2>2 DEF Moves, Moved, Covers
  <1>2. CASE t \notin wf.operations[id].affectedNodeIds
    <2>1. wf.graph[t].stackStatus = wait[1]
      BY <1>2 DEF Moves, Moved
    <2>2. PICK o \in OpIds : Covers(wf.operations[o], t) /\ wf.operations[o].status = wait[2]
      BY <2>1, CoveredIs DEF BlockInv
    <2>3. o # id
      BY <1>2, <2>2 DEF Covers
    <2>4. wf'.operations[o] = wf.operations[o]
      BY <2>3 DEF Moves, Moved
    <2>5. QED
      BY <2>2, <2>4
  <1>3. QED
    BY <1>1, <1>2

(* A request makes a new operation, as its id is not in use: one that is   *)
(* has the key of the request, which then changes nothing.                 *)
LEMMA RequestKeepsCovered ==
  ASSUME OneKeyPerId, BlockInv, NEW c \in CommandSet, c.kind = "request-restack",
         wf' = RequestRestack(wf, c.operationId, c.ancestorId, c.idempotencyKey)
  PROVE  KeysFit' /\ BlockedIsCovered'
  <1> DEFINE id == c.operationId
             key == c.idempotencyKey
  <1>0. /\ id \in OpIds /\ c.ancestorId \in Tasks /\ key \in Keys
        /\ wf \in Workflow
    BY CommandSetAssumption DEF Command, BlockInv, TypeOK
  <1>1. CASE \E o \in Requested(wf) : wf.operations[o].idempotencyKey = key
    <2>1. wf' = wf
      BY <1>1 DEF RequestRestack
    <2>2. QED
      BY <2>1 DEF BlockInv, KeysFit, BlockedIsCovered
  <1>2. CASE ~ \E o \in Requested(wf) : wf.operations[o].idempotencyKey = key
    <2> DEFINE affected == Descendants(c.ancestorId)
               op == RestackOperation(c.ancestorId, key)
    <2>1. id \notin Requested(wf)
      BY <1>2 DEF BlockInv, KeysFit
    <2>2. wf.operations[id] = Unset
      BY <1>0, <2>1 DEF Requested
    <2>3. /\ wf.graph \in [Tasks -> TaskNode] /\ affected \in SUBSET Tasks
          /\ wf.operations \in [OpIds -> GraphOperation \cup {Unset}]
          /\ "restack-pending" \in StackStatuses
      BY <1>0 DEF Workflow, Descendants, StackStatuses
    <2>4. /\ wf'.graph = Restacked(wf.graph, affected, "restack-pending")
          /\ wf'.operations = [wf.operations EXCEPT ![id] = op]
      BY <1>2 DEF RequestRestack, NextVersion
    <2>5. op \in GraphOperation
      BY <1>0, <2>3 DEF RestackOperation, GraphOperation, OperationStatuses
    <2>6. /\ op # Unset /\ op.status = "pending" /\ op.affectedNodeIds = affected
          /\ op.idempotencyKey = key
      BY <2>5, UnsetAssumption DEF RestackOperation
    <2>7. \A t \in Tasks : wf'.graph[t].stackStatus
               = IF t \in affected THEN "restack-pending" ELSE wf.graph[t].stackStatus
      <3>1. RestacksOnly(wf.graph, wf'.graph, affected, "restack-pending")
        BY <2>3, <2>4, RestackedShape
      <3>2. QED
        BY <3>1 DEF RestacksOnly
    <2>8. /\ wf'.operations[id] = op
          /\ \A o \in OpIds \ {id} : wf'.operations[o] = wf.operations[o]
      BY <1>0, <2>3, <2>4
    <2> HIDE DEF op, affected
    <2>9. KeysFit'
      <3> SUFFICES ASSUME NEW o \in OpIds, wf'.operations[o] # Unset, NEW d \in CommandSet,
                          d.kind = "request-restack", d.operationId = o
                   PROVE  d.idempotencyKey = wf'.operations[o].idempotencyKey
        BY DEF KeysFit, Requested
      <3>1. CASE o = id
        BY <3>1, <2>6, <2>8 DEF OneKeyPerId
      <3>2. CASE o # id
        BY <3>2, <2>8 DEF BlockInv, KeysFit, Requested
      <3>3. QED
        BY <3>1, <3>2
    <2>10. BlockedIsCovered'
      <3> SUFFICES ASSUME NEW t \in Tasks, NEW wait \in Waits,
                          wf'.graph[t].stackStatus = wait[1]
                   PROVE  \E o \in OpIds : /\ Covers(wf'.operations[o], t)
                                           /\ wf'.operations[o].status = wait[2]
        BY DEF BlockedIsCovered, Waits
      <3>1. CASE t \in affected
        <4>1. wait[2] = "pending"
          BY <3>1, <2>7 DEF Waits
        <4>2. QED
          BY <1>0, <3>1, <4>1, <2>6, <2>8 DEF Covers
      <3>2. CASE t \notin affected
        <4>1. wf.graph[t].stackStatus = wait[1]
          BY <3>2, <2>7
        <4>2. PICK o \in OpIds : /\ Covers(wf.operations[o], t)
                                /\ wf.operations[o].status = wait[2]
          BY <4>1, CoveredIs DEF BlockInv
        <4>3. o # id
          BY <4>2, <2>2 DEF Covers
        <4>4. QED
          BY <4>2, <4>3, <2>8
      <3>3. QED
        BY <3>1, <3>2
    <2>11. QED
      BY <2>9, <2>10
  <1>3. QED
    BY <1>1, <1>2

(* Overlapping restacks leave no task blocked with nobody working on it.   *)
(* A task is taken along by every operation that covers it, so the last    *)
(* one to have moved it is where its stack status says.                    *)
THEOREM BlocksAreCovered == ASSUME OneKeyPerId PROVE Spec => []BlockedIsCovered
  <1>1. Init => KeysFit /\ BlockedIsCovered
    BY DEF Init, NewWorkflow, NewTask, KeysFit, Requested, BlockedIsCovered
  <1>2. ASSUME TypeOK, KeysFit, BlockedIsCovered, [Next]_wf
        PROVE  KeysFit' /\ BlockedIsCovered'
    <2>0. BlockInv /\ wf \in Workflow
      BY <1>2 DEF BlockInv, TypeOK
    <2>1. CASE wf' = wf
      BY <1>2, <2>1 DEF KeysFit, BlockedIsCovered
    <2>2. ASSUME NEW c \in CommandSet, Execute(c)
          PROVE  KeysFit' /\ BlockedIsCovered'
      <3>1. c \in Command /\ Outcome(wf, c) = "ok" /\ wf' = Apply(wf, c)
        BY <2>2, CommandSetAssumption DEF Execute
      <3>2. CASE /\ wf'.operations = wf.operations
                 /\ \A t \in Tasks : wf'.graph[t].stackStatus = wf.graph[t].stackStatus
        BY <1>2, <3>2 DEF KeysFit, Requested, BlockedIsCovered
      <3>3. ASSUME NEW step \in Steps, NEW id \in OpIds,
                   Moves(wf, wf', id, step[1], step[2])
            PROVE  KeysFit' /\ BlockedIsCovered'
        <4>1. BlockedIsCovered'
          BY <2>0, <3>3, MoveKeepsCovered
        <4>2. \A o \in OpIds : wf'.operations[o] # Unset
                => /\ wf.operations[o] # Unset
                   /\ wf'.operations[o].idempotencyKey = wf.operations[o].idempotencyKey
          BY <3>3 DEF Moves, Moved
        <4>3. KeysFit'
          BY <1>2, <4>2 DEF KeysFit, Requested
        <4>4. QED
          BY <4>1, <4>3
      <3>4. CASE /\ c.kind = "request-restack"
                 /\ wf' = RequestRestack(wf, c.operationId, c.ancestorId, c.idempotencyKey)
        BY <2>0, <3>4, RequestKeepsCovered
      <3>5. QED
        BY <2>0, <3>1, <3>2, <3>3, <3>4, CommandMoves
    <2>3. Next => \E c \in CommandSet : Execute(c)
      BY StepExecutes
    <2>4. QED
      BY <1>2, <2>1, <2>2, <2>3
  <1>3. QED
    BY <1>1, <1>2, TypeCorrect, PTL DEF Spec

-----------------------------------------------------------------------------
(* What clients are told *)

(* Every order of a finite set lists it. *)
LEMMA OrdersList ==
  ASSUME NEW S, IsFiniteSet(S), NEW f \in SetToSeqs(S)
  PROVE  Len(f) \in Nat /\ Lists(f, S)
  <1>1. /\ f \in [1 .. Cardinality(S) -> S]
        /\ \A a, b \in 1 .. Cardinality(S) : a # b => f[a] # f[b]
    BY DEF SetToSeqs
  <1>2. f \in Seq(S) /\ Lists(f, S)
    BY <1>1, InjectionLists
  <1>3. QED
    BY <1>2

(* In whatever order a browser applies the events of a save to a copy of   *)
(* the workflow before it, it has the copy after it: every change of a     *)
(* command is one the events tell.                                         *)
THEOREM EventsTellAll == Spec => EventsTellEveryChange
  <1>1. ASSUME IInv, [Next]_wf
        PROVE  [LET old == ClientCopy(wf)
                IN  \A events \in SetToSeqs(DeriveEvents(wf, wf')) :
                      Shown(old, Reduced(old, events)) = Shown(old, ClientCopy(wf'))]_wf
    <2> SUFFICES ASSUME wf' # wf
                 PROVE  LET old == ClientCopy(wf)
                        IN  \A events \in SetToSeqs(DeriveEvents(wf, wf')) :
                              Shown(old, Reduced(old, events)) = Shown(old, ClientCopy(wf'))
      OBVIOUS
    <2>1. PICK c \in CommandSet : Execute(c)
      BY <1>1, StepExecutes
    <2>2. c \in Command /\ Outcome(wf, c) = "ok" /\ wf' = Apply(wf, c)
      BY <2>1, CommandSetAssumption DEF Execute
    <2>3. Tellable(wf, wf') /\ wf \in Workflow /\ wf' \in Workflow
      BY <1>1, <2>2, ApplyTellable DEF IInv, WorkflowInv, Tellable
    <2> DEFINE old == ClientCopy(wf)
    <2>4. /\ Fits(old, wf)
          /\ \A o \in OpIds : old.operations[o] = OperationStatus(wf.operations[o])
      BY <2>3, SnapshotFits
    <2> HIDE DEF old
    <2>5. ASSUME NEW events \in SetToSeqs(DeriveEvents(wf, wf'))
          PROVE  Shown(old, Reduced(old, events)) = Shown(old, ClientCopy(wf'))
      <3>1. Len(events) \in Nat /\ Lists(events, DeriveEvents(wf, wf'))
        BY <2>3, EventsAreFinite, OrdersList
      <3>2. /\ Fits(Reduced(old, events), wf')
            /\ \A o \in OpIds :
                 old.operations[o] # Unset =>
                   Reduced(old, events).operations[o] = OperationStatus(wf'.operations[o])
        BY <2>3, <2>4, <3>1, EventsTell
      <3>3. QED
        BY <2>3, <3>2, FittingShows
    <2>6. QED
      BY <2>5 DEF old
  <1>2. QED
    BY <1>1, Invariance, PTL DEF Spec, EventsTellEveryChange
=============================================================================
