--------------------------- MODULE AtomicWorkflow ---------------------------
(***************************************************************************)
(* The lifecycle of one workflow when every command is atomic: the         *)
(* specification that WorkflowStore, where a command reads, computes and   *)
(* saves in separate steps, is shown to implement.                         *)
(*                                                                         *)
(* Any actor may issue any command at any time: the services of the engine *)
(* issue the ones their handlers name and POST /commands accepts them all. *)
(* So every state the engine can store is reachable here, and an invariant *)
(* of this module needs no assumption on who calls.                        *)
(***************************************************************************)
EXTENDS SnapshotReducer, SequencesExt

CONSTANTS CommandSet,   \* the commands the actors issue
          BusyVersions  \* the versions at which a command is still issued (a bound)

ASSUME CommandSetAssumption == CommandSet \subseteq Command
ASSUME TasksAssumption == Tasks # {}   \* createWorkflow rejects an empty graph
ASSUME BusyVersionsAssumption == BusyVersions \subseteq Nat

VARIABLE wf     \* the stored workflow

Init == wf = NewWorkflow

Execute(c) ==
  /\ wf.version \in BusyVersions
  /\ Outcome(wf, c) = "ok"
  /\ wf' = Apply(wf, c)

TransitionsOf == [kind \in TransitionKinds |->
                    {c \in CommandSet : /\ c.kind = "transition-task"
                                       /\ c.transition.kind = kind}]

Transition(kind) == \E c \in TransitionsOf[kind] : Execute(c)

GraphCommand(kind) == \E c \in CommandSet : c.kind = kind /\ Execute(c)

MarkReady           == Transition("mark-ready")
MarkRunning         == Transition("mark-running")
UpdateRun           == Transition("update-run")
CompleteRuntime     == Transition("complete-runtime")
StartFinalization   == Transition("start-finalization")
OpenReview          == Transition("open-review")
StartQualityGate    == Transition("start-quality-gate")
CompleteQualityGate == Transition("complete-quality-gate")
StartCIGate         == Transition("start-ci-gate")
CompleteCIGate      == Transition("complete-ci-gate")
MergeTask           == Transition("merge-task")
CompleteWithoutPR   == Transition("complete-without-pr")
MergeConflict       == Transition("merge-conflict")
CancelTask          == Transition("cancel-task")
RecoverTask         == Transition("recover-task")
MarkInterrupted     == Transition("mark-interrupted")
FailTask            == Transition("fail-task")
AskRestack          == GraphCommand("request-restack")
BeginRestack        == GraphCommand("start-restack")
FinishRestack       == GraphCommand("complete-restack")
ConflictRestack     == GraphCommand("mark-restack-conflict")

Next ==
  \/ MarkReady \/ MarkRunning \/ UpdateRun \/ CompleteRuntime
  \/ StartFinalization \/ OpenReview
  \/ StartQualityGate \/ CompleteQualityGate
  \/ StartCIGate \/ CompleteCIGate
  \/ MergeTask \/ CompleteWithoutPR \/ MergeConflict
  \/ CancelTask \/ RecoverTask \/ MarkInterrupted \/ FailTask
  \/ AskRestack \/ BeginRestack \/ FinishRestack \/ ConflictRestack

Spec == Init /\ [][Next]_wf
-----------------------------------------------------------------------------
(* The stored workflow is a Workflow of domain/types.ts. *)
TypeOK == wf \in Workflow

(* A task is running exactly while its last run is open, no earlier run is *)
(* ever open, and the session it names is the one of that run.  So         *)
(* patchOpenRun never throws, closeLatestRun never closes an older run,    *)
(* and the expectedSessionId an orchestrator sends fences its own run.     *)
RunIsOpenIffRunning ==
  \A t \in Tasks : TaskHasOneOpenRunIffRunning(wf.graph[t])

(* A task that waits to be dispatched has no session: the rules of         *)
(* recovery.ts tell a stale ready task from a live one by that alone.      *)
IdleHasNoSession ==
  \A t \in Tasks : wf.graph[t].executionStatus \in {"pending", "ready"}
                     => wf.graph[t].sessionId = Unset

(* A workflow that is not active has no open run.  listRecoverable skips   *)
(* the completed ones, so a run still open there would never be recovered. *)
SettledHasNoOpenRun ==
  wf.status # "active" => \A t \in Tasks : OpenRuns(wf.graph[t].runs) = {}

(* The stored status is always the roll-up of the stored tasks: restack    *)
(* commands, which do not recompute it, cannot make it stale.              *)
StatusIsRollup == wf.status = DeriveWorkflowStatus(wf.graph)

(* A run is open exactly while its task runs; where no agent can be at     *)
(* work there is neither a session nor an open run.                        *)
RunsFitStatus == RunIsOpenIffRunning /\ IdleHasNoSession /\ SettledHasNoOpenRun

Settled == {"merged", "failed", "cancelled"}

(* A task that is merged, failed or cancelled stays so and starts no run:  *)
(* a late answer of an orchestrator, a gate or a merge cannot revive it.   *)
SettledForGood ==
  [][\A t \in Tasks :
       wf.graph[t].executionStatus \in Settled =>
         /\ wf'.graph[t].executionStatus = wf.graph[t].executionStatus
         /\ wf'.graph[t].runs = wf.graph[t].runs]_wf

(* The run history is only extended, by one run at a time, and a run that  *)
(* has ended is never changed: transcripts and audit refer to runs by      *)
(* position.                                                               *)
HistoryIsAppendOnly ==
  [][\A t \in Tasks :
       LET old == wf.graph[t].runs
           new == wf'.graph[t].runs
       IN  /\ Len(new) \in {Len(old), Len(old) + 1}
           /\ \A i \in DOMAIN old : old[i].terminalReason # Unset
                                      => new[i] = old[i]]_wf

(* The evidence of a task only grows, and a task that has evidence is      *)
(* never thrown back to pending, from where it would be run from scratch.  *)
EvidenceIsKept ==
  [][\A t \in Tasks :
       /\ wf.graph[t].artifacts \subseteq wf'.graph[t].artifacts
       /\ /\ wf.graph[t].artifacts # {}
          /\ wf.graph[t].executionStatus # "pending"
          => wf'.graph[t].executionStatus # "pending"]_wf

Covers(op, t) == op # Unset /\ t \in op.affectedNodeIds

(* A task becomes clean, that is eligible to run, only when a restack that *)
(* covers it goes from running to completed.                               *)
CleanedByCompletionOnly ==
  [][\A t \in Tasks :
       /\ wf.graph[t].stackStatus # "clean"
       /\ wf'.graph[t].stackStatus = "clean"
       => \E o \in OpIds : /\ Covers(wf.operations[o], t)
                           /\ wf.operations[o].status = "running"
                           /\ wf'.operations[o].status = "completed"]_wf

(* What a transition has recorded no later one undoes, from whomever it    *)
(* comes and however late: not a verdict, the history of the runs, the     *)
(* evidence of a task, or the block of a task whose restack is not done.   *)
NothingIsUndone ==
  SettledForGood /\ HistoryIsAppendOnly /\ EvidenceIsKept /\ CleanedByCompletionOnly

(* The events of a save, applied by a browser in whatever order to a copy  *)
(* of the workflow before it, give the copy after it: deriveEvents tells   *)
(* of every change of the status, of the two statuses of a task, of the    *)
(* runs and of the operations the browser knows.                           *)
EventsTellEveryChange ==
  [][LET old == ClientCopy(wf)
     IN  \A events \in SetToSeqs(DeriveEvents(wf, wf')) :
           Shown(old, Reduced(old, events)) = Shown(old, ClientCopy(wf'))]_wf

(* A task that is not clean is covered by the operation that will clean it *)
(* or that ended in conflict: overlapping restacks never leave a task      *)
(* blocked with nobody working on it, as long as an operation id is used   *)
(* with one idempotency key.                                               *)
BlockedIsCovered ==
  \A t \in Tasks :
    LET stack == wf.graph[t].stackStatus
        CoveredBy(statuses) == \E o \in OpIds : /\ Covers(wf.operations[o], t)
                                                /\ wf.operations[o].status \in statuses
    IN  /\ stack = "restack-pending"  => CoveredBy({"pending"})
        /\ stack = "restacking"       => CoveredBy({"running"})
        /\ stack = "restack-conflict" => CoveredBy({"conflict"})
=============================================================================
