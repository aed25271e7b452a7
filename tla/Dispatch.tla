------------------------------ MODULE Dispatch ------------------------------
(***************************************************************************)
(* How the tasks of a workflow get their agents: the scheduler             *)
(* (application/scheduler-service.ts) starts the pending ones through      *)
(* RetryTaskService and ContinueTaskService, an operator starts others by  *)
(* hand, the babysitter of the pull requests sends a task back to its      *)
(* agent when its checks have failed, a RunOrchestrator watches each run,  *)
(* the recovery scan (recovery-service.ts, boot.ts) takes back what died,  *)
(* and the engine may die and boot again at any moment while the agents,   *)
(* which are processes of a terminal server, live on.                      *)
(*                                                                         *)
(* A command is one step here: that it is so for the stored workflow is    *)
(* what WorkflowStore shows.  A version conflict, a failing git or         *)
(* terminal command (stopping a session too), a failing read or write of   *)
(* the database or of a log and a listener that throws are faults, and     *)
(* MaxFaults bounds them.  Cleaning a worktree up succeeds.  An agent has  *)
(* ended when its orchestrator reads the final frame.  Operators retry,    *)
(* continue and cancel; the transitions that POST /commands also takes are *)
(* AtomicWorkflow's.                                                       *)
(***************************************************************************)
EXTENDS Planners

CONSTANTS GraphOrder,      \* the tasks in the order of workflow.graph
          Passes,          \* the dispatchPending calls that may overlap
          OperatorPlans,   \* what an operator may ask for: "retry", "continue"
          DeliveryKinds,   \* the transitions that the services which deliver
                           \* finished work make, as they are configured
          MaxKicks,        \* unread task events told apart (a bound)
          MaxFaults,       \* steps that fail (a bound)
          MaxCrashes,      \* crashes of the engine (a bound)
          MaxCalls         \* requests of operators (a bound)

Attempts == Tasks \X {"scheduler", "operator", "babysitter"}
TaskOf(a) == a[1]
ByScheduler(a) == a[2] = "scheduler"

(* a retry or continue call: before it has read the task, and after *)
AttemptState ==
  [at: {"get"}, plan: {"retry", "continue"}]
  \cup [at: {"ready", "create", "start", "mark", "stop", "cleanup"},
        ref: Refs \cup {Unset}, session: Sessions \cup {Unset}]

ASSUME DispatchAssumption ==
  /\ IsOrder(GraphOrder)
  /\ OperatorPlans \subseteq {"retry", "continue"}
  /\ DeliveryKinds \subseteq
       {"start-quality-gate", "complete-quality-gate", "start-finalization",
        "open-review", "complete-without-pr", "merge-task", "merge-conflict"}
  /\ {"pr", "conflict"} \subseteq Artifacts
  /\ Unset \notin AttemptState
  /\ {MaxKicks, MaxFaults, MaxCrashes, MaxCalls} \subseteq Nat

VARIABLES wf,         \* the stored workflow
          recovered,  \* the idempotency records of recovery
          aged,       \* tasks that waited at the last scan already
          agent,      \* agent[s]: the state of session s
          owner,      \* owner[s]: the task the session was started for
          worktrees,  \* the tasks that have a worktree
          abandoned,  \* the agents let go of while they worked: their
                      \* orchestrator threw, or what should stop them failed
          engine,     \* "booting", then "up", or "unattached": no scheduler
          kicks,      \* task events the scheduler has not read yet
          pass,       \* pass[i]: the tasks a dispatchPending call has still to do
          inFlight,   \* SchedulerService.inFlight
          failures,   \* the tasks SchedulerService.failures has an entry of
          backedOff,  \* the tasks whose backoff has not run out
          attempt,    \* attempt[t, o]: the retry or continue call in progress
          watch,      \* watch[s]: what the orchestrator of session s does
          scan,       \* the recovery scan in progress
          faults, crashes, calls    \* what happened so far of what is bounded

store     == <<wf, kicks, aged>>
host      == <<agent, owner, worktrees, abandoned>>
scheduler == <<pass, inFlight, failures, backedOff>>
budget    == <<faults, crashes, calls>>
vars == <<store, recovered, host, engine, scheduler, attempt, watch, scan, budget>>

IdleScan == [at |-> "idle"]

Init ==
  /\ wf = NewWorkflow
  /\ recovered = {}
  /\ aged = {}
  /\ agent = [s \in Sessions |-> "unused"]
  /\ owner = [s \in Sessions |-> Unset]
  /\ worktrees = {}
  /\ abandoned = {}
  /\ engine = "up"
  /\ kicks = 1      \* attach dispatches at once
  /\ pass = [i \in Passes |-> {}]
  /\ inFlight = {}
  /\ failures = {}
  /\ backedOff = {}
  /\ attempt = [a \in Attempts |-> Unset]
  /\ watch = [s \in Sessions |-> "off"]
  /\ scan = IdleScan
  /\ faults = 0 /\ crashes = 0 /\ calls = 0
-----------------------------------------------------------------------------
(* Commands *)

Cmd(kind, t) ==
  [kind |-> kind, taskId |-> t, expectedVersion |-> Unset,
   expectedSessionId |-> Unset, sessionId |-> Unset,
   providerSessionRef |-> Unset, artifacts |-> {}, passed |-> TRUE]

Accepts(c) == TransitionOutcome(wf, c) = "ok"

(* the save tells the scheduler of the task events, if it is attached *)
Store(c) ==
  /\ wf' = TransitionTask(wf, c)
  /\ kicks' = IF engine = "up" /\ kicks < MaxKicks /\ TaskEvents(wf, wf') # {}
              THEN kicks + 1 ELSE kicks
  /\ aged' = aged \ {c.taskId}

Fault == faults < MaxFaults /\ faults' = faults + 1 /\ UNCHANGED <<crashes, calls>>
-----------------------------------------------------------------------------
(* SchedulerService.dispatchPending *)

(* the first task of a plan *)
FirstOf(plan) == CHOOSE t \in plan : \A u \in plan : ~Precedes(DispatchOrder, u, t)

(* what is left of a plan when the tasks in flight or backed off before    *)
(* the first that is neither are passed over                               *)
Remaining(plan, flying) ==
  {t \in plan : \E u \in plan \ (flying \cup backedOff) :
                  ~Precedes(DispatchOrder, t, u)}

(* the loop goes on to its next candidate and claims it before the re-read *)
GoOn(i, plan, flying) ==
  LET rest == Remaining(plan, flying)
  IN  /\ pass' = [pass EXCEPT ![i] = rest]
      /\ inFlight' = IF rest = {} THEN flying ELSE flying \cup {FirstOf(rest)}

StartPass(i) ==
  /\ engine = "up"
  /\ kicks > 0
  /\ pass[i] = {}
  /\ kicks' = kicks - 1
  /\ GoOn(i, PlanDispatch(wf), inFlight)
  /\ IF wf.status = "active" THEN UNCHANGED <<failures, backedOff>>
     ELSE failures' = {} /\ backedOff' = {}
  /\ UNCHANGED <<wf, aged, recovered, host, engine, attempt, watch, scan, budget>>

Plan(t) == IF PriorSessionRef(wf.graph[t]) # Unset THEN "continue" ELSE "retry"

Begin(a, plan) ==
  attempt' = [attempt EXCEPT ![a] = [at |-> "get", plan |-> plan]]

(* the re-read: a task that is still pending is dispatched *)
StepPass(i) ==
  LET t == FirstOf(pass[i])
  IN  /\ pass[i] # {}
      /\ IF wf.graph[t].executionStatus = "pending"
         THEN /\ Begin(<<t, "scheduler">>, Plan(t))
              /\ GoOn(i, pass[i] \ {t}, inFlight)
         ELSE /\ UNCHANGED attempt
              /\ GoOn(i, pass[i] \ {t}, inFlight \ {t})
      /\ UNCHANGED <<store, recovered, host, engine, failures, backedOff, watch,
                     scan, budget>>

(* the re-read throws: the task is released and the loop goes on *)
FailPass(i) ==
  /\ pass[i] # {}
  /\ Fault
  /\ GoOn(i, pass[i] \ {FirstOf(pass[i])}, inFlight \ {FirstOf(pass[i])})
  /\ UNCHANGED <<store, recovered, host, engine, failures, backedOff, attempt,
                 watch, scan>>

BackoffExpires(t) ==
  /\ t \in backedOff
  /\ backedOff' = backedOff \ {t}
  /\ UNCHANGED <<store, recovered, host, engine, pass, inFlight, failures, attempt,
                 watch, scan, budget>>
-----------------------------------------------------------------------------
(* RetryTaskService.run and ContinueTaskService.run, called by the         *)
(* scheduler or through POST /commands                                     *)

AskFor(t, plan) ==
  /\ engine # "booting"
  /\ attempt[t, "operator"] = Unset
  /\ calls < MaxCalls
  /\ calls' = calls + 1
  /\ Begin(<<t, "operator">>, plan)
  /\ UNCHANGED <<store, recovered, host, engine, scheduler, watch, scan, faults,
                 crashes>>

Startable(task, plan) ==
  /\ task.stackStatus = "clean"
  /\ IF plan = "retry"
     THEN task.executionStatus \in {"pending", "needs-review"}
     ELSE /\ task.executionStatus \in {"pending", "needs-review", "pr-open"}
          /\ PriorSessionRef(task) # Unset

At(a, step) == attempt[a] # Unset /\ attempt[a].at = step
MoveTo(a, step) == attempt' = [attempt EXCEPT ![a].at = step]

(* a slip: a task stays claimed when its dispatch has succeeded *)
SucceedKeepsClaim(a) ==
  /\ attempt' = [attempt EXCEPT ![a] = Unset]
  /\ UNCHANGED <<pass, backedOff, inFlight>>
  /\ failures' = failures \ {TaskOf(a)}

Succeed(a) ==
  /\ attempt' = [attempt EXCEPT ![a] = Unset]
  /\ UNCHANGED <<pass, backedOff>>
  /\ IF ByScheduler(a)
     THEN /\ failures' = failures \ {TaskOf(a)}
          /\ inFlight' = inFlight \ {TaskOf(a)}
     ELSE UNCHANGED <<failures, inFlight>>

(* recordDispatchFailure: a failure that follows another may be the same   *)
(* one (the same message) and then starts a backoff                        *)
Fail(a) ==
  LET t == TaskOf(a)
  IN  /\ attempt' = [attempt EXCEPT ![a] = Unset]
      /\ UNCHANGED pass
      /\ IF ByScheduler(a)
         THEN /\ failures' = failures \cup {t}
              /\ \/ backedOff' = backedOff \ {t}
                 \/ t \in failures /\ backedOff' = backedOff \cup {t}
              /\ inFlight' = inFlight \ {t}
         ELSE UNCHANGED <<failures, backedOff, inFlight>>

Get(a) ==
  LET task == wf.graph[TaskOf(a)]
  IN  /\ At(a, "get")
      /\ IF Startable(task, attempt[a].plan)
         THEN /\ attempt' = [attempt EXCEPT ![a] =
                   [at |-> IF task.executionStatus = "pending" THEN "ready"
                           ELSE "create",
                    ref |-> IF attempt[a].plan = "continue"
                            THEN PriorSessionRef(task) ELSE Unset,
                    session |-> Unset]]
              /\ UNCHANGED scheduler
         ELSE Fail(a)
      /\ UNCHANGED <<store, recovered, host, engine, watch, scan, budget>>

Ready(a) ==
  LET c == Cmd("mark-ready", TaskOf(a))
  IN  /\ At(a, "ready")
      /\ IF Accepts(c)
         THEN Store(c) /\ MoveTo(a, "create") /\ UNCHANGED scheduler
         ELSE Fail(a) /\ UNCHANGED store
      /\ UNCHANGED <<recovered, host, engine, watch, scan, budget>>

(* retry resets an existing worktree, continue keeps it *)
Create(a) ==
  /\ At(a, "create")
  /\ worktrees' = worktrees \cup {TaskOf(a)}
  /\ MoveTo(a, "start")
  /\ UNCHANGED <<store, recovered, agent, owner, abandoned, engine, scheduler, watch,
                 scan, budget>>

Unused == {s \in Sessions : agent[s] = "unused"}

(* a session id is a new one; which one it is makes no difference *)
Start(a) ==
  /\ At(a, "start")
  /\ Unused # {}
  /\ LET s == CHOOSE s \in Unused : TRUE
     IN  /\ agent' = [agent EXCEPT ![s] = "live"]
         /\ owner' = [owner EXCEPT ![s] = TaskOf(a)]
         /\ attempt' = [attempt EXCEPT ![a].at = "mark", ![a].session = s]
  /\ UNCHANGED <<store, recovered, worktrees, abandoned, engine, scheduler, watch, scan,
                 budget>>

(* a slip: the session of a run that was not recorded is left alone *)
MarkKeepsSession(a) ==
  LET s == attempt[a].session
      c == [Cmd("mark-running", TaskOf(a))
              EXCEPT !.sessionId = s, !.providerSessionRef = attempt[a].ref]
  IN  /\ At(a, "mark")
      /\ IF Accepts(c)
         THEN /\ Store(c)
              /\ watch' = [watch EXCEPT ![s] = "attached"]
              /\ Succeed(a)
         ELSE MoveTo(a, "cleanup") /\ UNCHANGED <<store, watch, scheduler>>
      /\ UNCHANGED <<recovered, host, engine, scan, budget>>

(* the run is recorded and its orchestrator spawned, or all is undone *)
Mark(a) ==
  LET s == attempt[a].session
      c == [Cmd("mark-running", TaskOf(a))
              EXCEPT !.sessionId = s, !.providerSessionRef = attempt[a].ref]
  IN  /\ At(a, "mark")
      /\ IF Accepts(c)
         THEN /\ Store(c)
              /\ watch' = [watch EXCEPT ![s] = "attached"]
              /\ Succeed(a)
         ELSE MoveTo(a, "stop") /\ UNCHANGED <<store, watch, scheduler>>
      /\ UNCHANGED <<recovered, host, engine, scan, budget>>

(* the session of s is stopped, or that fails and its agent works on *)
StopSession(s) ==
  \/ /\ agent' = [agent EXCEPT ![s] = "missing"]
     /\ UNCHANGED <<abandoned, budget>>
  \/ /\ Fault
     /\ abandoned' = abandoned \cup {s}
     /\ UNCHANGED agent

(* the error of a stop is dropped *)
Stop(a) ==
  /\ At(a, "stop")
  /\ StopSession(attempt[a].session)
  /\ MoveTo(a, "cleanup")
  /\ UNCHANGED <<store, recovered, owner, worktrees, engine, scheduler, watch, scan>>

Cleanup(a) ==
  /\ At(a, "cleanup")
  /\ worktrees' = worktrees \ {TaskOf(a)}
  /\ Fail(a)
  /\ UNCHANGED <<store, recovered, agent, owner, abandoned, engine, watch, scan, budget>>

(* mark-ready, create, prepare or start throws; mark-running meets a       *)
(* version conflict.  Running out of Sessions is a failing start.          *)
AttemptFails(a) ==
  /\ \/ /\ At(a, "ready") \/ At(a, "create")
        /\ Fault
        /\ Fail(a)
     \/ /\ At(a, "start")
        /\ IF Unused = {} THEN UNCHANGED budget ELSE Fault
        /\ MoveTo(a, "cleanup")
        /\ UNCHANGED scheduler
     \/ /\ At(a, "mark")
        /\ Fault
        /\ MoveTo(a, "stop")
        /\ UNCHANGED scheduler
  /\ UNCHANGED <<store, recovered, host, engine, watch, scan>>

AttemptStep(a) ==
  \/ Get(a) \/ Ready(a) \/ Create(a) \/ Start(a) \/ Mark(a) \/ Stop(a)
  \/ Cleanup(a)
  \/ At(a, "start") /\ Unused = {} /\ AttemptFails(a)
-----------------------------------------------------------------------------
(* The agents and RunOrchestrator.run *)

AgentEnds(s) ==
  /\ agent[s] = "live"
  /\ agent' = [agent EXCEPT ![s] = "dead"]
  /\ UNCHANGED <<store, recovered, owner, worktrees, abandoned, engine, scheduler, attempt,
                 watch, scan, budget>>

OwnCmd(kind, s) == [Cmd(kind, owner[s]) EXCEPT !.expectedSessionId = s]

(* the final frame names what the provider can resume *)
KeepSessionRef(s) ==
  LET c(ref) == [OwnCmd("update-run", s) EXCEPT !.providerSessionRef = ref]
  IN  /\ watch[s] = "attached"
      /\ agent[s] = "dead"
      /\ \E ref \in Refs :
           IF Accepts(c(ref))
           THEN Store(c(ref)) /\ watch' = [watch EXCEPT ![s] = "ending"]
           ELSE UNCHANGED store /\ watch' = [watch EXCEPT ![s] = "off"]
      /\ UNCHANGED <<recovered, host, engine, scheduler, attempt, scan, budget>>

(* the run has completed, was interrupted or is to be run again; an error  *)
(* ends the orchestrator and leaves the task to the recovery scan          *)
EndRun(s, kind) ==
  /\ watch[s] \in {"attached", "ending"}
  /\ agent[s] \in {"dead", "missing"}
  /\ IF Accepts(OwnCmd(kind, s))
     THEN /\ Store(OwnCmd(kind, s))
          /\ watch' = [watch EXCEPT
               ![s] = IF kind = "mark-interrupted" THEN "cleanup" ELSE "off"]
     ELSE UNCHANGED store /\ watch' = [watch EXCEPT ![s] = "off"]
  /\ UNCHANGED <<recovered, host, engine, scheduler, attempt, scan, budget>>

CleanupRun(s) ==
  /\ watch[s] = "cleanup"
  /\ worktrees' = worktrees \ {owner[s]}
  /\ watch' = [watch EXCEPT ![s] = "off"]
  /\ UNCHANGED <<store, recovered, agent, owner, abandoned, engine, scheduler, attempt,
                 scan, budget>>

(* Storing what the agent says, telling it to the listeners or reading its *)
(* log throws: the run is interrupted, and the agent is not stopped.  The  *)
(* command that interrupts may fail with it.                               *)
OrchestratorThrows(s) ==
  LET c == OwnCmd("mark-interrupted", s)
  IN  /\ watch[s] = "attached"
      /\ agent[s] = "live"
      /\ Fault
      /\ \/ Accepts(c) /\ Store(c) /\ watch' = [watch EXCEPT ![s] = "cleanup"]
         \/ UNCHANGED store /\ watch' = [watch EXCEPT ![s] = "off"]
      /\ abandoned' = abandoned \cup {s}
      /\ UNCHANGED <<recovered, agent, owner, worktrees, engine, scheduler, attempt, scan>>

(* what it would end the run with fails: the scan is left to do it *)
EndFails(s) ==
  /\ watch[s] \in {"attached", "ending", "timed-out"}
  /\ watch[s] = "attached" => agent[s] \in {"dead", "missing"}
  /\ Fault
  /\ watch' = [watch EXCEPT ![s] = "off"]
  /\ UNCHANGED <<store, recovered, host, engine, scheduler, attempt, scan>>

(* attach stops a session that has been silent for too long, drops the     *)
(* error of the stop and throws                                            *)
IdleTimeout(s) ==
  /\ watch[s] = "attached"
  /\ agent[s] = "live"
  /\ StopSession(s)
  /\ watch' = [watch EXCEPT ![s] = "timed-out"]
  /\ UNCHANGED <<store, recovered, owner, worktrees, engine, scheduler, attempt, scan>>

RecoverTimedOut(s) ==
  /\ watch[s] = "timed-out"
  /\ IF Accepts(OwnCmd("recover-task", s)) THEN Store(OwnCmd("recover-task", s))
     ELSE UNCHANGED store
  /\ watch' = [watch EXCEPT ![s] = "off"]
  /\ UNCHANGED <<recovered, host, engine, scheduler, attempt, scan, budget>>

Ends == {"complete-runtime", "recover-task", "mark-interrupted"}

Orchestrate(s) ==
  \/ KeepSessionRef(s)
  \/ \E kind \in Ends : EndRun(s, kind)
  \/ CleanupRun(s)
  \/ RecoverTimedOut(s)
-----------------------------------------------------------------------------
(* Boot and periodic recovery: runBootRecovery and RecoveryService.scan *)

Named == {wf.graph[t].sessionId : t \in Tasks} \ {Unset}

(* what the scan takes for stale when it lasts: a ready task without a     *)
(* session, and a gate                                                     *)
WaitingTasks ==
  {t \in Tasks : \/ /\ wf.graph[t].executionStatus = "ready"
                    /\ wf.graph[t].sessionId = Unset
                 \/ wf.graph[t].executionStatus \in {"quality-pending", "ci-pending"}}

(* listRecoverable, and the probe of every session a task names *)
Probe ==
  /\ scan = IdleScan
  /\ wf.status # "completed"
  /\ scan' = [at |-> "probed", probes |-> [s \in Named |-> agent[s]],
              cancelled |-> wf.status = "cancelled"]
  /\ UNCHANGED <<store, recovered, host, engine, scheduler, attempt, watch, budget>>

(* the end of boot: an orchestrator for every live run that is still       *)
(* running, then the scheduler attaches                                    *)
Boot(respawned) ==
  IF engine # "booting" THEN UNCHANGED <<engine, kicks, watch>>
  ELSE /\ engine' = "up"
       /\ kicks' = 1
       /\ watch' = [s \in Sessions |-> IF s \in respawned THEN "attached" ELSE watch[s]]

(* listRecoverable leaves a completed workflow out: it is not scanned and  *)
(* the scheduler is not attached to it, for this life of the engine        *)
NothingToRecover ==
  /\ engine = "booting"
  /\ scan = IdleScan
  /\ wf.status = "completed"
  /\ engine' = "unattached"
  /\ UNCHANGED <<store, recovered, host, scheduler, attempt, watch, scan, budget>>

(* get and planRecovery: a task that waited at the last scan is stale now, *)
(* any other that waits may be                                             *)
PlanScan ==
  /\ scan.at = "probed"
  /\ \E stale \in SUBSET WaitingTasks :
       /\ aged \cap WaitingTasks \subseteq stale
       /\ scan' = [at |-> "acting", probes |-> scan.probes,
                   todo |-> PlanRecovery(wf, scan.probes, scan.cancelled, stale)]
  /\ aged' = WaitingTasks
  /\ UNCHANGED <<wf, kicks, recovered, host, engine, scheduler, attempt, watch, budget>>

(* an error other than session_mismatch ends the scan of the workflow, and *)
(* at boot its live runs stay without an orchestrator                      *)
AbortScan == scan' = IdleScan /\ Boot({})

NextAction ==
  CHOOSE x \in scan.todo :
    \A y \in scan.todo : ~Precedes(GraphOrder, y.taskId, x.taskId)

ActOn(action) ==
  LET c == RecoveryCommand(action)
      done == scan' = [scan EXCEPT !.todo = @ \ {action}]
      nothing == UNCHANGED <<wf, aged, recovered>>
  IN  CASE PlanKey(action) \in recovered ->
             done /\ nothing /\ UNCHANGED <<kicks, engine, watch>>
        [] PlanKey(action) \notin recovered /\ Accepts(c) ->
             /\ Store(c)
             /\ recovered' = recovered \cup {PlanKey(action)}
             /\ done
             /\ UNCHANGED <<engine, watch>>
        [] OTHER ->
             IF TransitionOutcome(wf, c) = "session_mismatch"
             THEN done /\ nothing /\ UNCHANGED <<kicks, engine, watch>>
             ELSE AbortScan /\ nothing

Stopped(action) == action.kind = "stop-runtime" /\ PlanKey(action) \notin recovered

AfterStop(action) ==
  [s \in Sessions |-> IF Stopped(action) /\ s = action.sessionId THEN "missing"
                      ELSE agent[s]]

Recover ==
  /\ scan.at = "acting"
  /\ scan.todo # {}
  /\ ActOn(NextAction)
  /\ agent' = AfterStop(NextAction)
  /\ UNCHANGED <<owner, worktrees, abandoned, scheduler, attempt, budget>>

(* a probe or a stop throws, or the command meets a version conflict *)
ScanFails ==
  /\ \/ scan.at = "probed" /\ UNCHANGED agent
     \/ /\ scan.at = "acting" /\ scan.todo # {}
        /\ UNCHANGED agent \/ agent' = AfterStop(NextAction)
  /\ Fault
  /\ AbortScan
  /\ UNCHANGED <<wf, aged, recovered, owner, worktrees, abandoned, scheduler, attempt>>

EndScan ==
  /\ scan.at = "acting"
  /\ scan.todo = {}
  /\ scan' = IdleScan
  /\ Boot({wf.graph[t].sessionId : t \in
             {u \in Tasks : /\ wf.graph[u].executionStatus = "running"
                            /\ wf.graph[u].sessionId \in DOMAIN scan.probes
                            /\ scan.probes[wf.graph[u].sessionId] = "live"}})
  /\ UNCHANGED <<wf, aged, recovered, host, scheduler, attempt, budget>>

ScanStep == Probe \/ NothingToRecover \/ PlanScan \/ Recover \/ EndScan
-----------------------------------------------------------------------------
(* Operators, the rest of the engine, and crashes *)

Cancel(t) ==
  /\ engine # "booting"
  /\ calls < MaxCalls
  /\ calls' = calls + 1
  /\ Accepts(Cmd("cancel-task", t))
  /\ Store(Cmd("cancel-task", t))
  /\ UNCHANGED <<recovered, host, engine, scheduler, attempt, watch, scan, faults,
                 crashes>>

(* what the quality gate, the finalizers and the merge service command: to *)
(* check a finished task, to open its pull request or to merge its branch, *)
(* to merge the request, and to give up over a conflict                    *)
DeliveryArtifacts(kind) ==
  CASE kind = "complete-quality-gate" -> {"quality-report"}
    [] kind = "open-review"           -> {"pr"}
    [] kind = "merge-conflict"        -> {"conflict"}
    [] OTHER                          -> {}

Deliver(t, kind) ==
  /\ engine # "booting"
  /\ \E passed \in BOOLEAN :
       LET c == [Cmd(kind, t) EXCEPT !.artifacts = DeliveryArtifacts(kind), !.passed = passed]
       IN  Accepts(c) /\ Store(c)
  /\ UNCHANGED <<recovered, host, engine, scheduler, attempt, watch, scan, budget>>

(* the checks of a pull request have failed: CIBabysitterService reports   *)
(* them and has the agent go on, whatever works on the basis of the task   *)
(* by now                                                                  *)
Babysit(t) ==
  LET c == [Cmd("merge-conflict", t) EXCEPT !.artifacts = {"ci-report"}]
  IN  /\ engine = "up"
      /\ "pr" \in wf.graph[t].artifacts
      /\ attempt[t, "babysitter"] = Unset
      /\ Accepts(c)
      /\ Store(c)
      /\ Begin(<<t, "babysitter">>, "continue")
      /\ UNCHANGED <<recovered, host, engine, scheduler, watch, scan, budget>>

(* the engine dies and starts again; the sessions survive it, or die with  *)
(* the terminal server                                                     *)
Crash ==
  /\ crashes < MaxCrashes
  /\ crashes' = crashes + 1
  /\ engine' = "booting"
  /\ kicks' = 0
  /\ pass' = [i \in Passes |-> {}]
  /\ inFlight' = {}
  /\ failures' = {}
  /\ backedOff' = {}
  /\ attempt' = [a \in Attempts |-> Unset]
  /\ watch' = [s \in Sessions |-> "off"]
  /\ scan' = IdleScan
  /\ agent' \in {agent, [s \in Sessions |-> IF agent[s] = "live" THEN "dead" ELSE agent[s]]}
  /\ UNCHANGED <<wf, aged, recovered, owner, worktrees, abandoned, faults, calls>>

Next ==
  \/ \E i \in Passes : StartPass(i) \/ StepPass(i) \/ FailPass(i)
  \/ \E t \in Tasks : \/ BackoffExpires(t)
                      \/ \E plan \in OperatorPlans : AskFor(t, plan)
                      \/ Cancel(t)
                      \/ \E kind \in DeliveryKinds : Deliver(t, kind)
                      \/ Babysit(t)
  \/ \E a \in Attempts : AttemptStep(a) \/ AttemptFails(a)
  \/ \E s \in Sessions : \/ AgentEnds(s) \/ IdleTimeout(s) \/ Orchestrate(s)
                         \/ OrchestratorThrows(s) \/ EndFails(s)
  \/ ScanStep
  \/ ScanFails
  \/ Crash

(* The event loop runs what is ready, agents end, backoffs run out and the *)
(* scan is started again and again.                                        *)
Fairness ==
  /\ \A i \in Passes : WF_vars(StartPass(i)) /\ WF_vars(StepPass(i))
  /\ \A t \in Tasks : WF_vars(BackoffExpires(t))
  /\ \A a \in Attempts : WF_vars(AttemptStep(a))
  /\ \A s \in Sessions : WF_vars(AgentEnds(s)) /\ WF_vars(Orchestrate(s))
  /\ WF_vars(ScanStep)

Spec == Init /\ [][Next]_vars
FairSpec == Spec /\ Fairness
-----------------------------------------------------------------------------
Running(t) == wf.graph[t].executionStatus = "running"

(* A claim of the scheduler is released when what it was made for is over: *)
(* the tasks in flight are those being dispatched and those a pass is at.  *)
ClaimIsHeld ==
  inFlight = {t \in Tasks : \/ attempt[t, "scheduler"] # Unset
                            \/ \E i \in Passes : pass[i] # {} /\ FirstOf(pass[i]) = t}

(* As long as the engine has not crashed, a live agent has an orchestrator *)
(* or belongs to a call that has yet to record it or to stop it, unless    *)
(* its orchestrator threw or the stop that was meant for it failed.  For   *)
(* those two nothing takes it up again: it works on, unread, to its end.   *)
LiveAgentIsWatched ==
  \A s \in Sessions :
    agent[s] = "live" /\ crashes = 0 =>
      \/ watch[s] = "attached"
      \/ \E a \in Attempts : /\ At(a, "mark") \/ At(a, "stop")
                             /\ attempt[a].session = s
      \/ s \in abandoned

(* Whoever competes for a task, and whatever other step of an attempt, a   *)
(* pass or a scan fails, neither an agent nor a claim is left that nobody  *)
(* has.                                                                    *)
NothingIsLeaked == LiveAgentIsWatched /\ ClaimIsHeld

(* the action the scan is about to take names no session *)
UnfencedAction(t) ==
  /\ scan.at = "acting" /\ scan.todo # {}
  /\ NextAction.taskId = t
  /\ NextAction.sessionId = Unset

(* A run is over only when its agent has ended, unless an operator cancels *)
(* the task: neither the orchestrator of an older run nor a scan that acts *)
(* on an old probe takes the task from a live agent.  What may is the      *)
(* run's own orchestrator, when it throws or could not stop the agent, and *)
(* the recovery of a stale ready task, which names no session to be        *)
(* compared.                                                               *)
RunOutlastsAgent ==
  [][\A t \in Tasks :
       LET s == wf.graph[t].sessionId
       IN  /\ Running(t)
           /\ agent[s] = "live"
           /\ wf'.graph[t].executionStatus \notin {"running", "cancelled"}
           => s \in abandoned' \/ UnfencedAction(t)]_vars

(* Every run ends, through crashes, lost orchestrators and failing scans:  *)
(* a run nobody watches any more is recovered once its agent is gone.      *)
EveryRunEnds == \A t \in Tasks : Running(t) ~> ~Running(t)

(* a run of the task came to its end *)
HasWorked(t) ==
  \E i \in DOMAIN wf.graph[t].runs : wf.graph[t].runs[i].terminalReason = "completed"

(* The scheduler dispatches a task only after the tasks it depends on have *)
(* worked: however old the plan it is taken from, and whoever sent them    *)
(* back, recovered or continued them since, each of them has been through  *)
(* a run.  As long as no operator has asked for anything, so it is with    *)
(* every task that runs.  (One whose checks fail later goes back to its    *)
(* agent while its dependents work on.)                                    *)
DependentsWait ==
  \A t \in Tasks :
    attempt[t, "scheduler"] # Unset \/ (Running(t) /\ calls = 0)
      => \A d \in DependsOn[t] : HasWorked(d)

(* No wake-up of the scheduler is lost to a race: a task that is due is    *)
(* dispatched or stops being due, unless a dispatch of it has failed or a  *)
(* step of the engine did.  (A re-read that throws does lose one: the task *)
(* waits for the next event of its workflow.)                              *)
DueTaskIsTaken ==
  \A t \in Tasks :
    t \in PlanDispatch(wf) /\ engine = "up"
      ~> \/ t \notin PlanDispatch(wf)
         \/ t \in failures
         \/ faults > 0
-----------------------------------------------------------------------------
(* types.ts on Claim: the dispatcher uses claim conflicts to prevent two   *)
(* write-mode tasks from running concurrently against overlapping paths.   *)
NoOverlappingWriters ==
  \A t, u \in Tasks : {t, u} \in Overlapping /\ t # u => ~(Running(t) /\ Running(u))

(* architecture.md: recovery idempotency keys prevent double-dispatch      *)
(* after restart.  So once the engine is up again a task does not have two *)
(* agents at work.                                                         *)
NoDoubleDispatch ==
  engine # "booting" /\ crashes > 0 =>
    \A s, r \in Sessions :
      agent[s] = "live" /\ agent[r] = "live" /\ owner[s] = owner[r] => s = r

(* architecture.md: recover-task transitions stale ready tasks to pending  *)
(* or needs-review.  So no task stays ready for ever.                      *)
StaleReadyIsRecovered ==
  \A t \in Tasks :
    wf.graph[t].executionStatus = "ready" ~> wf.graph[t].executionStatus # "ready"
=============================================================================
