---------------------------- MODULE LocalDelivery ----------------------------
(***************************************************************************)
(* From an agent that has finished to work that is merged, where there is  *)
(* no GitHub: QualityGateService runs the checks of the repository on a    *)
(* completed task, LocalFinalizeService merges the branch of a task that   *)
(* passed into the branch that the user's clone has checked out.  Each     *)
(* service learns of transitions from a subscription of its own and works  *)
(* on one task at a time per key, on all tasks at once; the clone is       *)
(* shared, unguarded, and the user may check out another branch meanwhile: *)
(* what a branch is compared with, its task's merge target, need not be    *)
(* what it is merged into.                                                 *)
(*                                                                         *)
(* Data abstraction: of a task the execution status and the number of its  *)
(* runs; a branch is the set of changes in it, a change being the task and *)
(* the run that made it.  All tasks have a workspace.                      *)
(***************************************************************************)
EXTENDS Transitions

CONSTANTS Clashes,      \* the pairs {t, u} of tasks whose changes conflict
          Branches,     \* the branches of the clone, beside those of the tasks
          TargetOf,     \* of a task, mergeTarget or the default branch;
                        \* Unset is one that the clone has not got
          MaxRuns,      \* runs of one task (a bound)
          MaxCrashes,   \* restarts of the engine (a bound)
          MaxConflicts  \* version conflicts a service meets (a bound)

(* what a finalizer is about to do *)
FinalStages == {"compare", "resolve", "ff", "ffRuns", "noFf", "noFfRuns", "abort", "reset",
                "accept", "reject"}

LocalDeliveryAssumption ==
  /\ Clashes \subseteq SUBSET Tasks
  /\ TargetOf \in [Tasks -> Branches \cup {Unset}]
  /\ Unset \notin Branches
  /\ {MaxRuns, MaxCrashes, MaxConflicts} \subseteq Nat
  /\ Unset \notin [stage : FinalStages, head : SUBSET (Tasks \X Nat)]

VARIABLES status, attempts,     \* of each task
          probed,               \* the idempotency records of probed gates
          handles,              \* the tasks whose worktree is found
          gateSub, gateEvents,  \* the gate service's subscription
          gates,                \* its running checks
          finalSub, finalEvents,
          finals,               \* finals[t]: the finalizer at work on t
          branch,               \* the changes in a task's branch
          clone, checkedOut,    \* those in a branch of the clone, and its HEAD
          into,                 \* the branch that a task was merged into
          merging,              \* whose conflicted merge the clone is left in
          lock,                 \* who runs a git command in the clone
          crashes, conflicts,   \* what happened so far of what is bounded
          dropped,              \* a service has met a version conflict
          undone                \* a crash or a reset has struck the clone

tasksVars == <<status, attempts, probed, handles>>
gateVars  == <<gateSub, gateEvents, gates>>
finalVars == <<finalSub, finalEvents, finals>>
cloneVars == <<clone, checkedOut, into, merging, lock, undone>>
gitVars   == <<branch, cloneVars>>
budget    == <<crashes, conflicts, dropped>>
vars == <<tasksVars, gateVars, finalVars, gitVars, budget>>

(* an engine that has just come up, or that runs, where tasks stand thus *)
InitWith(statuses, branches, subscriptions) ==
  /\ status = statuses
  /\ attempts = [t \in Tasks |-> 1]
  /\ probed = {}
  /\ handles \in {Tasks, {}}
  /\ gateSub = subscriptions /\ gateEvents = << >> /\ gates = {}
  /\ finalSub = subscriptions /\ finalEvents = << >> /\ finals = [t \in Tasks |-> Unset]
  /\ branch = branches /\ clone = [b \in Branches |-> {}]
  /\ checkedOut \in Branches /\ into = [t \in Tasks |-> Unset]
  /\ merging = Unset /\ lock = Unset /\ undone = FALSE
  /\ crashes = 0 /\ conflicts = 0 /\ dropped = FALSE

Init == InitWith([t \in Tasks |-> "running"], [t \in Tasks |-> {}], "on")
-----------------------------------------------------------------------------
(* a transition and the event of it, which every subscriber is sent; the   *)
(* events a service passes over are left out of its queue                  *)
Accepts(t, kind) == status[t] \in From(kind)

LeavesGate(event) ==
  \/ event.from = "completed" /\ event.to \notin {"completed", "quality-pending"}
  \/ event.from = "quality-pending" /\ event.to # "quality-pending"

Told(subscription, events, event, heeded) ==
  IF subscription # "off" /\ heeded THEN Append(events, event) ELSE events

Transit(t, kind, passed) ==
  LET to == Target([executionStatus |-> status[t], artifacts |-> {}],
                   [kind |-> kind, passed |-> passed])
      event == [task |-> t, from |-> status[t], to |-> to]
  IN  /\ status' = [status EXCEPT ![t] = to]
      /\ gateEvents' = Told(gateSub, gateEvents, event,
                            event.to = "completed" \/ LeavesGate(event))
      /\ finalEvents' = Told(finalSub, finalEvents, event, event.to = "finalizing")

Untold == UNCHANGED <<status, gateEvents, finalEvents>>

(* a service's command: it may be refused, or meet a version conflict *)
Command(t, kind, passed) ==
  IF Accepts(t, kind)
  THEN \/ Transit(t, kind, passed) /\ UNCHANGED <<conflicts, dropped>>
       \/ /\ conflicts < MaxConflicts
          /\ conflicts' = conflicts + 1
          /\ dropped' = TRUE
          /\ Untold
  ELSE Untold /\ UNCHANGED <<conflicts, dropped>>

(* the agent ends its run, with a commit or without one *)
AgentCompletes(t) ==
  /\ Accepts(t, "complete-runtime")
  /\ Transit(t, "complete-runtime", FALSE)
  /\ branch' \in {branch, [branch EXCEPT ![t] = @ \cup {<<t, attempts[t]>>}]}
  /\ UNCHANGED <<attempts, probed, handles, gateSub, gates, finalSub, finals, cloneVars, budget>>

(* an operator sends a task back to its agent, who may rebase the branch *)
Retry(t) ==
  /\ status[t] = "needs-review"
  /\ attempts[t] < MaxRuns
  /\ attempts' = [attempts EXCEPT ![t] = @ + 1]
  /\ Transit(t, "mark-running", FALSE)
  /\ branch' \in {branch} \cup {[branch EXCEPT ![t] = @ \cup clone[b]] : b \in Branches}
  /\ UNCHANGED <<probed, handles, gateSub, gates, finalSub, finals, cloneVars, budget>>

Cancel(t) ==
  /\ status[t] \in {"finalizing", "quality-pending"}
  /\ Transit(t, "cancel-task", FALSE)
  /\ UNCHANGED <<attempts, probed, handles, gateSub, gates, finalSub, finals, gitVars, budget>>

(* probeGateRule: a gate that is overdue has failed, once per run *)
ProbeGate(t) ==
  /\ status[t] = "quality-pending"
  /\ <<t, attempts[t]>> \notin probed
  /\ probed' = probed \cup {<<t, attempts[t]>>}
  /\ Transit(t, "complete-quality-gate", FALSE)
  /\ UNCHANGED <<attempts, handles, gateSub, gates, finalSub, finals, gitVars, budget>>
-----------------------------------------------------------------------------
(* QualityGateService.  A controller is in the map as long as its check is *)
(* not aborted.                                                            *)
Controlled(t) == \E g \in gates : g.task = t /\ ~g.aborted

NewGate(t) == [task |-> t, run |-> attempts[t], stage |-> "get", aborted |-> FALSE]

SpawnGates(ts) ==
  gates' = gates \cup {NewGate(t) : t \in {u \in ts : ~Controlled(u)}}

(* attachAsync, after the cursor was read *)
GateAttached ==
  /\ gateSub = "reading"
  /\ gateSub' = "on"
  /\ SpawnGates({t \in Tasks : status[t] = "completed"})
  /\ UNCHANGED <<tasksVars, gateEvents, finalVars, gitVars, budget>>

AbortedGate(g, t) == IF g.task = t THEN [g EXCEPT !.aborted = TRUE] ELSE g

GateConsume ==
  /\ gateSub = "on" /\ gateEvents # << >>
  /\ gateEvents' = Tail(gateEvents)
  /\ LET event == Head(gateEvents)
     IN  IF event.to = "completed" THEN SpawnGates({event.task})
         ELSE gates' = {AbortedGate(g, event.task) : g \in gates}
  /\ UNCHANGED <<tasksVars, gateSub, finalVars, gitVars, budget>>

GateMoves(g, stage) ==
  gates' = (gates \ {g}) \cup {[g EXCEPT !.stage = stage]}

GateEnds(g) == gates' = gates \ {g}

(* runForTask: the task is looked at, and its workspace *)
GateGet(g) ==
  /\ g.stage = "get"
  /\ IF status[g.task] # "completed" THEN GateEnds(g)
     ELSE gates' = (gates \ {g}) \cup
            {[g EXCEPT !.run = attempts[g.task],
                       !.stage = IF g.task \in handles THEN "start" ELSE "startMissing"]}
  /\ UNCHANGED <<tasksVars, gateSub, gateEvents, finalVars, gitVars, budget>>

(* start-quality-gate; without a workspace its failure is ignored *)
GateStart(g) ==
  /\ g.stage \in {"start", "startMissing"}
  /\ Command(g.task, "start-quality-gate", FALSE)
  /\ IF g.stage = "startMissing" THEN GateMoves(g, "missing")
     ELSE IF status' # status /\ ~g.aborted THEN GateMoves(g, "config")
     ELSE GateEnds(g)
  /\ UNCHANGED <<attempts, probed, handles, gateSub, finalSub, finals, gitVars, crashes>>

(* complete-quality-gate, with nothing awaited since the last look at the  *)
(* abort signal                                                            *)
Judge(g, passed) ==
  /\ Command(g.task, "complete-quality-gate", passed)
  /\ GateEnds(g)

Quiet == Untold /\ UNCHANGED <<conflicts, dropped>>

GateMissing(g) ==
  /\ g.stage = "missing"
  /\ Judge(g, FALSE)
  /\ UNCHANGED <<attempts, probed, handles, gateSub, finalSub, finals, gitVars, crashes>>

(* loadConfig: it cannot be read, there is none, or there are checks *)
GateConfig(g) ==
  /\ g.stage = "config"
  /\ \/ Judge(g, FALSE)
     \/ ~g.aborted /\ Judge(g, TRUE)
     \/ ~g.aborted /\ GateMoves(g, "run") /\ Quiet
     \/ g.aborted /\ GateEnds(g) /\ Quiet
  /\ UNCHANGED <<attempts, probed, handles, gateSub, finalSub, finals, gitVars, crashes>>

(* a slip: what an aborted check returns is not dropped *)
GateRunLate(g) ==
  /\ g.stage = "run"
  /\ \E passed \in BOOLEAN : Judge(g, passed)
  /\ UNCHANGED <<attempts, probed, handles, gateSub, finalSub, finals, gitVars, crashes>>

(* plugin.run: every check passes or some does not.  What an aborted check *)
(* returns is dropped, what it throws is not.                              *)
GateRun(g) ==
  /\ g.stage = "run"
  /\ \/ Judge(g, FALSE)
     \/ ~g.aborted /\ Judge(g, TRUE)
     \/ g.aborted /\ GateEnds(g) /\ Quiet
  /\ UNCHANGED <<attempts, probed, handles, gateSub, finalSub, finals, gitVars, crashes>>

GateStep(g) == GateStart(g) \/ GateMissing(g) \/ GateConfig(g) \/ GateRun(g)
-----------------------------------------------------------------------------
(* LocalFinalizeService *)
SpawnFinals(ts) ==
  finals' = [t \in Tasks |-> IF t \in ts /\ finals[t] = Unset
                             THEN [stage |-> "compare", head |-> {}] ELSE finals[t]]

(* a slip: what is finalizing at a restart is not taken up *)
FinalAttachedOnly ==
  /\ finalSub = "reading"
  /\ finalSub' = "on"
  /\ UNCHANGED <<tasksVars, gateVars, finalEvents, finals, gitVars, budget>>

FinalAttached ==
  /\ finalSub = "reading"
  /\ finalSub' = "on"
  /\ SpawnFinals({t \in Tasks : status[t] = "finalizing"})
  /\ UNCHANGED <<tasksVars, gateVars, finalEvents, gitVars, budget>>

FinalConsume ==
  /\ finalSub = "on" /\ finalEvents # << >>
  /\ finalEvents' = Tail(finalEvents)
  /\ SpawnFinals({Head(finalEvents).task})
  /\ UNCHANGED <<tasksVars, gateVars, finalSub, gitVars, budget>>

At(t, stage) == finals[t] # Unset /\ finals[t].stage = stage

GoTo(t, stage) == finals' = [finals EXCEPT ![t].stage = stage]

Elsewhere == UNCHANGED <<tasksVars, gateVars, finalSub, finalEvents, budget>>

(* tryMerge: no workspace, no such target, or no commits ahead of it *)
Ahead(t) == TargetOf[t] \in Branches /\ ~(branch[t] \subseteq clone[TargetOf[t]])

Compare(t) ==
  /\ At(t, "compare")
  /\ GoTo(t, IF t \in handles /\ Ahead(t) THEN "resolve" ELSE "reject")
  /\ Elsewhere /\ UNCHANGED gitVars

ResolveBase(t) ==
  /\ At(t, "resolve")
  /\ TargetOf[t] \in Branches   \* as Compare has found
  /\ finals' = [finals EXCEPT ![t] = [stage |-> "ff", head |-> clone[TargetOf[t]]]]
  /\ Elsewhere /\ UNCHANGED gitVars

(* A git command takes the lock of the clone while it runs; one that meets *)
(* the lock, or a merge left unfinished, fails.  A merge is into HEAD.     *)
CanMerge == lock = Unset /\ merging = Unset

HeadTree == clone[checkedOut]

Clash(t) ==
  \E c \in branch[t] \ HeadTree, d \in HeadTree \ branch[t] : {c[1], d[1]} \in Clashes

FastForward(t) ==
  /\ At(t, "ff")
  /\ IF CanMerge /\ HeadTree \subseteq branch[t]
     THEN GoTo(t, "ffRuns") /\ lock' = t
     ELSE GoTo(t, "noFf") /\ UNCHANGED lock
  /\ Elsewhere /\ UNCHANGED <<branch, clone, checkedOut, into, merging, undone>>

MergeNoFf(t) ==
  /\ At(t, "noFf")
  /\ IF CanMerge
     THEN GoTo(t, "noFfRuns") /\ lock' = t
     ELSE GoTo(t, "abort") /\ UNCHANGED lock
  /\ Elsewhere /\ UNCHANGED <<branch, clone, checkedOut, into, merging, undone>>

MergeEnds(t) ==
  /\ At(t, "ffRuns") \/ At(t, "noFfRuns")
  /\ lock' = Unset
  /\ IF At(t, "noFfRuns") /\ Clash(t)
     THEN GoTo(t, "abort") /\ merging' = t /\ UNCHANGED <<clone, into>>
     ELSE /\ GoTo(t, "accept")
          /\ clone' = [clone EXCEPT ![checkedOut] = @ \cup branch[t]]
          /\ into' = [into EXCEPT ![t] = checkedOut]
          /\ UNCHANGED merging
  /\ Elsewhere /\ UNCHANGED <<branch, checkedOut, undone>>

(* git merge --abort: it fails when no merge is in progress *)
AbortMerge(t) ==
  /\ At(t, "abort")
  /\ IF merging # Unset /\ lock = Unset
     THEN GoTo(t, "reject") /\ merging' = Unset
     ELSE GoTo(t, "reset") /\ UNCHANGED merging
  /\ Elsewhere /\ UNCHANGED <<branch, clone, checkedOut, into, lock, undone>>

(* git reset --hard: HEAD's branch goes to where the target was *)
ResetBase(t) ==
  /\ At(t, "reset")
  /\ GoTo(t, "reject")
  /\ IF lock = Unset
     THEN /\ clone' = [clone EXCEPT ![checkedOut] = finals[t].head]
          /\ merging' = Unset
          /\ undone' = (undone \/ clone' # clone)
     ELSE UNCHANGED <<clone, merging, undone>>
  /\ Elsewhere /\ UNCHANGED <<branch, checkedOut, into, lock>>

(* a slip: a branch that could not be merged is taken for merged *)
SettleMerged(t) ==
  /\ At(t, "accept") \/ At(t, "reject")
  /\ Command(t, "complete-without-pr", FALSE)
  /\ finals' = [finals EXCEPT ![t] = Unset]
  /\ UNCHANGED <<attempts, probed, handles, gateSub, gates, finalSub, gitVars, crashes>>

Settle(t) ==
  /\ At(t, "accept") \/ At(t, "reject")
  /\ Command(t, IF At(t, "accept") THEN "complete-without-pr" ELSE "merge-conflict", FALSE)
  /\ finals' = [finals EXCEPT ![t] = Unset]
  /\ UNCHANGED <<attempts, probed, handles, gateSub, gates, finalSub, gitVars, crashes>>

FinalStep(t) == Compare(t) \/ ResolveBase(t) \/ FastForward(t) \/ MergeNoFf(t) \/ MergeEnds(t)
                  \/ AbortMerge(t) \/ ResetBase(t) \/ Settle(t)

(* the user checks out another branch; git refuses during a merge *)
Checkout(b) ==
  /\ CanMerge
  /\ checkedOut # b
  /\ checkedOut' = b
  /\ UNCHANGED <<tasksVars, gateVars, finalVars, branch, clone, into, merging, lock, undone,
                 budget>>
-----------------------------------------------------------------------------
(* The engine dies and is started again (engine.ts): a service is attached *)
(* to the workflows that are recoverable, the gate also to any other one   *)
(* that has a completed task.  A merge under way is finished or left.      *)
Recoverable ==
  DeriveWorkflowStatus([t \in Tasks |-> [executionStatus |-> status[t]]]) = "active"

Restart ==
  /\ crashes < MaxCrashes
  /\ crashes' = crashes + 1
  /\ gates' = {} /\ gateEvents' = << >>
  /\ gateSub' = IF Recoverable \/ \E t \in Tasks : status[t] = "completed" THEN "reading" ELSE "off"
  /\ finals' = [t \in Tasks |-> Unset] /\ finalEvents' = << >>
  /\ finalSub' = IF Recoverable THEN "reading" ELSE "off"
  /\ lock' = Unset
  /\ undone' = (undone \/ \E t \in Tasks : finals[t] # Unset)
  /\ UNCHANGED <<tasksVars, branch, clone, checkedOut, into, merging, conflicts, dropped>>

(* Subscriptions and reads of the store go on in microtasks: they are done *)
(* before the process hears of a request, a file, or a command's end.      *)
Microtasks ==
  \/ GateAttached \/ GateConsume \/ \E g \in gates : GateGet(g)
  \/ FinalAttached \/ FinalConsume

MicrotasksAreDone ==
  /\ gateEvents = << >> /\ gateSub # "reading" /\ \A g \in gates : g.stage # "get"
  /\ finalEvents = << >> /\ finalSub # "reading"

Callbacks ==
  \/ \E t \in Tasks : AgentCompletes(t) \/ Retry(t) \/ Cancel(t) \/ ProbeGate(t) \/ FinalStep(t)
  \/ \E g \in gates : GateStep(g)
  \/ \E b \in Branches : Checkout(b)

Next ==
  \/ Microtasks
  \/ MicrotasksAreDone /\ Callbacks
  \/ Restart

(* the event loop goes on, checks and git commands end, scans go on *)
Fairness ==
  /\ WF_vars(Microtasks)
  /\ WF_vars(MicrotasksAreDone /\ \E g \in gates : GateStep(g))
  /\ \A t \in Tasks : /\ WF_vars(MicrotasksAreDone /\ FinalStep(t))
                       /\ WF_vars(MicrotasksAreDone /\ ProbeGate(t))

Spec == Init /\ [][Next]_vars
FairSpec == Spec /\ Fairness
-----------------------------------------------------------------------------
(* A run is passed by a check of that run: however late a check ends that  *)
(* was begun for an earlier one, or that recovery has given up, its pass   *)
(* is not taken for the pass of the run that waits now.                    *)
OnlyOwnGatePasses ==
  [][\A t \in Tasks :
       status[t] = "quality-pending" /\ status'[t] = "finalizing" =>
         \E g \in gates \ gates' : g.task = t /\ g.run = attempts[t]]_vars

(* What a task's status says of its work is true of the clone: a merged    *)
(* task's changes are in the branch that was checked out when it was       *)
(* merged, thus in its merge target only where that was checked out; those *)
(* of a run that was sent to review are in no branch -- however the        *)
(* finalizers of several tasks and the user's checkouts overlap, unless a  *)
(* finalizer was killed at work, has reset a branch, or has lost its       *)
(* transition to a version conflict.                                       *)
StatusTellsBase ==
  ~undone /\ ~dropped =>
    \A t \in Tasks :
      /\ status[t] = "merged" => into[t] \in Branches /\ branch[t] \subseteq clone[into[t]]
      /\ status[t] = "needs-review" => \A b \in Branches : <<t, attempts[t]>> \notin clone[b]

(* A completed task gets through its gate, and a task that awaits its      *)
(* finalizer gets through that, whatever restarts, as long as no command   *)
(* of a service meets a version conflict.                                  *)
DeliveryMovesOn ==
  \A t \in Tasks :
    /\ status[t] \in {"completed", "quality-pending"}
         ~> status[t] \notin {"completed", "quality-pending"} \/ dropped
    /\ status[t] = "finalizing" /\ finalSub # "off"
         ~> status[t] # "finalizing" \/ dropped
=============================================================================
