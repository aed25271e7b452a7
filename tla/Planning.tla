------------------------------- MODULE Planning -------------------------------
(***************************************************************************)
(* From a prompt to a stored workflow: the form of a new session, the      *)
(* planner that has a language model draw up a task graph, the preview of  *)
(* the plan and the creation of the workflow.                              *)
(*                                                                         *)
(* Data abstraction: the model's answer is a plan and the form its JSON    *)
(* comes in; a task is its id, the ids it depends on and whether its other *)
(* fields are there.  The fields of a spec that are typed by the form      *)
(* (repository, policy, merge target) are left out.                        *)
(***************************************************************************)
EXTENDS Naturals, Sequences, FiniteSets, SequencesExt

CONSTANTS Plans,      \* the plans the language model may come up with
          Unset,
          MaxSubmits  \* bound

VARIABLES
  stage,     \* of the form: "editing", "planning", "preview" or "creating"
  spec,      \* the plan on preview, or what is being created
  planned,   \* the plan that spec was made from, or Unset
  created,   \* the ids of the workflows in the store
  refusal,   \* why the latest answer was not what was asked for, or Unset
  submits

planningVars == <<stage, spec, planned, created, refusal, submits>>

ValidKinds == {"single-task", "manual-dag"}
WorkflowKinds == ValidKinds \union {"think-thread", "ship", "variant-race", "loop", "ci-heal", "merge-review"}

(* extractJson: the text itself, what a fence holds, or the largest balanced block, *)
(* which is the plan unless a longer block of other text is there                   *)
extractJson(answer) ==
  IF answer.form \in {"plain", "fenced", "in prose"} THEN answer.plan ELSE Unset

Ids(tasks) == {tasks[i].id : i \in DOMAIN tasks}

(* what a search has found: the tasks visited, those on its stack, whether one was met twice on it *)
Found(ids) == [visited : SUBSET ids, inStack : SUBSET ids, cycle : BOOLEAN]

Dependencies(tasks, id) == UNION {ToSet(tasks[i].dependsOn) : i \in {k \in DOMAIN tasks : tasks[k].id = id}}

dfs(tasks, first, found) ==
  LET search[id \in Ids(tasks), f \in Found(Ids(tasks))] ==
        IF f.cycle \/ id \in f.inStack THEN [f EXCEPT !.cycle = TRUE]
        ELSE IF id \in f.visited THEN f
        ELSE LET below == FoldLeft(LAMBDA g, dep : search[dep, g],
                                   [f EXCEPT !.visited = @ \union {id}, !.inStack = @ \union {id}],
                                   SetToSeq(Dependencies(tasks, id)))
             IN IF below.cycle THEN below ELSE [below EXCEPT !.inStack = @ \ {id}]
  IN search[first, found]

NothingFound == [visited |-> {}, inStack |-> {}, cycle |-> FALSE]

(* a slip: only what the first task depends on is looked at *)
DetectFromFirst(tasks) == dfs(tasks, tasks[1].id, NothingFound).cycle

detectCycle(tasks) ==
  FoldLeft(LAMBDA f, task : dfs(tasks, task.id, f), NothingFound, tasks).cycle

(* plan(): the checks of what the model answered, in their order *)
PlanOutcome(raw) ==
  IF raw.kind \notin ValidKinds THEN "invalid kind"
  ELSE IF raw.tasks = <<>> THEN "no task"
  ELSE IF \E i \in DOMAIN raw.tasks : ~raw.tasks[i].whole THEN "missing field"
  ELSE IF Cardinality(Ids(raw.tasks)) # Len(raw.tasks) THEN "duplicate id"
  ELSE IF \E i \in DOMAIN raw.tasks : ~(ToSet(raw.tasks[i].dependsOn) \subseteq Ids(raw.tasks))
       THEN "unknown dependency"
  ELSE IF detectCycle(raw.tasks) THEN "cycle"
  ELSE "ok"

(* every task gets an id of its own; the graph stays what it is *)
MakeSpec(kind, tasks) == [id |-> submits, kind |-> kind, tasks |-> tasks]

OneTask == <<[id |-> "t", dependsOn |-> <<>>, whole |-> TRUE]>>

(* assertAcyclic: the same by another search, of the created graph *)
visit(tasks, first, found) ==
  LET search[id \in Ids(tasks), f \in Found(Ids(tasks))] ==
        IF f.cycle \/ id \in f.visited THEN f
        ELSE IF id \in f.inStack THEN [f EXCEPT !.cycle = TRUE]
        ELSE LET below == FoldLeft(LAMBDA g, dep : search[dep, g], [f EXCEPT !.inStack = @ \union {id}],
                                   SetToSeq(Dependencies(tasks, id)))
             IN [below EXCEPT !.inStack = @ \ {id}, !.visited = @ \union {id}]
  IN search[first, found]

assertAcyclic(tasks) == ~FoldLeft(LAMBDA f, task : visit(tasks, task.id, f), NothingFound, tasks).cycle

(* validateWorkflowSpec and createWorkflow: what POST /workflows makes of a spec *)
CreateOutcome(s) ==
  IF \E i \in DOMAIN s.tasks : ~s.tasks[i].whole THEN "invalid_request"
  ELSE IF \/ s.kind \notin WorkflowKinds \/ s.tasks = <<>>
          \/ Cardinality(Ids(s.tasks)) # Len(s.tasks)
          \/ \E i \in DOMAIN s.tasks : ~(ToSet(s.tasks[i].dependsOn) \subseteq Ids(s.tasks))
          \/ ~assertAcyclic(s.tasks)
       THEN "invalid_workflow"
  ELSE IF s.id \in created THEN "version_conflict"
  ELSE "ok"

Init == stage = "editing" /\ spec = Unset /\ planned = Unset /\ created = {} /\ refusal = Unset /\ submits = 0
-----------------------------------------------------------------------------
(* handleSubmit: a task or a thought is created at once, a plan is asked for *)
HandleSubmit ==
  /\ stage = "editing" /\ submits < MaxSubmits /\ submits' = submits + 1 /\ refusal' = Unset
  /\ planned' = Unset
  /\ \/ stage' = "planning" /\ UNCHANGED spec
     \/ stage' = "creating" /\ \E kind \in {"single-task", "think-thread"} : spec' = MakeSpec(kind, OneTask)
  /\ UNCHANGED created

PlannerAnswers ==
  /\ stage = "planning"
  /\ \E plan \in Plans, form \in {"plain", "fenced", "in prose", "outshone", "none"} :
       LET raw == extractJson([plan |-> plan, form |-> form])
           outcome == IF raw = Unset THEN "no JSON" ELSE PlanOutcome(raw)
       IN IF outcome = "ok"
          THEN stage' = "preview" /\ spec' = MakeSpec(raw.kind, raw.tasks) /\ planned' = plan /\ UNCHANGED refusal
          ELSE /\ stage' = "editing" /\ refusal' = outcome /\ UNCHANGED spec
               /\ planned' = IF raw = Unset THEN Unset ELSE plan
  /\ UNCHANGED <<created, submits>>

(* claude does not run, ends with an error, or the request is lost *)
PlanningFails ==
  /\ stage = "planning" /\ stage' = "editing" /\ refusal' = "failed"
  /\ UNCHANGED <<spec, planned, created, submits>>

(* 503: there is no planner, a single task is created instead *)
PlannerUnavailable ==
  /\ stage = "planning" /\ stage' = "creating" /\ spec' = MakeSpec("single-task", OneTask)
  /\ UNCHANGED <<planned, created, refusal, submits>>

HandleConfirmPlan ==
  /\ stage = "preview" /\ stage' = "creating"
  /\ UNCHANGED <<spec, planned, created, refusal, submits>>

HandleCancelPlan ==
  /\ stage = "preview" /\ stage' = "editing" /\ spec' = Unset /\ planned' = Unset
  /\ UNCHANGED <<created, refusal, submits>>

(* POST /workflows and its answer, which may be lost when the workflow is already   *)
(* stored; a plan that was not created stays on preview, everything else is editing *)
Create ==
  LET outcome == CreateOutcome(spec)
  IN /\ stage = "creating" /\ UNCHANGED <<planned, submits>>
     /\ created' = IF outcome = "ok" THEN created \union {spec.id} ELSE created
     /\ \/ /\ outcome = "ok" /\ stage' = "editing" /\ spec' = Unset /\ UNCHANGED refusal
        \/ /\ stage' = IF planned = Unset THEN "editing" ELSE "preview"
           /\ refusal' = IF outcome = "ok" THEN "lost" ELSE outcome
           /\ UNCHANGED spec

(* the request does not reach the server *)
CreationFails ==
  /\ stage = "creating" /\ refusal' = "failed"
  /\ stage' = IF planned = Unset THEN "editing" ELSE "preview"
  /\ UNCHANGED <<spec, planned, created, submits>>

Next ==
  \/ HandleSubmit \/ PlannerAnswers \/ PlanningFails \/ PlannerUnavailable
  \/ HandleConfirmPlan \/ HandleCancelPlan \/ Create \/ CreationFails

Spec == Init /\ [][Next]_planningVars
-----------------------------------------------------------------------------
(* the reference: the tasks of the plan can be done in some order *)
Proper(raw) ==
  /\ raw.kind \in ValidKinds /\ raw.tasks # <<>>
  /\ \A i, k \in DOMAIN raw.tasks : raw.tasks[i].whole /\ (raw.tasks[i].id = raw.tasks[k].id => i = k)
  /\ \A i \in DOMAIN raw.tasks : ToSet(raw.tasks[i].dependsOn) \subseteq Ids(raw.tasks)
  /\ \E rank \in [Ids(raw.tasks) -> DOMAIN raw.tasks] :
       \A i \in DOMAIN raw.tasks : \A d \in ToSet(raw.tasks[i].dependsOn) : rank[d] < rank[raw.tasks[i].id]

(* The planner turns a plan down exactly if it is not one: the tasks of a plan it   *)
(* takes can be put in an order in which each comes after those it depends on, and  *)
(* no plan for which there is such an order is refused (detectCycle).  What it      *)
(* takes, the server's own checks (createWorkflow, assertAcyclic) take too.         *)
ProperPlansAreTaken ==
  [][stage = "planning" /\ planned' # Unset =>
       /\ stage' = "preview" <=> Proper(planned')
       /\ stage' = "preview" => CreateOutcome(spec') = "ok"]_planningVars
=============================================================================
