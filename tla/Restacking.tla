----------------------------- MODULE Restacking -----------------------------
(***************************************************************************)
(* How a restack that was asked for is carried out: the recovery scan      *)
(* resumes the operation (resumeOperationRule of recovery-service.ts) and  *)
(* GitWorktreeRestackExecutor rebases the branches of the descendants of a *)
(* task whose branch has moved, one worktree after the other.              *)
(*                                                                         *)
(* The branches outlive a crash and the progress of the executor does not. *)
(*                                                                         *)
(* Data abstraction: a head is the set of the changes it contains, so      *)
(* `git rebase --onto new old branch` gives the changes of new and those   *)
(* of the branch that old did not have.  Fetching and pushing, whose       *)
(* failures the code ignores, are left out.                                *)
(***************************************************************************)
EXTENDS Commands, Integers

CONSTANTS Ancestor,       \* the task whose branch moves
          RestackOrder,   \* its descendants, each after those it depends on
          KeyOf,          \* KeyOf[o]: the idempotency key of the request of o
          MaxHeads,       \* heads the ancestor's branch has had (a bound)
          MaxFaults,      \* git commands that fail (a bound)
          MaxCrashes,     \* crashes of the engine (a bound)
          MaxCalls        \* operations settled by an operator (a bound)

VARIABLES wf,         \* the stored workflow
          asked,      \* the operations in the order of workflow.operations
          bases,      \* bases[o]: the heads fromBase and toBase of o
          resumed,    \* the idempotency records of resumed operations
          content,    \* content[t]: the changes in the branch of t
          heads,      \* the heads the ancestor's branch has had
          worktrees,  \* the tasks whose worktree exists
          scan,       \* what the recovery scan has still to resume
          exec,       \* the executor in progress
          broken,     \* an executor has died or met a conflict
          faults, crashes, calls    \* what happened so far of what is bounded

restacked == <<wf, asked, bases, resumed>>
branches  == <<content, heads, worktrees>>
budget    == <<faults, crashes, calls>>
vars == <<restacked, branches, scan, exec, broken, budget>>

Dependents == Descendants(Ancestor)

(* a run of execute(): what is still to be rebased, and the old and the new *)
(* head of what has been                                                    *)
Commits == SUBSET (Tasks \X Nat)
Executors == [op : OpIds, key : OpIds \X Nat, todo : Seq(Tasks), conflict : BOOLEAN,
              shas : UNION {[known -> Commits \X Commits] : known \in SUBSET Tasks}]

RestackingAssumption ==
  /\ DependsOn \in [Tasks -> SUBSET Tasks]
  /\ Ancestor \in Tasks
  /\ RestackOrder \in Seq(Tasks)
  /\ {RestackOrder[i] : i \in DOMAIN RestackOrder} = Dependents
  /\ \A i, j \in DOMAIN RestackOrder :
       /\ RestackOrder[i] = RestackOrder[j] => i = j
       /\ RestackOrder[i] \in DependsOn[RestackOrder[j]] => i < j
  /\ KeyOf \in [OpIds -> Keys]
  /\ Unset \notin GraphOperation \cup Executors
  /\ {MaxHeads, MaxFaults, MaxCrashes, MaxCalls} \subseteq Nat

Init ==
  /\ wf = NewWorkflow
  /\ asked = << >>
  /\ bases = [o \in OpIds |-> Unset]
  /\ resumed = {}
  /\ content = [t \in Tasks |-> {<<u, 0>> : u \in {v \in Tasks : t = v \/ t \in Descendants(v)}}]
  /\ heads = << content[Ancestor] >>
  /\ worktrees \in {Tasks \ gone : gone \in SUBSET Dependents}
  /\ scan = {}
  /\ exec = Unset
  /\ broken = FALSE
  /\ faults = 0 /\ crashes = 0 /\ calls = 0

(* the ancestor's agent, or a merge, gives its branch another head *)
Advance ==
  /\ Len(heads) < MaxHeads
  /\ content' = [content EXCEPT ![Ancestor] = @ \cup {<<Ancestor, Len(heads)>>}]
  /\ heads' = Append(heads, content'[Ancestor])
  /\ UNCHANGED <<restacked, worktrees, scan, exec, broken, budget>>

(* POST /commands: a restack between two heads of the ancestor *)
Ask(o) ==
  /\ wf.operations[o] = Unset
  /\ wf' = RequestRestack(wf, o, Ancestor, KeyOf[o])
  /\ wf' # wf
  /\ asked' = Append(asked, o)
  /\ \E i \in DOMAIN heads : bases' = [bases EXCEPT ![o] = <<heads[i], heads[Len(heads)]>>]
  /\ UNCHANGED <<resumed, branches, scan, exec, broken, budget>>

(* POST /commands: an operator settles an operation by hand *)
Settle(o) ==
  /\ calls < MaxCalls
  /\ calls' = calls + 1
  /\ \E kind \in {"start-restack", "mark-restack-conflict"} :
       LET command == [kind |-> kind, operationId |-> o]
       IN  /\ Outcome(wf, command) = "ok"
           /\ wf' = Apply(wf, command)
  /\ UNCHANGED <<asked, bases, resumed, branches, scan, exec, broken, faults, crashes>>
-----------------------------------------------------------------------------
(* planRecovery and resumeOperationRule *)

(* a slip: what a dead engine had started is not taken up again *)
InProgressIfPending(w, o) == w.operations[o].status = "pending"

InProgress(w, o) == w.operations[o].status \in {"pending", "running"}

StartScan ==
  /\ scan = {}
  /\ exec = Unset
  /\ scan' = {[at |-> i, op |-> asked[i], status |-> wf.operations[asked[i]].status,
               attempt |-> wf.operations[asked[i]].attempt] :
                i \in {j \in DOMAIN asked : InProgress(wf, asked[j])}}
  /\ scan' # {}
  /\ UNCHANGED <<restacked, branches, exec, broken, budget>>

ResumeKey(action) == <<action.op, action.attempt>>

(* planRestack and the first entry of baseShas; nothing is to be done if   *)
(* the ancestor has not moved                                              *)
Executor(action) ==
  [op |-> action.op, key |-> ResumeKey(action), conflict |-> FALSE,
   todo |-> IF bases[action.op][1] = bases[action.op][2] THEN << >> ELSE RestackOrder,
   shas |-> [t \in {Ancestor} |-> bases[action.op]]]

(* The actions are taken in the order of the operations.  A pending        *)
(* operation is started first; if it has been started or settled since the *)
(* scan read it, the error ends the scan.  One that was running when the   *)
(* scan read it is executed whatever has become of it.                     *)
Resume(action) ==
  /\ \A other \in scan : action.at <= other.at
  /\ exec = Unset
  /\ IF ResumeKey(action) \in resumed
     THEN scan' = scan \ {action} /\ UNCHANGED <<wf, exec>>
     ELSE IF action.status = "running"
     THEN scan' = scan \ {action} /\ exec' = Executor(action) /\ UNCHANGED wf
     ELSE IF OperationOutcome(wf, action.op, {"pending"}) = "ok"
     THEN /\ scan' = scan \ {action}
          /\ wf' = StartRestack(wf, action.op)
          /\ exec' = Executor(action)
     ELSE scan' = {} /\ UNCHANGED <<wf, exec>>
  /\ UNCHANGED <<asked, bases, resumed, branches, broken, budget>>
-----------------------------------------------------------------------------
(* GitWorktreeRestackExecutor.execute *)

(* the parents of t whose old and new heads are known *)
Moved(t) == DependsOn[t] \cap DOMAIN exec.shas

Pass(shas) == exec' = [exec EXCEPT !.todo = Tail(@), !.shas = shas]

(* baseShas.set *)
Recorded(t, old, new) ==
  [u \in DOMAIN exec.shas \cup {t} |-> IF u = t THEN <<old, new>> ELSE exec.shas[u]]

(* a slip: the children of t are rebased onto its old head *)
RebaseForgetsHead(t, old, new) ==
  /\ content' = [content EXCEPT ![t] = new \cup (@ \ old)]
  /\ Pass(Recorded(t, content[t], content[t]))

Rebase(t, old, new) ==
  /\ content' = [content EXCEPT ![t] = new \cup (@ \ old)]
  /\ Pass(Recorded(t, content[t], content'[t]))

(* one turn of the loop over the descendants: a task with no known parent  *)
(* or no worktree is passed over, and one whose parent has not moved keeps *)
(* its head                                                                *)
RebaseNext ==
  /\ exec # Unset /\ exec.todo # << >> /\ ~exec.conflict
  /\ LET t == Head(exec.todo)
     IN  IF Moved(t) = {} \/ t \notin worktrees
         THEN Pass(exec.shas) /\ UNCHANGED content
         ELSE \E parent \in Moved(t) :
                LET old == exec.shas[parent][1]
                    new == exec.shas[parent][2]
                IN  IF old = new
                    THEN Pass(Recorded(t, content[t], content[t])) /\ UNCHANGED content
                    ELSE Rebase(t, old, new)
  /\ UNCHANGED <<restacked, heads, worktrees, scan, broken, budget>>

(* the rebase stops at a conflict, or at one that was left unfinished when *)
(* the engine died, and is aborted                                         *)
RebaseConflicts ==
  /\ exec # Unset /\ exec.todo # << >> /\ ~exec.conflict
  /\ Moved(Head(exec.todo)) # {} /\ Head(exec.todo) \in worktrees
  /\ exec' = [exec EXCEPT !.conflict = TRUE]
  /\ broken' = TRUE
  /\ UNCHANGED <<restacked, branches, scan, budget>>

(* rev-parse fails: the error ends the scan *)
ExecutorFails ==
  /\ exec # Unset /\ exec.todo # << >>
  /\ faults < MaxFaults /\ faults' = faults + 1
  /\ exec' = Unset
  /\ scan' = {}
  /\ broken' = TRUE
  /\ UNCHANGED <<restacked, branches, crashes, calls>>

(* complete-restack or mark-restack-conflict, with the idempotency record; *)
(* an operation that was settled in the meantime ends the scan             *)
Finish ==
  /\ exec # Unset
  /\ exec.todo = << >> \/ exec.conflict
  /\ LET command ==
           IF exec.conflict THEN [kind |-> "mark-restack-conflict", operationId |-> exec.op]
           ELSE [kind |-> "complete-restack", operationId |-> exec.op,
                 artifactsByTaskId |-> [t \in Tasks |-> {}]]
     IN  IF Outcome(wf, command) = "ok"
         THEN /\ wf' = Apply(wf, command)
              /\ resumed' = resumed \cup {exec.key}
              /\ UNCHANGED scan
         ELSE UNCHANGED <<wf, resumed>> /\ scan' = {}
  /\ exec' = Unset
  /\ UNCHANGED <<asked, bases, branches, broken, budget>>

Crash ==
  /\ crashes < MaxCrashes
  /\ crashes' = crashes + 1
  /\ exec' = Unset
  /\ scan' = {}
  /\ broken' = (broken \/ exec # Unset)
  /\ UNCHANGED <<restacked, branches, faults, calls>>

ScanStep == StartScan \/ (\E action \in scan : Resume(action)) \/ RebaseNext \/ Finish

Next ==
  \/ Advance
  \/ \E o \in OpIds : Ask(o) \/ Settle(o)
  \/ ScanStep \/ RebaseConflicts \/ ExecutorFails
  \/ Crash

(* scans are started again and again, and what they await comes *)
Fairness == WF_vars(ScanStep)

Spec == Init /\ [][Next]_vars
FairSpec == Spec /\ Fairness
-----------------------------------------------------------------------------
(* the tasks that git can reach: their worktree exists and so do those on  *)
(* every way from the ancestor                                             *)
Reachable == {t \in Dependents : {u \in Dependents : t = u \/ t \in Descendants(u)} \subseteq worktrees}

(* the executor completes an operation about a move of the ancestor *)
Completes(o) ==
  /\ exec # Unset /\ exec.op = o
  /\ bases[o][1] # bases[o][2]
  /\ wf.operations[o].status = "running"
  /\ wf'.operations[o].status = "completed"

(* A restack that completes has brought the new head of the ancestor into  *)
(* every branch it can reach, however many restacks overlap and wherever   *)
(* the ancestor has gone meanwhile -- as long as no executor before it has *)
(* died half-way or met a conflict.                                        *)
UndisturbedRestackReachesAll ==
  [][\A o \in OpIds : Completes(o) /\ ~broken =>
       \A t \in Reachable : bases[o][2] \subseteq content[t]]_vars

(* Every restack that was asked for ends, through crashes, failing git     *)
(* commands and operators who settle it half-way, as long as an operation  *)
(* id is used once.                                                        *)
EveryRestackEnds ==
  \A o \in OpIds : o \in Requested(wf)
     ~> o \in Requested(wf) /\ wf.operations[o].status \in {"completed", "conflict"}
=============================================================================
