------------------------- MODULE WorkflowStoreProofs -------------------------
(***************************************************************************)
(* The stored workflow implements the atomic lifecycle, for every set of   *)
(* callers, of calls and of tasks.  The inductive invariant relates the    *)
(* copy each caller holds to the row: it is never ahead, and it is the row *)
(* if the versions agree.  So a save that passes the version check applies *)
(* its command to the row itself, and what commands preserve of a workflow *)
(* (TransitionsProofs) the store preserves of the row.                     *)
(***************************************************************************)
EXTENDS WorkflowStore, TransitionsProofs

(* The inductive invariant. *)
StoreInv ==
  /\ db.version \in Nat
  /\ pc \in [Clients -> {"idle", "lookup", "get", "save"}]
  /\ request \in [Clients -> RequestSet \cup {Unset}]
  /\ DOMAIN snapshot = Clients
  /\ \A p \in Clients : pc[p] # "idle" => request[p] \in RequestSet
  /\ \A p \in Clients :
       pc[p] = "save" => /\ snapshot[p].version \in Nat
                         /\ snapshot[p].version <= db.version
                         /\ snapshot[p].version = db.version => snapshot[p] = db

(* A command leaves the workflow alone or makes its next version. *)
LEMMA ApplyVersion ==
  ASSUME NEW w, NEW c \in Command
  PROVE  Apply(w, c) = w \/ Apply(w, c).version = w.version + 1
  <1>1. CASE c.kind = "transition-task"
    BY <1>1 DEF Apply, TransitionTask, NextVersion
  <1>2. CASE c.kind = "request-restack"
    BY <1>2 DEF Apply, RequestRestack, NextVersion
  <1>3. CASE c.kind = "start-restack"
    BY <1>3 DEF Apply, StartRestack, MoveOperation, NextVersion
  <1>4. CASE c.kind = "complete-restack"
    BY <1>4 DEF Apply, CompleteRestack, NextVersion
  <1>5. CASE c.kind = "mark-restack-conflict"
    BY <1>5 DEF Apply, MarkRestackConflict, MoveOperation, NextVersion
  <1>6. QED
    BY <1>1, <1>2, <1>3, <1>4, <1>5 DEF Command

(* A save that is accepted applies its command to the row. *)
LEMMA AcceptedIsCurrent ==
  ASSUME StoreInv, NEW p \in Clients, SaveAccepted(p)
  PROVE  /\ request[p].command \in Command
         /\ request[p] \in RequestSet
         /\ Outcome(db, request[p].command) = "ok"
         /\ db' = Apply(db, request[p].command)
         /\ db'.version = db.version + 1
         /\ db'.version \in Nat
  <1> DEFINE c == request[p].command
             next == Apply(snapshot[p], c)
  <1>1. request[p] \in RequestSet /\ c \in Command
    BY RequestSetAssumption DEF StoreInv, SaveAccepted, Request
  <1>2. /\ snapshot[p].version \in Nat
        /\ db.version \in Nat
        /\ snapshot[p].version <= db.version
        /\ snapshot[p].version = db.version => snapshot[p] = db
    BY DEF StoreInv, SaveAccepted
  <1>3. /\ Outcome(snapshot[p], c) = "ok"
        /\ SaveOutcome(request[p], next) = "ok"
        /\ db' = next
    BY DEF SaveAccepted, CallOutcome
  <1>4. db.version = next.version - 1
    BY <1>3 DEF SaveOutcome
  <1>5. next = snapshot[p] \/ next.version = snapshot[p].version + 1
    BY <1>1, ApplyVersion
  <1> HIDE DEF next
  <1>6. next # snapshot[p]
    BY <1>2, <1>4
  <1>7. snapshot[p].version = db.version
    BY <1>2, <1>4, <1>5, <1>6
  <1>8. snapshot[p] = db
    BY <1>2, <1>7
  <1>9. db'.version = db.version + 1
    BY <1>3, <1>5, <1>6, <1>8
  <1>10. db' = Apply(db, c)
    BY <1>3, <1>8 DEF next
  <1>11. QED
    BY <1>1, <1>2, <1>3, <1>8, <1>9, <1>10

(* The pure operators do not depend on the variable the lifecycle is told  *)
(* of.                                                                     *)
LEMMA SameOperators ==
  /\ Atomic!NewWorkflow = NewWorkflow
  /\ \A w, c : Atomic!Outcome(w, c) = Outcome(w, c)
  /\ \A w, c : Atomic!Apply(w, c) = Apply(w, c)
  <1>1. Atomic!NewWorkflow = NewWorkflow
    BY DEF NewWorkflow, Atomic!NewWorkflow, NewTask, Atomic!NewTask
  <1>2. ASSUME NEW w, NEW c PROVE Atomic!Outcome(w, c) = Outcome(w, c)
    BY DEF Outcome, Atomic!Outcome, CannotRun, Atomic!CannotRun, StaleSession,
           Atomic!StaleSession, TransitionOutcome, Atomic!TransitionOutcome,
           From, Atomic!From, OpenRun, Atomic!OpenRun, OpenRuns,
           Atomic!OpenRuns, OperationOutcome, Atomic!OperationOutcome,
           Requested, Atomic!Requested
  <1>3. ASSUME NEW w, NEW c PROVE Atomic!Apply(w, c) = Apply(w, c)
    BY DEF Apply, Atomic!Apply, OpenRuns, Atomic!OpenRuns, OpenRun,
           Atomic!OpenRun, CloseLatestRun, Atomic!CloseLatestRun, PatchOpenRun,
           Atomic!PatchOpenRun, From, Atomic!From, Target, Atomic!Target,
           CloseReason, Atomic!CloseReason, ClearsSession, Atomic!ClearsSession,
           AppendsArtifacts, Atomic!AppendsArtifacts, NewRun, Atomic!NewRun,
           RunsAfter, Atomic!RunsAfter, SessionAfter, Atomic!SessionAfter,
           ArtifactsAfter, Atomic!ArtifactsAfter,
           UpdateTask, Atomic!UpdateTask, TransitionOutcome,
           Atomic!TransitionOutcome, WorkflowCompleting,
           Atomic!WorkflowCompleting, DeriveWorkflowStatus,
           Atomic!DeriveWorkflowStatus, NextVersion, Atomic!NextVersion,
           TransitionTask, Atomic!TransitionTask, ClosedUnderDependents,
           Atomic!ClosedUnderDependents, Descendants, Atomic!Descendants,
           Restacked, Atomic!Restacked, Requested, Atomic!Requested,
           RestackOperation, Atomic!RestackOperation, RequestRestack,
           Atomic!RequestRestack, OperationOutcome, Atomic!OperationOutcome,
           MovedOperation, Atomic!MovedOperation, MoveOperation,
           Atomic!MoveOperation, StartRestack, Atomic!StartRestack,
           WithArtifacts, Atomic!WithArtifacts, CompleteRestack,
           Atomic!CompleteRestack, MarkRestackConflict,
           Atomic!MarkRestackConflict
  <1>4. QED
    BY <1>1, <1>2, <1>3

(* An accepted command is an action of the atomic lifecycle. *)
LEMMA ExecuteIsNext ==
  ASSUME NEW c \in {r.command : r \in RequestSet}, Atomic!Execute(c), c \in Command
  PROVE  Atomic!Next
  <1>1. CASE c.kind # "transition-task"
    <2>1. c.kind \in {"request-restack", "start-restack", "complete-restack",
                      "mark-restack-conflict"}
      BY <1>1 DEF Command
    <2>2. Atomic!GraphCommand(c.kind)
      BY DEF Atomic!GraphCommand
    <2>3. QED
      BY <2>1, <2>2 DEF Atomic!Next, Atomic!AskRestack, Atomic!BeginRestack,
                        Atomic!FinishRestack, Atomic!ConflictRestack
  <1>2. CASE c.kind = "transition-task"
    <2>1. c.transition.kind \in TransitionKinds
      BY <1>2 DEF Command, TransitionCommand
    <2>2. Atomic!Transition(c.transition.kind)
      BY <1>2, <2>1 DEF Atomic!Transition, Atomic!TransitionsOf, TransitionKinds, Atomic!TransitionKinds
    <2>3. QED
      BY <2>1, <2>2
         DEF TransitionKinds, Atomic!Next, Atomic!MarkReady, Atomic!MarkRunning,
             Atomic!UpdateRun, Atomic!CompleteRuntime, Atomic!StartFinalization,
             Atomic!OpenReview, Atomic!StartQualityGate,
             Atomic!CompleteQualityGate, Atomic!StartCIGate,
             Atomic!CompleteCIGate, Atomic!MergeTask, Atomic!CompleteWithoutPR,
             Atomic!MergeConflict, Atomic!CancelTask, Atomic!RecoverTask,
             Atomic!MarkInterrupted, Atomic!FailTask
  <1>3. QED
    BY <1>1, <1>2

(* The inductive invariant holds initially ... *)
LEMMA StoreInit == Init => StoreInv
  BY DEF Init, StoreInv, NewWorkflow

(* ... and every step, of a caller or a crash, preserves it. *)
LEMMA StoreNext == StoreInv /\ [Next]_vars => StoreInv'
  <1> SUFFICES ASSUME StoreInv, [Next]_vars PROVE StoreInv'
    OBVIOUS
  <1>1. ASSUME NEW p \in Clients, NEW r \in RequestSet, Call(p, r)
        PROVE  StoreInv'
    BY <1>1 DEF StoreInv, Call, Entry, durable
  <1>2. ASSUME NEW p \in Clients, Lookup(p)
        PROVE  StoreInv'
    BY <1>2 DEF StoreInv, Lookup, Return, durable
  <1>3. ASSUME NEW p \in Clients, Get(p)
        PROVE  StoreInv'
    BY <1>3 DEF StoreInv, Get, durable
  <1>4. ASSUME NEW p \in Clients, SaveAccepted(p)
        PROVE  StoreInv'
    <2>1. db.version \in Nat /\ db'.version \in Nat /\ db'.version = db.version + 1
      BY <1>4, AcceptedIsCurrent DEF StoreInv
    <2>2. /\ pc' = [pc EXCEPT ![p] = "idle"]
          /\ request' = [request EXCEPT ![p] = Unset]
          /\ snapshot' = [snapshot EXCEPT ![p] = Unset]
      BY <1>4 DEF SaveAccepted, Return
    <2>3. QED
      BY <2>1, <2>2 DEF StoreInv
  <1>5. ASSUME NEW p \in Clients, SaveConflicts(p)
        PROVE  StoreInv'
    BY <1>5 DEF StoreInv, SaveConflicts, Entry, durable
  <1>6. ASSUME NEW p \in Clients, SaveRejected(p)
        PROVE  StoreInv'
    BY <1>6 DEF StoreInv, SaveRejected, Return, durable
  <1>7. CASE Crash
    BY <1>7 DEF StoreInv, Crash, durable
  <1>8. CASE UNCHANGED vars
    BY <1>8 DEF StoreInv, vars
  <1>9. QED
    BY <1>1, <1>2, <1>3, <1>4, <1>5, <1>6, <1>7, <1>8 DEF Next, Save

(* So it holds in every reachable state. *)
LEMMA StoreInvariance == Spec => []StoreInv
  BY StoreInit, StoreNext, PTL DEF Spec

(* A copy of the row's version is the row: what comparing versions on save *)
(* relies on.                                                              *)
THEOREM VersionsNameWorkflows == Spec => []VersionNamesWorkflow
  <1>1. StoreInv => VersionNamesWorkflow
    BY DEF StoreInv, VersionNamesWorkflow
  <1>2. QED
    BY <1>1, StoreInvariance, PTL

(* Overlapping calls, conflicts, retries and crashes are invisible in the  *)
(* stored workflow: it goes through whole commands applied one at a time.  *)
THEOREM StoreImplementsAtomic == Spec => CommandsAreAtomic
  <1>1. Init => Atomic!Init
    BY SameOperators DEF Init, Atomic!Init
  <1>2. ASSUME StoreInv, [Next]_vars
        PROVE  [Atomic!Next]_db
    <2>1. ASSUME NEW p \in Clients, SaveAccepted(p)
          PROVE  Atomic!Next
      <3>1. Atomic!Execute(request[p].command)
        BY <1>2, <2>1, AcceptedIsCurrent, SameOperators DEF Atomic!Execute, StoreInv
      <3>2. /\ request[p].command \in {r.command : r \in RequestSet}
            /\ request[p].command \in Command
        BY <1>2, <2>1, AcceptedIsCurrent
      <3>3. QED
        BY <3>1, <3>2, ExecuteIsNext
    <2>2. CASE UNCHANGED vars
      BY <2>2 DEF vars
    <2>3. CASE Next /\ ~ \E p \in Clients : SaveAccepted(p)
      BY <2>3 DEF Next, Call, Lookup, Get, Save, SaveConflicts, SaveRejected,
                  Crash, durable
    <2>4. QED
      BY <1>2, <2>1, <2>2, <2>3
  <1>3. QED
    BY <1>1, <1>2, StoreInvariance, PTL DEF Spec, CommandsAreAtomic, Atomic!Spec

-----------------------------------------------------------------------------
(* The row *)

(* Only an accepted save changes the row or the records. *)
LEMMA OthersKeepRow ==
  ASSUME [Next]_vars, \A p \in Clients : ~SaveAccepted(p)
  PROVE  db' = db /\ recorded' = recorded
  BY DEF Next, Call, Lookup, Get, Save, SaveConflicts, SaveRejected, Crash, durable, vars

(* The row satisfies at all times what every command preserves. *)
LEMMA RowInvariance == Spec => []WorkflowInv(db)
  <1>1. Init => WorkflowInv(db)
    BY NewWorkflowInv DEF Init
  <1>2. ASSUME StoreInv, WorkflowInv(db), [Next]_vars
        PROVE  WorkflowInv(db)'
    <2>1. ASSUME NEW p \in Clients, SaveAccepted(p)
          PROVE  WorkflowInv(db')
      BY <1>2, <2>1, AcceptedIsCurrent, ApplyInv
    <2>2. QED
      BY <1>2, <2>1, OthersKeepRow
  <1>3. QED
    BY <1>1, <1>2, StoreInvariance, PTL DEF Spec

(* A caller whose session was replaced changes nothing: at the moment of   *)
(* the save the session it names is that of the task's last run.           *)
THEOREM FencedByLastRun == Spec => FencedBySession
  <1>1. ASSUME StoreInv, WorkflowInv(db), [Next]_vars
        PROVE  \A p \in Clients :
                 LET c == request[p].command.transition
                 IN  /\ pc[p] = "save"
                     /\ request[p].command.kind = "transition-task"
                     /\ c.expectedSessionId # Unset
                     /\ db' # db
                     /\ pc'[p] = "idle"
                     => LastOf(db.graph[c.taskId].runs).runtimeSessionId
                          = c.expectedSessionId
    <2> TAKE p \in Clients
    <2> DEFINE c == request[p].command.transition
    <2> SUFFICES ASSUME pc[p] = "save", pc'[p] = "idle", db' # db,
                        request[p].command.kind = "transition-task",
                        c.expectedSessionId # Unset
                 PROVE  LastOf(db.graph[c.taskId].runs).runtimeSessionId
                          = c.expectedSessionId
      OBVIOUS
    <2>1. PICK q \in Clients : SaveAccepted(q)
      BY <1>1, OthersKeepRow
    <2>2. q = p
      BY <1>1, <2>1 DEF StoreInv, SaveAccepted, Return
    <2>3. request[p].command \in Command /\ Outcome(db, request[p].command) = "ok"
      BY <1>1, <2>1, <2>2, AcceptedIsCurrent
    <2>4. c \in TransitionCommand /\ TransitionOutcome(db, c) = "ok"
      BY <2>3 DEF Command, Outcome
    <2>5. /\ c.taskId \in Tasks
          /\ db.graph[c.taskId].sessionId = c.expectedSessionId
      BY <2>4 DEF TransitionOutcome, StaleSession, TransitionCommand
    <2>6. NamesLastRun(db.graph[c.taskId])
      BY <1>1, <2>5 DEF WorkflowInv, TaskInv
    <2>7. QED
      BY <2>5, <2>6 DEF NamesLastRun
  <1>2. QED
    BY <1>1, StoreInvariance, RowInvariance, PTL DEF Spec, FencedBySession

(* What a save does to the operations: a request adds one, under a key     *)
(* that no operation has and that the save records; the other commands     *)
(* keep the operations that there are and their keys.                      *)
KeyOf(w, o) == w.operations[o].idempotencyKey

SameKeys(w, n) ==
  /\ Requested(n) = Requested(w)
  /\ \A o \in Requested(w) : KeyOf(n, o) = KeyOf(w, o)

AddsKey(w, n, id, key) ==
  /\ \A o \in Requested(w) : KeyOf(w, o) # key
  /\ Requested(n) = Requested(w) \cup {id}
  /\ KeyOf(n, id) = key
  /\ \A o \in Requested(w) \ {id} : KeyOf(n, o) = KeyOf(w, o)

(* Moving an operation keeps its key. *)
LEMMA MoveKeepsKeys ==
  ASSUME NEW w \in Workflow, NEW id \in Requested(w), NEW status \in OperationStatuses, NEW n,
         n.operations = [w.operations EXCEPT ![id] = MovedOperation(@, status)]
  PROVE  SameKeys(w, n)
  <1> DEFINE op == w.operations[id]
  <1>1. id \in OpIds /\ op \in GraphOperation
    BY DEF Requested, Workflow
  <1>2. w.operations \in [OpIds -> GraphOperation \cup {Unset}]
    BY DEF Workflow
  <1>3. MovedOperation(op, status) \in GraphOperation
    BY <1>1 DEF MovedOperation, GraphOperation
  <1>4. MovedOperation(op, status) # Unset
    BY <1>3, UnsetAssumption
  <1>5. MovedOperation(op, status).idempotencyKey = op.idempotencyKey
    BY DEF MovedOperation
  <1>6. \A o \in OpIds : n.operations[o] = IF o = id THEN MovedOperation(op, status)
                                            ELSE w.operations[o]
    BY <1>2
  <1>7. QED
    BY <1>1, <1>4, <1>5, <1>6 DEF SameKeys, Requested, KeyOf

(* A command that changes the workflow keeps the keys or adds its own. *)
LEMMA ApplyKeys ==
  ASSUME NEW w \in Workflow, NEW c \in Command, Outcome(w, c) = "ok", Apply(w, c) # w
  PROVE  IF c.kind = "request-restack"
         THEN /\ c.operationId \in OpIds
              /\ Apply(w, c).operations[c.operationId] # Unset
              /\ AddsKey(w, Apply(w, c), c.operationId, c.idempotencyKey)
         ELSE SameKeys(w, Apply(w, c))
  <1>0. w.operations \in [OpIds -> GraphOperation \cup {Unset}]
    BY DEF Workflow
  <1>1. CASE c.kind = "transition-task"
    <2>1. Apply(w, c).operations = w.operations
      BY <1>1 DEF Apply, TransitionTask, NextVersion
    <2>2. QED
      BY <1>1, <2>1 DEF SameKeys, Requested, KeyOf
  <1>2. CASE c.kind = "request-restack"
    <2> DEFINE id == c.operationId
               key == c.idempotencyKey
               op == RestackOperation(c.ancestorId, key)
    <2>1. id \in OpIds /\ key \in Keys
      BY <1>2 DEF Command
    <2>2. Apply(w, c) = RequestRestack(w, id, c.ancestorId, key)
      BY <1>2 DEF Apply
    <2>3. \A o \in Requested(w) : w.operations[o].idempotencyKey # key
      BY <2>2 DEF RequestRestack
    <2>4. Apply(w, c).operations = [w.operations EXCEPT ![id] = op]
      BY <2>2, <2>3 DEF RequestRestack, NextVersion
    <2>5. op \in GraphOperation
      BY <2>1 DEF RestackOperation, GraphOperation, OperationStatuses, Descendants
    <2>6. op # Unset /\ op.idempotencyKey = key
      BY <2>5, UnsetAssumption DEF RestackOperation
    <2> HIDE DEF op
    <2>7. \A o \in OpIds : Apply(w, c).operations[o] = IF o = id THEN op ELSE w.operations[o]
      BY <1>0, <2>4
    <2>8. QED
      BY <1>2, <2>1, <2>3, <2>6, <2>7 DEF AddsKey, Requested, KeyOf
  <1>3. CASE c.kind \in {"start-restack", "complete-restack", "mark-restack-conflict"}
    <2>1. c.operationId \in Requested(w)
      BY <1>3 DEF Outcome, OperationOutcome
    <2>2. PICK status \in OperationStatuses :
            Apply(w, c).operations = [w.operations EXCEPT ![c.operationId] = MovedOperation(@, status)]
      BY <1>3 DEF Apply, StartRestack, MarkRestackConflict, MoveOperation, CompleteRestack,
                  NextVersion, OperationStatuses
    <2>3. SameKeys(w, Apply(w, c))
      BY <2>1, <2>2, MoveKeepsKeys
    <2>4. QED
      BY <1>3, <2>3
  <1>4. QED
    BY <1>1, <1>2, <1>3 DEF Command

(* A key that two requests share makes one operation, however they miss    *)
(* each other at the lookup: the save of the second finds it recorded.     *)
THEOREM KeysNameOperations == Spec => []OneOperationPerKey
  <1>1. Init => OneOperationPerKey
    BY DEF Init, NewWorkflow, OneOperationPerKey, Requested
  <1>2. ASSUME StoreInv, WorkflowInv(db), OneOperationPerKey, [Next]_vars
        PROVE  OneOperationPerKey'
    <2>1. ASSUME NEW p \in Clients, SaveAccepted(p)
          PROVE  OneOperationPerKey'
      <3> DEFINE c == request[p].command
      <3>1. /\ c \in Command /\ Outcome(db, c) = "ok"
            /\ db' = Apply(db, c) /\ db' # db
        BY <1>2, <2>1, AcceptedIsCurrent
      <3>2. /\ KeysOf(request[p], db') \cap recorded = {}
            /\ recorded' = recorded \cup KeysOf(request[p], db')
        BY <2>1 DEF SaveAccepted, CallOutcome, SaveOutcome
      <3>3. CASE c.kind = "request-restack"
        <4>1. /\ c.operationId \in OpIds
              /\ db'.operations[c.operationId] # Unset
              /\ AddsKey(db, db', c.operationId, c.idempotencyKey)
          BY <1>2, <3>1, <3>3, ApplyKeys DEF WorkflowInv
        <4>2. c.idempotencyKey \in KeysOf(request[p], db')
          BY <3>3, <4>1 DEF KeysOf, IsRestackRequest
        <4>3. QED
          BY <1>2, <3>2, <4>1, <4>2 DEF OneOperationPerKey, AddsKey, KeyOf
      <3>4. CASE c.kind # "request-restack"
        <4>1. SameKeys(db, db')
          BY <1>2, <3>1, <3>4, ApplyKeys DEF WorkflowInv
        <4>2. QED
          BY <1>2, <3>2, <4>1 DEF OneOperationPerKey, SameKeys, KeyOf
      <3>5. QED
        BY <3>3, <3>4
    <2>2. CASE \A p \in Clients : ~SaveAccepted(p)
      BY <1>2, <2>2, OthersKeepRow DEF OneOperationPerKey, Requested
    <2>3. QED
      BY <2>1, <2>2
  <1>3. QED
    BY <1>1, <1>2, StoreInvariance, RowInvariance, PTL DEF Spec

-----------------------------------------------------------------------------
(* The log *)

(* SetToSeq lists a finite set. *)
LEMMA SetIsListed ==
  ASSUME NEW S, IsFiniteSet(S)
  PROVE  /\ SetToSeq(S) \in Seq(S)
         /\ Len(SetToSeq(S)) \in Nat
         /\ Lists(SetToSeq(S), S)
  <1>1. ExistsBijection(1 .. Cardinality(S), S)
    BY FS_CardinalityType
  <1>2. \E f \in [1 .. Cardinality(S) -> S] : IsInjective(f)
    BY <1>1 DEF ExistsBijection, Bijection, Injection
  <1>3. /\ SetToSeq(S) \in [1 .. Cardinality(S) -> S]
        /\ IsInjective(SetToSeq(S))
    BY <1>2 DEF SetToSeq
  <1>4. \A a, b \in 1 .. Cardinality(S) : SetToSeq(S)[a] = SetToSeq(S)[b] => a = b
    BY <1>3 DEF IsInjective
  <1>5. SetToSeq(S) \in Seq(S) /\ Lists(SetToSeq(S), S)
    BY <1>3, <1>4, InjectionLists
  <1>6. QED
    BY <1>5

(* A save appends to the log what tells of its change of the row. *)
LEMMA SaveIsTold ==
  ASSUME StoreInv, WorkflowInv(db), NEW p \in Clients, SaveAccepted(p)
  PROVE  /\ Tellable(db, db')
         /\ \E more \in Seq(WorkflowEvent) :
              /\ log' = log \o more
              /\ Lists(more, DeriveEvents(db, db'))
  <1>1. /\ request[p].command \in Command
        /\ Outcome(db, request[p].command) = "ok"
        /\ db' = Apply(db, request[p].command)
        /\ db'.version = db.version + 1
    BY AcceptedIsCurrent
  <1>2. Tellable(db, db')
    BY <1>1, ApplyTellable
  <1>3. snapshot[p] = db
    <2>1. /\ snapshot[p].version \in Nat /\ db.version \in Nat
          /\ snapshot[p].version <= db.version
          /\ snapshot[p].version = db.version => snapshot[p] = db
      BY DEF StoreInv, SaveAccepted
    <2>2. /\ db' = Apply(snapshot[p], request[p].command)
          /\ db'.version - 1 = db.version
      BY <1>1, <2>1 DEF SaveAccepted
    <2>3. db' = snapshot[p] \/ db'.version = snapshot[p].version + 1
      BY <1>1, <2>2, ApplyVersion
    <2>4. QED
      BY <1>1, <2>1, <2>3
  <1> DEFINE S == DeriveEvents(db, db')
             more == SetToSeq(S)
  <1>4. log' = log \o more
    BY <1>3 DEF SaveAccepted
  <1>5. S \subseteq WorkflowEvent /\ IsFiniteSet(S)
    BY <1>2, EventTypes, EventsAreFinite
  <1> HIDE DEF S
  <1>6. more \in Seq(S) /\ Lists(more, S)
    BY <1>5, SetIsListed
  <1>7. more \in Seq(WorkflowEvent)
    BY <1>5, <1>6
  <1>8. QED
    BY <1>2, <1>4, <1>6, <1>7 DEF S

(* the inductive invariant of the log: the copy it leads to fits the row, *)
(* and knows no operation                                                  *)
LogInv ==
  LET created == ClientCopy(NewWorkflow)
  IN  /\ log \in Seq(WorkflowEvent)
      /\ Fits(Reduced(created, log), db)
      /\ \A o \in OpIds : Reduced(created, log).operations[o] = Unset

(* The log is of its type and leads to a copy that fits the row: what a    *)
(* save appends leads on from there.                                       *)
LEMMA LogInvariance == Spec => []LogInv
  <1> DEFINE created == ClientCopy(NewWorkflow)
  <1>0. /\ Fits(created, NewWorkflow)
        /\ \A o \in OpIds : created.operations[o] = Unset
    <2>1. NewWorkflow \in Workflow
      BY NewWorkflowInv DEF WorkflowInv
    <2>2. \A o \in OpIds : OperationStatus(NewWorkflow.operations[o]) = Unset
      BY DEF NewWorkflow, OperationStatus
    <2>3. QED
      BY <2>1, <2>2, SnapshotFits
  <1> HIDE DEF created
  <1>1. Init => LogInv
    <2> SUFFICES ASSUME Init PROVE LogInv
      OBVIOUS
    <2>1. db = NewWorkflow /\ log = << >> /\ Len(log) = 0
      BY DEF Init
    <2>2. Reduced(created, log) = created
      BY <2>1, CopiesStep DEF Reduced
    <2>3. log \in Seq(WorkflowEvent)
      BY <2>1
    <2>4. QED
      BY <1>0, <2>1, <2>2, <2>3 DEF LogInv, created
  <1>2. ASSUME StoreInv, WorkflowInv(db), LogInv, [Next]_vars
        PROVE  LogInv'
    <2>1. ASSUME NEW p \in Clients, SaveAccepted(p)
          PROVE  LogInv'
      <3>1. PICK more \in Seq(WorkflowEvent) :
              /\ log' = log \o more
              /\ Lists(more, DeriveEvents(db, db'))
        BY <1>2, <2>1, SaveIsTold
      <3>2. Tellable(db, db')
        BY <1>2, <2>1, SaveIsTold
      <3> DEFINE copy == Reduced(created, log)
                 next == Reduced(created, log')
      <3>3. /\ log \in Seq(WorkflowEvent) /\ Fits(copy, db)
            /\ \A o \in OpIds : copy.operations[o] = Unset
        BY <1>2 DEF LogInv, created
      <3>4. next = Reduced(copy, more)
        BY <3>1, <3>3, ReducedOnwards
      <3>5. log' \in Seq(WorkflowEvent) /\ Len(more) \in Nat
        BY <3>1, <3>3
      <3> HIDE DEF copy
      <3>6. /\ Fits(Reduced(copy, more), db')
            /\ \A o \in OpIds : Reduced(copy, more).operations[o] = Unset
        BY <3>1, <3>2, <3>3, <3>5, EventsTell
      <3>7. QED
        BY <3>4, <3>5, <3>6 DEF LogInv, created
    <2>2. CASE \A p \in Clients : ~SaveAccepted(p)
      <3>1. db' = db /\ log' = log
        BY <1>2, <2>2 DEF Next, Call, Lookup, Get, Save, SaveConflicts, SaveRejected, Crash,
                          durable, vars
      <3>2. QED
        BY <1>2, <3>1 DEF LogInv
    <2>3. QED
      BY <2>1, <2>2
  <1>3. QED
    BY <1>1, <1>2, StoreInvariance, RowInvariance, PTL DEF Spec

(* Whoever replays the log from the start shows the row: no save, conflict,*)
(* retry or crash leaves a change of the row untold or an event of a       *)
(* change that was rolled back.                                            *)
THEOREM LogTellsRow == Spec => []LogTellsWorkflow
  <1>1. ASSUME LogInv, WorkflowInv(db) PROVE LogTellsWorkflow
    <2> DEFINE created == ClientCopy(NewWorkflow)
    <2>1. /\ NewWorkflow \in Workflow
          /\ \A o \in OpIds : created.operations[o] = Unset
      <3>1. NewWorkflow \in Workflow
        BY NewWorkflowInv DEF WorkflowInv
      <3>2. \A o \in OpIds : OperationStatus(NewWorkflow.operations[o]) = Unset
        BY DEF NewWorkflow, OperationStatus
      <3>3. QED
        BY <3>1, <3>2, SnapshotFits
    <2> HIDE DEF created
    <2>2. Fits(Reduced(created, log), db) /\ db \in Workflow
      BY <1>1 DEF LogInv, WorkflowInv, created
    <2>3. Shown(created, Reduced(created, log)) = Shown(created, ClientCopy(db))
      BY <2>1, <2>2, FittingShows
    <2>4. QED
      BY <2>3 DEF LogTellsWorkflow, created
  <1>2. QED
    BY <1>1, LogInvariance, RowInvariance, PTL

(* The tables and the callers hold values of their types. *)
THEOREM StoreTypes == Spec => []TypeOK
  <1> DEFINE Sets == /\ recorded \subseteq Keys
                     /\ snapshot \in [Clients -> Workflow \cup {Unset}]
                     /\ attempt \in [Clients -> Nat]
                     /\ \A p \in Clients : pc[p] = "save" => snapshot[p] \in Workflow
  <1>1. Init => Sets
    BY DEF Init
  <1>2. ASSUME StoreInv, WorkflowInv(db), Sets, [Next]_vars
        PROVE  Sets'
    <2>0. db \in Workflow
      BY <1>2 DEF WorkflowInv
    <2>1. ASSUME NEW p \in Clients, NEW r \in RequestSet, Call(p, r)
          PROVE  Sets'
      BY <1>2, <2>1 DEF StoreInv, Call, Entry, durable
    <2>2. ASSUME NEW p \in Clients, Lookup(p)
          PROVE  Sets'
      BY <1>2, <2>2 DEF StoreInv, Lookup, Return, durable
    <2>3. ASSUME NEW p \in Clients, Get(p)
          PROVE  Sets'
      BY <1>2, <2>0, <2>3 DEF StoreInv, Get, durable
    <2>4. ASSUME NEW p \in Clients, SaveAccepted(p)
          PROVE  Sets'
      <3>1. /\ request[p] \in Request
            /\ recorded' = recorded \cup KeysOf(request[p], db')
        BY <1>2, <2>4, AcceptedIsCurrent, RequestSetAssumption DEF SaveAccepted
      <3>2. KeysOf(request[p], db') \subseteq Keys
        BY <3>1 DEF KeysOf, IsRestackRequest, Request, Command
      <3>3. /\ pc' = [pc EXCEPT ![p] = "idle"]
            /\ snapshot' = [snapshot EXCEPT ![p] = Unset]
            /\ attempt' = [attempt EXCEPT ![p] = 0]
        BY <2>4 DEF SaveAccepted, Return
      <3>4. QED
        BY <1>2, <3>1, <3>2, <3>3 DEF StoreInv
    <2>5. ASSUME NEW p \in Clients, SaveConflicts(p)
          PROVE  Sets'
      BY <1>2, <2>5 DEF StoreInv, SaveConflicts, Entry, durable
    <2>6. ASSUME NEW p \in Clients, SaveRejected(p)
          PROVE  Sets'
      BY <1>2, <2>6 DEF StoreInv, SaveRejected, Return, durable
    <2>7. CASE Crash
      BY <1>2, <2>7 DEF StoreInv, Crash, durable
    <2>8. CASE UNCHANGED vars
      BY <1>2, <2>8 DEF StoreInv, vars
    <2>9. QED
      BY <1>2, <2>1, <2>2, <2>3, <2>4, <2>5, <2>6, <2>7, <2>8 DEF Next, Save
  <1>3. StoreInv /\ WorkflowInv(db) /\ LogInv /\ Sets => TypeOK
    BY DEF StoreInv, WorkflowInv, LogInv, TypeOK
  <1> HIDE DEF Sets
  <1>4. QED
    BY <1>1, <1>2, <1>3, StoreInvariance, RowInvariance, LogInvariance, PTL DEF Spec
=============================================================================
