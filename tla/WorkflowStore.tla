---------------------------- MODULE WorkflowStore ----------------------------
(***************************************************************************)
(* The durable workflow behind applyCommand (application/commands.ts and   *)
(* persistence/sqlite-repo.ts).                                            *)
(*                                                                         *)
(* A command awaits the repository two or three times: it looks up its     *)
(* idempotency key (request-restack only), gets the workflow, and then, in *)
(* one turn of the event loop, applies its rule to that copy and saves the *)
(* result in one SQLite transaction.  Between these steps any other        *)
(* command of this process or of a second process on the same database     *)
(* takes its own.  The transaction compares versions, stamps the events    *)
(* with the next cursors and inserts the idempotency records, or rolls     *)
(* back.  A crash loses the commands in progress and keeps the database.   *)
(***************************************************************************)
EXTENDS SnapshotReducer, SequencesExt

CONSTANTS Clients,       \* concurrent callers of applyCommand
          RequestSet,    \* the calls they make
          BusyVersions   \* the versions at which a call is still started (a bound)

(* One call: the command, the recovery idempotency record that goes with   *)
(* it, and how often a version conflict is tried again in all: 3 for the   *)
(* calls of RunOrchestrator.dispatchWithRetry, 1 for every other caller.   *)
Request == [command: Command, recoveryKey: Keys \cup {Unset}, attempts: Nat \ {0}]

ASSUME RequestSetAssumption == RequestSet \subseteq Request
ASSUME BusyVersionsAssumption == BusyVersions \subseteq Nat

VARIABLES db,         \* the workflow row
          log,        \* the events table: the event with cursor i is log[i]
          recorded,   \* the keys in the idempotency table
          pc,         \* pc[p]: what caller p does next
          request,    \* request[p]: its call
          snapshot,   \* snapshot[p]: the copy of the workflow it got
          attempt     \* attempt[p]: how often it has started to get and save

vars == <<db, log, recorded, pc, request, snapshot, attempt>>
durable == <<db, log, recorded>>

Init ==
  /\ db = NewWorkflow
  /\ log = << >>
  /\ recorded = {}
  /\ pc = [p \in Clients |-> "idle"]
  /\ request = [p \in Clients |-> Unset]
  /\ snapshot = [p \in Clients |-> Unset]
  /\ attempt = [p \in Clients |-> 0]

IsRestackRequest(r) == r.command.kind = "request-restack"

(* where a call starts, and starts again *)
Entry(r) == IF IsRestackRequest(r) THEN "lookup" ELSE "get"

Call(p, r) ==
  /\ pc[p] = "idle"
  /\ db.version \in BusyVersions
  /\ pc' = [pc EXCEPT ![p] = Entry(r)]
  /\ request' = [request EXCEPT ![p] = r]
  /\ attempt' = [attempt EXCEPT ![p] = 1]
  /\ UNCHANGED <<durable, snapshot>>

(* the caller has its answer, a result or an error, and forgets the call *)
Return(p) ==
  /\ pc' = [pc EXCEPT ![p] = "idle"]
  /\ request' = [request EXCEPT ![p] = Unset]
  /\ snapshot' = [snapshot EXCEPT ![p] = Unset]
  /\ attempt' = [attempt EXCEPT ![p] = 0]

(* a slip: whoever finds its key recorded waits for it to go away *)
LookupUnrecorded(p) ==
  /\ pc[p] = "lookup"
  /\ request[p].command.idempotencyKey \notin recorded
  /\ pc' = [pc EXCEPT ![p] = "get"]
  /\ UNCHANGED <<durable, request, snapshot, attempt>>

(* lookupIdempotency: a known key is answered without a save *)
Lookup(p) ==
  /\ pc[p] = "lookup"
  /\ UNCHANGED durable
  /\ IF request[p].command.idempotencyKey \in recorded
     THEN Return(p)
     ELSE /\ pc' = [pc EXCEPT ![p] = "get"]
          /\ UNCHANGED <<request, snapshot, attempt>>

Get(p) ==
  /\ pc[p] = "get"
  /\ pc' = [pc EXCEPT ![p] = "save"]
  /\ snapshot' = [snapshot EXCEPT ![p] = db]
  /\ UNCHANGED <<durable, request, attempt>>

(* a slip: the key of a restack is not recorded *)
KeysOfRecovery(r, next) == {r.recoveryKey} \ {Unset}

(* the idempotency records that are saved with the next workflow *)
KeysOf(r, next) ==
  LET c == r.command
  IN  (IF IsRestackRequest(r) /\ next.operations[c.operationId] # Unset
       THEN {c.idempotencyKey} ELSE {})
      \cup ({r.recoveryKey} \ {Unset})

(* a slip: the version is not compared *)
SaveOutcomeUnversioned(r, next) ==
  IF KeysOf(r, next) \cap recorded # {} THEN "idempotency_collision" ELSE "ok"

(* txSave: "ok", or the code of the error that rolls it back *)
SaveOutcome(r, next) ==
  IF db.version # next.version - 1 THEN "version_conflict"
  ELSE IF KeysOf(r, next) \cap recorded # {} THEN "idempotency_collision"
  ELSE "ok"

(* the outcome of applying the rule to the copy and saving the result *)
CallOutcome(p) ==
  LET c == request[p].command
  IN  IF Outcome(snapshot[p], c) # "ok" THEN Outcome(snapshot[p], c)
      ELSE SaveOutcome(request[p], Apply(snapshot[p], c))

SaveAccepted(p) ==
  LET next == Apply(snapshot[p], request[p].command)
  IN  /\ pc[p] = "save"
      /\ CallOutcome(p) = "ok"
      /\ db' = next
      /\ log' = log \o SetToSeq(DeriveEvents(snapshot[p], next))
      /\ recorded' = recorded \cup KeysOf(request[p], next)
      /\ Return(p)

MayRetry(p) ==
  /\ CallOutcome(p) = "version_conflict"
  /\ attempt[p] < request[p].attempts

(* dispatchWithRetry waits and calls again: a transition starts at its get *)
SaveConflicts(p) ==
  /\ pc[p] = "save"
  /\ MayRetry(p)
  /\ pc' = [pc EXCEPT ![p] = Entry(request[p])]
  /\ snapshot' = [snapshot EXCEPT ![p] = Unset]
  /\ attempt' = [attempt EXCEPT ![p] = @ + 1]
  /\ UNCHANGED <<durable, request>>

SaveRejected(p) ==
  /\ pc[p] = "save"
  /\ CallOutcome(p) # "ok"
  /\ ~MayRetry(p)
  /\ UNCHANGED durable
  /\ Return(p)

Save(p) == SaveAccepted(p) \/ SaveConflicts(p) \/ SaveRejected(p)

(* the process dies: what was not saved is lost *)
Crash ==
  /\ \E p \in Clients : pc[p] # "idle"
  /\ pc' = [p \in Clients |-> "idle"]
  /\ request' = [p \in Clients |-> Unset]
  /\ snapshot' = [p \in Clients |-> Unset]
  /\ attempt' = [p \in Clients |-> 0]
  /\ UNCHANGED durable

Next ==
  \/ \E p \in Clients : \/ \E r \in RequestSet : Call(p, r)
                        \/ Lookup(p)
                        \/ Get(p)
                        \/ Save(p)
  \/ Crash

(* the event loop runs every continuation that is ready *)
Fairness == \A p \in Clients : WF_vars(Lookup(p) \/ Get(p) \/ Save(p))

Spec == Init /\ [][Next]_vars
FairSpec == Spec /\ Fairness
-----------------------------------------------------------------------------
(* The tables and the callers hold values of their types. *)
TypeOK ==
  /\ db \in Workflow
  /\ log \in Seq(WorkflowEvent)
  /\ recorded \subseteq Keys
  /\ pc \in [Clients -> {"idle", "lookup", "get", "save"}]
  /\ request \in [Clients -> RequestSet \cup {Unset}]
  /\ snapshot \in [Clients -> Workflow \cup {Unset}]
  /\ attempt \in [Clients -> Nat]
  /\ \A p \in Clients : /\ pc[p] # "idle" => request[p] \in RequestSet
                        /\ pc[p] = "save" => snapshot[p] \in Workflow

(* A copy is never ahead of the row, and a copy of the row's version is    *)
(* the row.  The version check of txSave rests on it: comparing versions   *)
(* is comparing workflows.                                                 *)
VersionNamesWorkflow ==
  \A p \in Clients :
    pc[p] = "save" => /\ snapshot[p].version <= db.version
                      /\ snapshot[p].version = db.version => snapshot[p] = db

(* Whatever calls overlap, conflict, are tried again or are lost, the row  *)
(* goes through a history of whole commands applied one at a time to the   *)
(* current workflow: no update is lost and none is applied to stale state. *)
Atomic == INSTANCE AtomicWorkflow
            WITH wf <- db,
                 CommandSet <- {r.command : r \in RequestSet},
                 BusyVersions <- Nat
CommandsAreAtomic == Atomic!Spec

(* A restack key stands for one operation: the key of every operation in   *)
(* the workflow is recorded and no other operation has it.  Two requests   *)
(* with one key that both miss the lookup make one operation.              *)
OneOperationPerKey ==
  \A o \in Requested(db) :
    LET key == db.operations[o].idempotencyKey
    IN  /\ key \in recorded
        /\ \A q \in Requested(db) : db.operations[q].idempotencyKey = key => q = o

(* The events in the log, applied in order by a browser to the workflow as *)
(* it was created, give the stored workflow: a client that resumes from    *)
(* any cursor it has reached misses nothing and is told nothing that did   *)
(* not happen, because events and workflow are saved in one transaction.   *)
LogTellsWorkflow ==
  LET created == ClientCopy(NewWorkflow)
  IN  Shown(created, Reduced(created, log)) = Shown(created, ClientCopy(db))

(* A command fenced with a session changes the task only while that        *)
(* session is the one of the task's last run: an orchestrator whose run    *)
(* was recovered and replaced between its get and its save, or before,     *)
(* cannot end or patch the run of its successor.                           *)
FencedBySession ==
  [][\A p \in Clients :
       LET c == request[p].command.transition
       IN  /\ pc[p] = "save"
           /\ request[p].command.kind = "transition-task"
           /\ c.expectedSessionId # Unset
           /\ db' # db
           /\ pc'[p] = "idle"
           => LastOf(db.graph[c.taskId].runs).runtimeSessionId
                = c.expectedSessionId]_vars

(* Every call is answered: no caller waits for another, and a conflict is  *)
(* tried again a bounded number of times.                                  *)
EveryCallReturns == \A p \in Clients : pc[p] # "idle" ~> pc[p] = "idle"
=============================================================================
