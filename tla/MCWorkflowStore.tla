--------------------------- MODULE MCWorkflowStore ---------------------------
(***************************************************************************)
(* Instances of WorkflowStore for TLC.                                     *)
(***************************************************************************)
EXTENDS WorkflowStore, TLC

CONSTANTS parent, child, s1, s2, op1, op2, k1, k2, kr,
          RestackVersions   \* the versions of the scene "restacks" (a bound)

VARIABLE scene    \* what the behaviour is about; it never changes

Chain == parent :> {} @@ child :> {parent}

Move(kind, task) ==
  [kind |-> "transition-task",
   transition |-> [kind |-> kind, taskId |-> task, expectedVersion |-> Unset,
                   expectedSessionId |-> Unset, sessionId |-> Unset,
                   providerSessionRef |-> Unset, artifacts |-> {},
                   passed |-> TRUE]]

Once(c) == [command |-> c, recoveryKey |-> Unset, attempts |-> 1]

Started(session) ==
  Once([Move("mark-running", parent) EXCEPT !.transition.sessionId = session])

(* dispatchWithRetry of the orchestrator that watches the session *)
Watched(kind, session) ==
  [Once([Move(kind, parent) EXCEPT !.transition.expectedSessionId = session])
     EXCEPT !.attempts = 3]

(* recovery of the task, with the idempotency record of its plan *)
Recovered(kind) == [Once(Move(kind, parent)) EXCEPT !.recoveryKey = kr]

Restack(op, key) ==
  Once([kind |-> "request-restack", operationId |-> op, ancestorId |-> parent,
        idempotencyKey |-> key])

Step(kind, op) == Once([kind |-> kind, operationId |-> op])

(* one run replaces another under an orchestrator that is late *)
RunRequests ==
  {Once(Move("mark-ready", parent)), Started(s1), Started(s2),
   Watched("complete-runtime", s1), Watched("complete-runtime", s2),
   Recovered("recover-task")}

(* restacks asked for twice, and an id asked for with two keys *)
RestackRequests ==
  {Restack(op1, k1), Restack(op1, k2), Restack(op2, k1),
   Step("start-restack", op1), Step("mark-restack-conflict", op1),
   Once(Move("mark-ready", parent))}

AllRequests == RunRequests \cup RestackRequests

(* two scenes keep the instance small: the calls are about one of the two *)
InScene ==
  \/ /\ scene = "runs"
     /\ \A p \in Clients : request[p] \in RunRequests \cup {Unset}
  \/ /\ scene = "restacks"
     /\ \A p \in Clients : request[p] \in RestackRequests \cup {Unset}

(* the bound on the second scene is on the calls that are started *)
Starts == \E p \in Clients : pc[p] = "idle" /\ pc'[p] # "idle"

MCInit == Init /\ scene \in {"runs", "restacks"}
MCNext ==
  /\ Next
  /\ UNCHANGED scene
  /\ InScene'
  /\ scene = "restacks" /\ Starts => db.version \in RestackVersions
MCSpec == MCInit /\ [][MCNext]_<<vars, scene>> /\ Fairness
=============================================================================
