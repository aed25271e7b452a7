-------------------------- MODULE MCAtomicWorkflow --------------------------
(***************************************************************************)
(* Instances of AtomicWorkflow for TLC.                                    *)
(***************************************************************************)
EXTENDS AtomicWorkflow, TLC

CONSTANTS parent, child, s1, s2, r1, op1, op2, k1, k2,
          LifecycleVersions,   \* the versions of the scene "lifecycle" (a bound)
          RestackVersions      \* and those of the scene "restack"

VARIABLE scene    \* what the behaviour is about; it never changes

Chain == parent :> {} @@ child :> {parent}

Cmd(kind, task) ==
  [kind |-> kind, taskId |-> task, expectedVersion |-> Unset,
   expectedSessionId |-> Unset, sessionId |-> Unset,
   providerSessionRef |-> Unset, artifacts |-> {}, passed |-> TRUE]

(* every kind of transition, with the arguments that make a difference *)
TransitionCommandsOf(task) ==
       {Cmd(kind, task) : kind \in TransitionKinds}
  \cup {[Cmd("mark-running", task) EXCEPT !.sessionId = s] : s \in Sessions}
  \cup {[Cmd("update-run", task) EXCEPT !.providerSessionRef = r] : r \in Refs}
  \cup {[Cmd("complete-quality-gate", task) EXCEPT !.passed = FALSE]}
  \cup {[Cmd(kind, task) EXCEPT !.artifacts = Artifacts] :
          kind \in {k \in TransitionKinds : AppendsArtifacts(k)}}
  \cup {[Cmd(kind, task) EXCEPT !.expectedSessionId = s] :
          kind \in {"complete-runtime", "recover-task"}, s \in Sessions}
  \cup {[Cmd("mark-ready", task) EXCEPT !.expectedVersion = v] : v \in {1, 2}}

TransitionCommands(tasks) ==
  {[kind |-> "transition-task", transition |-> c] :
     c \in UNION {TransitionCommandsOf(t) : t \in tasks}}

KeyOf(op) == IF op = op1 THEN k1 ELSE k2

(* an operation id is used with one key *)
RestackCommands ==
       {[kind |-> "request-restack", operationId |-> o, ancestorId |-> parent,
         idempotencyKey |-> KeyOf(o)] : o \in OpIds}
  \cup {[kind |-> kind, operationId |-> o] :
          kind \in {"start-restack", "mark-restack-conflict"}, o \in OpIds}
  \cup {[kind |-> "complete-restack", operationId |-> o,
         artifactsByTaskId |-> [t \in Tasks |-> arts]] :
          o \in OpIds, arts \in {{}, Artifacts}}

AllCommands == TransitionCommands(Tasks) \cup RestackCommands

(* Two scenes keep the instance small.  In "lifecycle" both tasks make     *)
(* every transition and nothing is restacked.  In "restack" two restacks   *)
(* of the parent overlap in every way while the child goes through the     *)
(* part of its life that restacks touch.                                   *)
InScene ==
  \/ /\ scene = "lifecycle"
     /\ Requested(wf) = {}
     /\ wf.version \in LifecycleVersions
  \/ /\ scene = "restack"
     /\ wf.graph[parent].executionStatus = "pending"
     /\ wf.graph[child].executionStatus \in
          {"pending", "ready", "running", "completed", "needs-review"}
     /\ wf.version \in RestackVersions
     /\ \A i \in DOMAIN wf.graph[child].runs :
          /\ wf.graph[child].runs[i].providerSessionRef = Unset
          /\ wf.graph[child].runs[i].runtimeSessionId = s1

MCInit == Init /\ scene \in {"lifecycle", "restack"}
MCNext == Next /\ UNCHANGED scene /\ InScene'
MCSpec == MCInit /\ [][MCNext]_<<wf, scene>>
=============================================================================
