--------------------------- MODULE SnapshotReducer ---------------------------
(***************************************************************************)
(* The copy of a workflow a browser keeps and the reducer that applies the *)
(* durable events to it (web/src/transport/snapshotCache.ts).  The copy    *)
(* here has the fields the reducer maintains: the status, and of each task *)
(* the two statuses, the version and the runs, and the status of the       *)
(* operations it knows.                                                    *)
(***************************************************************************)
EXTENDS Commands

ClientRuns(runs) ==
  [i \in DOMAIN runs |-> [runtimeSessionId |-> runs[i].runtimeSessionId,
                          terminalReason |-> runs[i].terminalReason]]

(* what a fetched snapshot of w holds of these fields *)
ClientCopy(w) ==
  [status |-> w.status,
   graph |-> [t \in Tasks |->
               [executionStatus |-> w.graph[t].executionStatus,
                stackStatus |-> w.graph[t].stackStatus,
                version |-> w.graph[t].version,
                runs |-> ClientRuns(w.graph[t].runs)]],
   operations |-> [o \in OpIds |-> OperationStatus(w.operations[o])]]

ApplyTaskTransitioned(copy, e) ==
  IF copy.graph[e.taskId].version > e.taskVersion THEN copy
  ELSE [copy EXCEPT !.graph[e.taskId] =
          [@ EXCEPT !.executionStatus = e.toExecutionStatus,
                    !.stackStatus = e.toStackStatus,
                    !.version = e.taskVersion]]

(* a run is known by its id, that is by its attempt *)
ApplyRunStarted(copy, e) ==
  IF e.attempt \in DOMAIN copy.graph[e.taskId].runs THEN copy
  ELSE [copy EXCEPT !.graph[e.taskId].runs =
          Append(@, [runtimeSessionId |-> e.runtimeSessionId,
                     terminalReason |-> Unset])]

ApplyRunEnded(copy, e) ==
  IF e.attempt \notin DOMAIN copy.graph[e.taskId].runs THEN copy
  ELSE [copy EXCEPT !.graph[e.taskId].runs[e.attempt].terminalReason =
          e.terminalReason]

(* an operation the copy does not know is not added *)
ApplyOperationChanged(copy, e) ==
  IF copy.operations[e.operationId] = Unset THEN copy
  ELSE [copy EXCEPT !.operations[e.operationId] = e.toStatus]

ApplyWorkflowEvent(copy, e) ==
  CASE e.kind = "workflow-status-changed" -> [copy EXCEPT !.status = e.toStatus]
    [] e.kind = "task-transitioned"       -> ApplyTaskTransitioned(copy, e)
    [] e.kind = "run-started"             -> ApplyRunStarted(copy, e)
    [] e.kind = "run-ended"               -> ApplyRunEnded(copy, e)
    [] e.kind = "graph-operation-changed" -> ApplyOperationChanged(copy, e)

(* the copies a browser has after 0, 1, ... of the events *)
Copies(copy, events) ==
  LET after[n \in 0 .. Len(events)] ==
        IF n = 0 THEN copy ELSE ApplyWorkflowEvent(after[n - 1], events[n])
  IN  after

(* the copy it has when it has applied them all *)
Reduced(copy, events) == Copies(copy, events)[Len(events)]

(* What a browser shows of its copy when it began with first.  The version *)
(* of a task may move without an event, and an operation that the first    *)
(* copy does not have is not added to it.                                  *)
Shown(first, copy) ==
  [status |-> copy.status,
   graph |-> [t \in Tasks |-> <<copy.graph[t].executionStatus,
                                copy.graph[t].stackStatus,
                                copy.graph[t].runs>>],
   operations |-> [o \in OpIds |-> IF first.operations[o] = Unset THEN Unset
                                   ELSE copy.operations[o]]]
=============================================================================
