------------------------------- MODULE Services -------------------------------
(***************************************************************************)
(* How the engine's services come to follow a workflow: attach() reads     *)
(* what is there and subscribes to what comes.  startEngine() attaches     *)
(* them one after the other, POST /workflows all at once; the push         *)
(* service, the last reader of the events, tells browsers of them.         *)
(*                                                                         *)
(* One workflow with one task.  An event of its log is the status that the *)
(* task comes to; the events nobody acts on are left out.  The hub that    *)
(* hands them out is modelled in SubscriberHub.tla: here it gives each     *)
(* subscriber the events after a cursor, in order, or breaks off.          *)
(***************************************************************************)
EXTENDS Naturals, Sequences, FiniteSets

CONSTANTS Endpoints,
          MaxEvents, MaxFaults, MaxRestarts   \* bounds

(* read the cursor, then the workflow: scheduler-service, quality-gate-    *)
(* service, local-finalize-service and completion-dispatcher; the          *)
(* babysitter does it the other way round; two follow only what comes      *)
CursorFirst == {"scheduler", "gate", "dispatcher"}
GraphFirst  == {"babysitter"}
TailOnly    == {"push", "observability"}
Service == CursorFirst \cup GraphFirst \cup TailOnly

VARIABLES
  service,          \* the service the behaviour is about: they share nothing but the log
  exists, log,      \* the workflow; the statuses its task has come to
  at,               \* its entry in activeIterators, and what it knows
  booting,          \* startEngine() has yet to attach it
  subs,             \* push_subscriptions
  sending,          \* the push under way
  pushed,           \* pushed[e]: the last event that was pushed to e
  before,           \* where the log was when the engine started
  faults, restarts

vars == <<service, exists, log, at, booting, subs, sending, pushed, before, faults, restarts>>

(* an entry: its place in the log, the graph it has read, the status it knows *)
Entry(stage, cursor, graph, knows) ==
  [stage |-> stage, cursor |-> cursor, graph |-> graph, knows |-> knows]

Off == Entry("off", 0, "none", "none")
Idle == [cursor |-> 0, to |-> {}]

Statuses == {"running", "completed", "pr-open", "merged"}
Terminal == {"completed", "pr-open", "merged"}    \* TASK_TERMINAL_EXECUTION_STATUSES

StatusAfter(n) == IF n = 0 THEN "ready" ELSE log[n]
Status == StatusAfter(Len(log))

Init ==
  /\ service \in Service /\ exists = FALSE /\ log = << >> /\ at = Off /\ booting = FALSE
  /\ subs = {} /\ sending = Idle /\ pushed = [e \in Endpoints |-> 0] /\ before = 0
  /\ faults = 0 /\ restarts = 0

Fails == faults < MaxFaults /\ faults' = faults + 1
-----------------------------------------------------------------------------
(* the workflow that is read, if it is there *)
GraphRead == IF exists THEN Status ELSE "gone"

(* a slip: the push service reads the log from its start *)
AttachedFromStart ==
  IF at.stage # "off" THEN at
  ELSE CASE service \in CursorFirst -> Entry("cursor", Len(log), "none", "none")
         [] service \in GraphFirst -> Entry("graph", 0, GraphRead, "none")
         [] service \in TailOnly -> Entry("tailOnly", 0, "none", "none")

(* attach(): the placeholder is set, and the first read is made at once *)
Attached ==
  IF at.stage # "off" THEN at
  ELSE CASE service \in CursorFirst -> Entry("cursor", Len(log), "none", "none")
         [] service \in GraphFirst -> Entry("graph", 0, GraphRead, "none")
         [] service \in TailOnly -> Entry("tailOnly", Len(log), "none", "none")

(* the second read of the first kind *)
ReadGraph ==
  /\ at.stage = "cursor"
  /\ at' = Entry("graph", at.cursor, GraphRead, "none")
  /\ UNCHANGED <<service, exists, log, booting, subs, sending, pushed, before, faults, restarts>>

(* the scan of the graph, and consume(): the babysitter reads the cursor now *)
Scanned(cursor) ==
  IF at.graph = "gone" THEN Off
  ELSE Entry("tail", cursor, "none", at.graph)

(* a slip: all read the cursor when they have the graph *)
ScanLate ==
  /\ at.stage = "graph"
  /\ at' = Scanned(Len(log))
  /\ UNCHANGED <<service, exists, log, booting, subs, sending, pushed, before, faults, restarts>>

Scan ==
  /\ at.stage = "graph"
  /\ at' = Scanned(IF service \in CursorFirst THEN at.cursor ELSE Len(log))
  /\ UNCHANGED <<service, exists, log, booting, subs, sending, pushed, before, faults, restarts>>

(* consume() of those that make no scan *)
Subscribe ==
  /\ at.stage = "tailOnly" /\ at' = Entry("tail", at.cursor, "none", "none")
  /\ UNCHANGED <<service, exists, log, booting, subs, sending, pushed, before, faults, restarts>>

(* the next event; the push service sends it before it takes another *)
Busy == service = "push" /\ sending # Idle

Consume ==
  /\ at.stage = "tail" /\ at.cursor < Len(log) /\ ~Busy
  /\ LET n == at.cursor + 1
     IN  /\ at' = Entry("tail", n, "none", log[n])
         /\ sending' = IF service = "push" /\ log[n] \in Terminal /\ subs # {}
                       THEN [cursor |-> n, to |-> subs] ELSE sending
  /\ UNCHANGED <<service, exists, log, booting, subs, pushed, before, faults, restarts>>

(* the hub has broken off: the service has forgotten that it was attached *)
ConsumeFails ==
  /\ at.stage = "tail" /\ at.cursor < Len(log) /\ ~Busy /\ Fails
  /\ at' = Off
  /\ UNCHANGED <<service, exists, log, booting, subs, sending, pushed, before, restarts>>

(* trySend(): a subscription that is gone is removed, other failures are logged *)
TrySend(e) ==
  /\ e \in sending.to
  /\ sending' = IF sending.to = {e} THEN Idle ELSE [cursor |-> sending.cursor, to |-> sending.to \ {e}]
  /\ \/ pushed' = [pushed EXCEPT ![e] = sending.cursor] /\ UNCHANGED <<subs, faults>>
     \/ Fails /\ UNCHANGED <<subs, pushed>>
     \/ Fails /\ subs' = subs \ {e} /\ UNCHANGED pushed
  /\ UNCHANGED <<service, exists, log, at, booting, before, restarts>>
-----------------------------------------------------------------------------
(* the engine and its interface *)
Transition(to) ==
  /\ exists /\ Len(log) < MaxEvents /\ to # Status
  /\ log' = Append(log, to)
  /\ UNCHANGED <<service, exists, at, booting, subs, sending, pushed, before, faults, restarts>>

PostWorkflow ==
  /\ ~booting /\ ~exists /\ log = << >>
  /\ exists' = TRUE /\ at' = Attached
  /\ UNCHANGED <<service, log, booting, subs, sending, pushed, before, faults, restarts>>

DeleteWorkflow ==
  /\ ~booting /\ exists /\ Len(log) > 0 /\ exists' = FALSE
  /\ UNCHANGED <<service, log, at, booting, subs, sending, pushed, before, faults, restarts>>

PushSubscribe(e) ==
  /\ ~booting /\ exists /\ e \notin subs /\ subs' = subs \cup {e}
  /\ at' = IF service = "push" THEN Attached ELSE at
  /\ UNCHANGED <<service, exists, log, booting, sending, pushed, before, faults, restarts>>

PushUnsubscribe(e) ==
  /\ ~booting /\ e \in subs /\ subs' = subs \ {e}
  /\ UNCHANGED <<service, exists, log, at, booting, sending, pushed, before, faults, restarts>>

Restart ==
  /\ restarts < MaxRestarts /\ restarts' = restarts + 1
  /\ at' = Off /\ sending' = Idle /\ booting' = TRUE
  /\ before' = Len(log)
  /\ UNCHANGED <<service, exists, log, subs, pushed, faults>>

(* listRecoverable(): workflows not completed; the push service is also    *)
(* attached to what is subscribed to, the gate to what has a completed     *)
(* task, observability to all                                              *)
Recoverable == exists /\ Status \notin Terminal

Follows ==
  CASE service = "push" -> Recoverable \/ subs # {}
    [] service = "gate" -> Recoverable \/ (exists /\ Status = "completed")
    [] service = "observability" -> exists
    [] OTHER -> Recoverable

BootAttach ==
  /\ booting /\ booting' = FALSE
  /\ at' = IF Follows THEN Attached ELSE at
  /\ UNCHANGED <<service, exists, log, subs, sending, pushed, before, faults, restarts>>

ServiceStep == ReadGraph \/ Scan \/ Subscribe \/ Consume

Next ==
  \/ ServiceStep \/ ConsumeFails
  \/ \E e \in Endpoints : TrySend(e) \/ PushSubscribe(e) \/ PushUnsubscribe(e)
  \/ \E to \in Statuses : Transition(to)
  \/ PostWorkflow \/ DeleteWorkflow \/ Restart \/ BootAttach

Spec == Init /\ [][Next]_vars
-----------------------------------------------------------------------------
(* Between its look at the graph and its place in the log a service misses *)
(* no transition: when it has taken all the events it knows the status.    *)
(* Not so the babysitter.                                                  *)
ScanMeetsTail ==
  service \in CursorFirst /\ at.stage = "tail" /\ at.cursor = Len(log) => at.knows = Status

(* What push-service.ts says of itself: "historic terminal events do not   *)
(* re-notify on engine restart".  Nor does an event notify twice, or after *)
(* a later one.                                                            *)
HistoryIsNotPushed ==
  [][\A e \in Endpoints :
       pushed'[e] # pushed[e] => pushed'[e] > pushed[e] /\ pushed'[e] > before]_vars
===============================================================================
