------------------------------- MODULE MCClients ------------------------------
(***************************************************************************)
(* Instances, for TLC, of the modules of what is on a user's side of the   *)
(* HTTP API, and of the fan-out that feeds it: SubscriberHub,              *)
(* ClientConnection, Transcript, TaskPanel, Planning, PullToRefresh,       *)
(* DragToDismiss and EnginePage.  They share no state: a behaviour is      *)
(* about one of them, the others rest.                                     *)
(***************************************************************************)
EXTENDS Integers, SequencesExt, FiniteSetsExt, TLC

CONSTANTS Unset, w1, t1, f1, f2,
          Workflows, Tasks, Fetches,
          Subscribers, BufferCap, WireCap, MaxCursor,   \* of SubscriberHub
          MaxBatch, MaxLosses,
          MaxEvents, MaxFaults,     \* bounds: of several modules
          MaxAttaches,              \* of ClientConnection
          MaxRuns, MaxSaid, MaxSeeds,   \* of Transcript
          MaxMoves, MaxClicks,      \* of TaskPanel
          MaxRoutes                 \* of EnginePage

VARIABLES
  part,    \* what the behaviour is about; it never changes
  (* SubscriberHub *)
  latest, stage, buffer, replay, lastYielded, aborted, wire, received, losses,
  (* ClientConnection *)
  head, shown, snapshot, current, attached, init, stream, fetch, posted, deleting, overtaken,
  (* Transcript *)
  runs, said, speaking, panel, feed, sent, seeds, events,
  (* TaskPanel *)
  status, clean, view, onShow, asked, answered, replyError, retryFor, loading, retryError, moves,
  clicks,
  (* Planning *)
  form, spec, planned, created, refusal, submits,
  (* PullToRefresh and DragToDismiss *)
  reduced, touching, pointerId, engaged, currentOffset, frame, snap, mounted, presses,
  refreshing, work, state, enabled, fast, panelState, dismissals,
  (* EnginePage *)
  history, subscribed, route, routeGen, loads, board, transcript, es, box, replies, list, error,
  push, asking, routes,
  (* of several *)
  faults

hubVars        == <<latest, stage, buffer, replay, lastYielded, aborted, wire, received, losses>>
connectionVars == <<head, shown, snapshot, current, attached, init, stream, fetch, posted,
                    deleting, overtaken>>
transcriptVars == <<runs, said, speaking, panel, feed, sent, seeds, events>>
panelVars      == <<status, clean, view, onShow, asked, answered, replyError, retryFor, loading,
                    retryError, moves, clicks>>
planningVars   == <<form, spec, planned, created, refusal, submits>>
hands          == <<reduced, touching, pointerId, engaged, currentOffset, frame, snap, mounted,
                    presses>>
pullVars       == <<refreshing, work, state>>
dragVars       == <<enabled, fast, panelState, dismissals>>
pageVars       == <<history, subscribed, route, routeGen, loads, board, transcript, es, box,
                    replies, list, error, push, asking, routes>>
all == <<part, hubVars, connectionVars, transcriptVars, panelVars, planningVars, hands, pullVars,
         dragVars, pageVars, faults>>

(* plans of up to three tasks: every graph on them, and some that are none *)
PlannedTask(id, deps) == [id |-> id, dependsOn |-> SetToSeq(deps), whole |-> TRUE]

Graphs(ids) ==
  {[kind |-> "manual-dag", tasks |-> [i \in DOMAIN ids |-> PlannedTask(ids[i], graph[i])]] :
     graph \in [DOMAIN ids -> SUBSET ToSet(ids)]}

ThePlans ==
  Graphs(<<"a">>) \cup Graphs(<<"a", "b">>) \cup Graphs(<<"a", "b", "c">>) \cup
  {[kind |-> "ship", tasks |-> <<PlannedTask("a", {})>>],
   [kind |-> "manual-dag", tasks |-> << >>],
   [kind |-> "manual-dag", tasks |-> <<PlannedTask("a", {}), PlannedTask("a", {})>>],
   [kind |-> "single-task", tasks |-> <<PlannedTask("a", {"x"})>>],
   [kind |-> "single-task", tasks |-> <<[PlannedTask("a", {}) EXCEPT !.whole = FALSE]>>]}

H == INSTANCE SubscriberHub

C == INSTANCE ClientConnection

T == INSTANCE Transcript WITH stream <- feed, wire <- sent

B == INSTANCE TaskPanel WITH FirstTask <- t1

N == INSTANCE Planning WITH Plans <- ThePlans, MaxSubmits <- 1, stage <- form

R == INSTANCE PullToRefresh WITH Fingers <- {f1, f2}, MaxPulls <- 3, pulls <- presses

D == INSTANCE DragToDismiss WITH Fingers <- {f1, f2}, MaxPresses <- 2, state <- panelState

E == INSTANCE EnginePage WITH shown <- board, posted <- replies

ASSUME HubBounds == H!BoundsAssumption
-----------------------------------------------------------------------------
Parts == {"hub", "streams", "posts", "deletes", "transcript", "panel", "planning", "pull", "drag",
          "page"}

OnConnection == part \in {"streams", "posts", "deletes"}

Rests(p, predicate) == part # p => predicate

Init ==
  /\ part \in Parts
  /\ H!Init
  /\ C!Init /\ DOMAIN head = IF part = "posts" THEN {} ELSE {w1}
  /\ ~OnConnection => snapshot = Unset
  /\ T!Init /\ panel.task = t1
  /\ B!Init /\ Rests("panel", status[t1] = "failed")
  /\ status[t1] \in {"failed", "running"} /\ \A t \in Tasks \ {t1} : status[t] = "failed"
  /\ \A t \in Tasks : clean[t]
  /\ N!Init
  /\ R!Init /\ D!Init /\ (part \notin {"pull", "drag"} => reduced)
  /\ E!Init /\ \A w \in Workflows : history[w] = <<"running">>

(* Three kinds of interleavings of ClientConnection: streams that break    *)
(* while attachments come and go; workflows that are created while a list  *)
(* is asked for; workflows that are deleted meanwhile.                     *)
Asks(for) ==
  \E f \in Fetches : /\ fetch'[f].stage = "asked" /\ fetch[f].stage # "asked"
                     /\ fetch'[f].for = for

ConnectionBounds ==
  /\ \A f, g \in Fetches :
       g < f /\ fetch'[f].stage # "idle" => fetch[f].stage # "idle" \/ fetch[g].stage # "idle"
  /\ part = "streams" => /\ ~Asks("user") /\ posted' = {} /\ deleting' = {}
                         /\ attached' + faults' + head'[w1] <= 5
  /\ part = "posts"   => /\ Asks("user") => posted # {}
                         /\ deleting' = {} /\ current' = 1 /\ DOMAIN head' \subseteq {w1}
  /\ part = "deletes" => ~Asks("user") /\ posted' = {}
  /\ part # "streams" => /\ faults' = 0 /\ attached' = 1
                         /\ \A w \in DOMAIN head' : head'[w] <= 1

(* Five things happen to the engine's page: at most two events, and a      *)
(* subscription is asked for, or a reply sent, where none has happened.    *)
PageBounds ==
  LET happened == MapThenSumSet(LAMBDA w : Len(history'[w]) - 1, Workflows)
  IN  /\ happened + routes' + faults' <= 4 /\ happened <= 2
      /\ Cardinality(replies') <= 1 /\ Cardinality(asking') <= 1
      /\ asking' # {} \/ (\E w \in Workflows : push'[w] # "idle") => happened = 0 /\ replies' = {}

OnHub(action) ==
  /\ part = "hub" /\ action
  /\ UNCHANGED <<part, connectionVars, transcriptVars, panelVars, planningVars, hands, pullVars,
                 dragVars, pageVars, faults>>

OnConnections(action) ==
  /\ OnConnection /\ action /\ ConnectionBounds
  /\ UNCHANGED <<part, hubVars, transcriptVars, panelVars, planningVars, hands, pullVars, dragVars,
                 pageVars>>

OnTranscript(action) ==
  /\ part = "transcript" /\ action /\ \A t \in Tasks \ {t1} : runs'[t] <= 1
  /\ UNCHANGED <<part, hubVars, connectionVars, panelVars, planningVars, hands, pullVars, dragVars,
                 pageVars, faults>>

OnPanel(action) ==
  /\ part = "panel" /\ action
  /\ UNCHANGED <<part, hubVars, connectionVars, transcriptVars, planningVars, hands, pullVars,
                 dragVars, pageVars, faults>>

OnPlanning(action) ==
  /\ part = "planning" /\ action
  /\ UNCHANGED <<part, hubVars, connectionVars, transcriptVars, panelVars, hands, pullVars,
                 dragVars, pageVars, faults>>

OnPull(action) ==
  /\ part = "pull" /\ action
  /\ UNCHANGED <<part, hubVars, connectionVars, transcriptVars, panelVars, planningVars, dragVars,
                 pageVars, faults>>

OnDrag(action) ==
  /\ part = "drag" /\ action
  /\ UNCHANGED <<part, hubVars, connectionVars, transcriptVars, panelVars, planningVars, pullVars,
                 pageVars, faults>>

OnPage(action) ==
  /\ part = "page" /\ action /\ PageBounds
  /\ UNCHANGED <<part, hubVars, connectionVars, transcriptVars, panelVars, planningVars, hands,
                 pullVars, dragVars>>

Next ==
  \/ OnHub(H!Next) \/ OnConnections(C!Next) \/ OnTranscript(T!Next) \/ OnPanel(B!Next)
  \/ OnPlanning(N!Next) \/ OnPull(R!Next) \/ OnDrag(D!Next) \/ OnPage(E!Next)

(* The fairness of SubscriberHub, ClientConnection, PullToRefresh and       *)
(* EnginePage.  The part never changes, so that fairness to a disjunction   *)
(* of steps of different parts is fairness to each.                         *)
Fairness ==
  /\ \A s \in Subscribers :
       /\ WF_all(OnHub(H!Subscribe(s)) \/ OnPull(R!Animate) \/ OnPage(E!Deliver))
       /\ WF_all(OnHub(H!Generator(s)) \/ OnPull(R!FlushFrame) \/ OnPage(E!StreamReopens))
       /\ WF_all(OnHub(H!Receive(s)) \/ OnPull(R!RefreshSettles))
  /\ \A f \in Fetches : WF_all(OnConnections(C!FetchStep(f)))
  /\ \A i \in 1..MaxAttaches : /\ WF_all(OnConnections(C!Loaded(i)))
                               /\ \A w \in Workflows : WF_all(OnConnections(C!StreamProgress(i, w)))

Spec == Init /\ [][Next]_all /\ Fairness
-----------------------------------------------------------------------------
(* SubscriberHub: every reader gets the events once and in order (a step    *)
(* of OrderedDelivery or none); what it is still owed has no gap, and only  *)
(* a backlog of durable events cuts it off.                                 *)
EveryEventInOrder ==
  /\ H!EventsInOrder
  /\ [](part = "hub" => H!PendingIsGapless)
  /\ H!OnlyBacklogAborts

(* ClientConnection: what a detached connection had asked for changes      *)
(* nothing.                                                                *)
DetachedIsSilent == C!DetachedIsSilent

(* SubscriberHub, ClientConnection and EnginePage: through streams that     *)
(* break and lists and loads that come late, every event arrives            *)
(* (OrderedDelivery with its fairness), and what is shown catches up with   *)
(* the engine.                                                              *)
ScreensCatchUp ==
  /\ H!EveryEventArrives
  /\ OnConnection => C!CatchesUp
  /\ part = "page" => E!BoardCatchesUp

(* Transcript: what was shown of the task on show stays shown.             *)
ShownStaysShown == T!ShownStaysShown

(* TaskPanel: a canvas, while it is mounted, has one retry under way.      *)
OneRetryPerCanvas == B!OneRetryPerCanvas

(* Planning: a plan is refused exactly if it is not one.                   *)
ProperPlansAreTaken == N!ProperPlansAreTaken

(* PullToRefresh and DragToDismiss: a refresh is run and ends, and no      *)
(* finger is waited for that has left the screen.                          *)
GesturesEnd ==
  /\ part = "pull" => R!EveryRefreshEnds
  /\ [](part = "drag" => D!FingersAreLetGo)

(* EnginePage: what is shown is what is routed.                            *)
ShownIsRouted == E!ShownIsRouted
===============================================================================
