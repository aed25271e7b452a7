------------------------------ MODULE EnginePage ------------------------------
(***************************************************************************)
(* The page the engine itself serves (pwa/assets/app-v1.js): the routes of *)
(* its hash, the load of a workflow and its event stream, the board, the   *)
(* reply box and the push banner, and the service worker's notification    *)
(* clicks, with answers that come late or not at all and streams that      *)
(* break off.                                                              *)
(*                                                                         *)
(* Data abstraction: a workflow is the status of its one task, one status  *)
(* for each durable event; provider events are the workflow they are of.   *)
(* What the stream brings after a cursor is every later event in order     *)
(* (SubscriberHub).                                                        *)
(***************************************************************************)
EXTENDS Naturals, Sequences

CONSTANTS Workflows, Unset,
          MaxEvents, MaxRoutes, MaxFaults   \* bounds

Statuses == {"running", "needs-review", "completed"}

VARIABLES
  history,     \* history[w]: the status after each event, the first one at creation
  subscribed,  \* the workflows with a push subscription in the engine
  route,       \* state.currentId
  routeGen,
  loads,       \* the loads of workflows under way, and what they have read
  shown,       \* state.currentWorkflow
  transcript,  \* the workflows of the provider events on show
  es,          \* the event source: its workflow, whether it is connected, its last event id
  box,         \* the workflow of the reply box on show, or Unset
  posted,      \* the replies posted: the workflow of the box, and the one named
  list,        \* the load of the list: "asked" or "settled"
  error,       \* state.error is set
  push, asking,\* state.pushStatusByWorkflow, and the calls of setupPush
  routes, faults

pageVars == <<history, subscribed, route, routeGen, loads, shown, transcript, es, box, posted,
              list, error, push, asking, routes, faults>>

Last(s) == s[Len(s)]

(* render: an error is all there is; else the board and the reply box of what is shown *)
Render(of) ==
  box' = IF error' \/ of = Unset \/ of.status # "needs-review" THEN Unset ELSE of.workflow

Load(w) == [workflow |-> w, gen |-> routeGen + 1, status |-> Unset]

Init ==
  /\ history \in [Workflows -> {<<status>> : status \in Statuses}] /\ subscribed = {}
  /\ route = Unset /\ routeGen = 0 /\ loads = {} /\ shown = Unset /\ transcript = {} /\ es = Unset
  /\ box = Unset /\ posted = {} /\ list = "asked" /\ error = FALSE
  /\ push = [w \in Workflows |-> "idle"] /\ asking = {} /\ routes = 0 /\ faults = 0

Fault == faults < MaxFaults /\ faults' = faults + 1
-----------------------------------------------------------------------------
(* The engine *)

Event(w) ==
  /\ Len(history[w]) <= MaxEvents
  /\ \E status \in Statuses \ {Last(history[w])} : history' = [history EXCEPT ![w] = Append(@, status)]
  /\ UNCHANGED <<subscribed, route, routeGen, loads, shown, transcript, es, box, posted,
                 list, error, push, asking, routes, faults>>

(* GET /workflows/:id *)
LoadIsRead(l) ==
  /\ l \in loads /\ l.status = Unset
  /\ loads' = (loads \ {l}) \union {[l EXCEPT !.status = Last(history[l.workflow])]}
  /\ UNCHANGED <<history, subscribed, route, routeGen, shown, transcript, es, box, posted,
                 list, error, push, asking, routes, faults>>
-----------------------------------------------------------------------------
(* Routes *)

(* onRoute, loadWorkflowAndSubscribe: the hash has changed, by the user or by a   *)
(* click on a notification.  It is read when the event is handled, so it may name *)
(* the workflow that is routed already, which is then loaded again.               *)
OnRoute(w) ==
  /\ routes < MaxRoutes /\ routes' = routes + 1
  /\ route' = w /\ routeGen' = routeGen + 1 /\ loads' = loads \union {Load(w)}
  /\ es' = Unset /\ shown' = Unset /\ transcript' = {} /\ UNCHANGED error /\ Render(Unset)
  /\ UNCHANGED <<history, subscribed, posted, list, push, asking, faults>>

(* onRoute without a workflow leaves routeGen alone *)
OnRouteToList ==
  /\ routes < MaxRoutes /\ routes' = routes + 1
  /\ route' = Unset /\ es' = Unset /\ shown' = Unset /\ transcript' = {}
  /\ UNCHANGED error /\ Render(Unset)
  /\ UNCHANGED <<history, subscribed, routeGen, loads, posted, list, push, asking, faults>>

(* a slip: the replay starts with what is new *)
OpenStreamAtHead(w) == es' = [workflow |-> w, link |-> "open", last |-> Len(history[w])]

(* openStream: no cursor is given, so the replay starts with the first event *)
OpenStream(w) == es' = [workflow |-> w, link |-> "open", last |-> 0]

(* a slip: whatever arrives is shown *)
LoadReturnsToAll(l) ==
  /\ l \in loads /\ l.status # Unset /\ loads' = loads \ {l}
  /\ UNCHANGED error
  /\ shown' = [workflow |-> l.workflow, status |-> l.status]
  /\ Render(shown') /\ OpenStream(l.workflow)
  /\ UNCHANGED <<history, subscribed, route, routeGen, transcript, posted, list, push, asking, routes, faults>>

LoadReturns(l) ==
  /\ l \in loads /\ l.status # Unset /\ loads' = loads \ {l}
  /\ UNCHANGED error
  /\ IF l.gen = routeGen
     THEN /\ shown' = [workflow |-> l.workflow, status |-> l.status]
          /\ Render(shown') /\ OpenStream(l.workflow)
     ELSE UNCHANGED <<shown, es, box>>
  /\ UNCHANGED <<history, subscribed, route, routeGen, transcript, posted, list, push, asking, routes, faults>>

(* state.error is set and never cleared: from then on nothing but the error is drawn *)
LoadFails(l) ==
  /\ l \in loads /\ Fault /\ loads' = loads \ {l}
  /\ error' = (error \/ l.gen = routeGen)
  /\ IF l.gen = routeGen THEN Render(shown) ELSE UNCHANGED box
  /\ UNCHANGED <<history, subscribed, route, routeGen, shown, transcript, es, posted, list, push, asking, routes>>

(* loadList *)
ListReturns ==
  /\ list = "asked" /\ list' = "settled"
  /\ \/ UNCHANGED <<error, faults>>
     \/ Fault /\ error' = TRUE
  /\ Render(shown)
  /\ UNCHANGED <<history, subscribed, route, routeGen, loads, shown, transcript, es, posted, push, asking, routes>>
-----------------------------------------------------------------------------
(* The stream *)

(* task-transitioned and workflow-status-changed redraw the board and not the reply box *)
Deliver ==
  /\ es # Unset /\ es.link = "open" /\ es.last < Len(history[es.workflow])
  /\ es' = [es EXCEPT !.last = @ + 1]
  /\ shown' = IF shown = Unset THEN Unset ELSE [shown EXCEPT !.status = history[es.workflow][es.last + 1]]
  /\ UNCHANGED <<history, subscribed, route, routeGen, loads, transcript, box, posted,
                 list, error, push, asking, routes, faults>>

ProviderEvent ==
  /\ es # Unset /\ es.link = "open" /\ es.workflow \notin transcript
  /\ transcript' = transcript \union {es.workflow}
  /\ UNCHANGED <<history, subscribed, route, routeGen, loads, shown, es, box, posted,
                 list, error, push, asking, routes, faults>>

StreamBreaks ==
  /\ es # Unset /\ es.link = "open" /\ Fault /\ es' = [es EXCEPT !.link = "reconnecting"]
  /\ UNCHANGED <<history, subscribed, route, routeGen, loads, shown, transcript, box, posted,
                 list, error, push, asking, routes>>

(* the browser opens the stream again, with the id of the last event it got *)
StreamReopens ==
  /\ es # Unset /\ es.link = "reconnecting" /\ es' = [es EXCEPT !.link = "open"]
  /\ UNCHANGED <<history, subscribed, route, routeGen, loads, shown, transcript, box, posted,
                 list, error, push, asking, routes, faults>>
-----------------------------------------------------------------------------
(* The reply box and the push banner *)

(* submitReply names the task of the box and state.currentId *)
SubmitReply ==
  /\ box # Unset /\ posted' = posted \union {[box |-> box, to |-> route]}
  /\ UNCHANGED <<history, subscribed, route, routeGen, loads, shown, transcript, es, box,
                 list, error, push, asking, routes, faults>>

(* a click on the banner *)
SetupPush ==
  /\ shown # Unset /\ ~error /\ route # Unset /\ push[route] = "idle" /\ asking' = asking \union {route}
  /\ UNCHANGED <<history, subscribed, route, routeGen, loads, shown, transcript, es, box, posted,
                 list, error, push, routes, faults>>

(* the permission, the subscription and POST /push/subscribe: whatever the engine *)
(* answers to it counts as subscribed                                             *)
PushSettles(w) ==
  /\ w \in asking /\ asking' = asking \ {w}
  /\ \/ /\ push' = [push EXCEPT ![w] = "subscribed"]
        /\ \/ subscribed' = subscribed \union {w} /\ UNCHANGED faults
           \/ Fault /\ UNCHANGED subscribed
     \/ /\ Fault /\ push' = [push EXCEPT ![w] = "denied"]
        /\ (UNCHANGED subscribed \/ (subscribed' = subscribed \union {w}))
  /\ UNCHANGED <<history, route, routeGen, loads, shown, transcript, es, box, posted, list, error, routes>>

Next ==
  \/ \E w \in Workflows : Event(w) \/ OnRoute(w) \/ PushSettles(w)
  \/ \E l \in loads : LoadIsRead(l) \/ LoadReturns(l) \/ LoadFails(l)
  \/ OnRouteToList \/ ListReturns \/ Deliver \/ ProviderEvent \/ StreamBreaks \/ StreamReopens
  \/ SubmitReply \/ SetupPush

(* the browser opens a broken stream again and what is sent arrives *)
Fairness == WF_pageVars(Deliver) /\ WF_pageVars(StreamReopens)

Spec == Init /\ [][Next]_pageVars /\ Fairness
-----------------------------------------------------------------------------
(* While a workflow is routed, the board, the stream and the transcript are its, *)
(* and a reply goes to the workflow whose box it was typed into, however late    *)
(* the answers to earlier routes come (routeGen).                                *)
ShownIsRouted ==
  /\ route # Unset => /\ shown # Unset => shown.workflow = route
                      /\ es # Unset => es.workflow = route
                      /\ transcript \subseteq {route}
  /\ \A p \in posted : p.to # Unset => p.box = p.to

(* The board catches up with the engine: what happened between the load and the  *)
(* opening of the stream, or while it was broken, is delivered.                  *)
BoardCatchesUp ==
  []<>(shown # Unset => shown.status = Last(history[shown.workflow]))
=============================================================================
