--------------------------- MODULE ClientConnection ---------------------------
(***************************************************************************)
(* The web client's copy of one server's workflows: attachConnection, the  *)
(* event streams it keeps (connectWorkflowSse), the lists it fetches and   *)
(* the snapshot it saves, while views add and remove workflows and the     *)
(* user switches between connections.                                      *)
(*                                                                         *)
(* Data abstraction: the history of a workflow is events 1..head[w], and   *)
(* the client's copy of it is the set of events it shows; a list tells     *)
(* every event that precedes it.  Versions and labels are left out, and    *)
(* IndexedDB does not fail.                                                *)
(***************************************************************************)
EXTENDS Naturals, FiniteSets

CONSTANTS Workflows, Fetches,   \* fetches that may be under way at once (a bound)
          Unset,
          MaxEvents, MaxAttaches, MaxFaults   \* bounds

Attachments == 1..MaxAttaches

VARIABLES
  head,       \* head[w]: the server's events of w, for w that exists there
  shown,      \* byConnection: what the client shows of each workflow it has
  snapshot,   \* the saved snapshot, or Unset
  current,    \* the attachment that is not disposed, or 0
  attached,   \* how many there have been
  init,       \* init[i]: how far the init() of attachment i is
  stream,     \* stream[i][w]: the SSE connection in sseConns
  fetch,      \* refetch() under way
  posted, deleting,   \* requests of this client under way
  overtaken,  \* a list older than what was shown has replaced w, or closed its stream
  faults

vars == <<head, shown, snapshot, current, attached, init, stream, fetch, posted, deleting,
          overtaken, faults>>

NoStream == [es |-> "none", retry |-> FALSE, last |-> 0, kept |-> FALSE]

NewStream == [es |-> "connecting", retry |-> FALSE, last |-> 0, kept |-> TRUE]

Idle == [stage |-> "idle", by |-> 0, for |-> "user", list |-> << >>, fallback |-> {}]

Tells(list) == [w \in DOMAIN list |-> 1..list[w]]

Init ==
  /\ \E ws \in SUBSET Workflows : head = [w \in ws |-> 1]
  /\ shown = << >>
  /\ snapshot \in {Unset} \cup {Tells(head)}
  /\ current = 0 /\ attached = 0
  /\ init = [i \in Attachments |-> "none"]
  /\ stream = [i \in Attachments |-> [w \in Workflows |-> NoStream]]
  /\ fetch = [f \in Fetches |-> Idle]
  /\ posted = {} /\ deleting = {} /\ overtaken = {} /\ faults = 0

Fails == faults < MaxFaults /\ faults' = faults + 1
-----------------------------------------------------------------------------
(* openSseForWorkflows: close the streams of other workflows, open those   *)
(* that are missing                                                        *)
StreamsFor(i, ws) ==
  [w \in Workflows |-> IF w \notin ws THEN NoStream
                       ELSE IF stream[i][w].kept THEN stream[i][w] ELSE NewStream]

(* the store's subscribers are told of what it holds now *)
Show(copy) ==
  /\ shown' = copy
  /\ stream' = IF current = 0 THEN stream
               ELSE [stream EXCEPT ![current] = StreamsFor(current, DOMAIN copy)]

(* the server *)
Happens(w) ==
  /\ w \in DOMAIN head /\ head[w] < MaxEvents
  /\ head' = [head EXCEPT ![w] = @ + 1]
  /\ UNCHANGED <<shown, snapshot, current, attached, init, stream, fetch, posted, deleting,
                 overtaken, faults>>

(* the views: a workflow is created, the answer is upserted *)
Post(w) ==
  /\ current # 0
  /\ w \notin DOMAIN head \cup DOMAIN shown \cup posted \cup deleting
  /\ head' = [x \in DOMAIN head \cup {w} |-> IF x = w THEN 0 ELSE head[x]]
  /\ posted' = posted \cup {w}
  /\ UNCHANGED <<shown, snapshot, current, attached, init, stream, fetch, deleting,
                 overtaken, faults>>

Posted(w) ==
  /\ w \in posted
  /\ posted' = posted \ {w}
  /\ Show([x \in DOMAIN shown \cup {w} |-> IF x = w THEN {} ELSE shown[x]])
  /\ overtaken' = IF current # 0 /\ stream[current][w].last > 0 THEN overtaken \cup {w}
                                                                 ELSE overtaken
  /\ UNCHANGED <<head, snapshot, current, attached, init, fetch, deleting, faults>>

Delete(w) ==
  /\ w \in DOMAIN head \cap DOMAIN shown /\ w \notin posted
  /\ head' = [x \in DOMAIN head \ {w} |-> head[x]]
  /\ deleting' = deleting \cup {w}
  /\ UNCHANGED <<shown, snapshot, current, attached, init, stream, fetch, posted,
                 overtaken, faults>>

Deleted(w) ==
  /\ w \in deleting
  /\ deleting' = deleting \ {w}
  /\ Show([x \in DOMAIN shown \ {w} |-> shown[x]])
  /\ UNCHANGED <<head, snapshot, current, attached, init, fetch, posted, overtaken, faults>>
-----------------------------------------------------------------------------
(* syncActiveConnection attaches and disposes *)
Attach ==
  /\ current = 0 /\ attached < MaxAttaches
  /\ attached' = attached + 1 /\ current' = attached + 1
  /\ init' = [init EXCEPT ![attached + 1] = "loading"]
  /\ UNCHANGED <<head, shown, snapshot, stream, fetch, posted, deleting, overtaken, faults>>

Dispose ==
  /\ current # 0
  /\ current' = 0
  /\ stream' = [stream EXCEPT ![current] = [w \in Workflows |-> NoStream]]
  /\ UNCHANGED <<head, shown, snapshot, attached, init, fetch, posted, deleting, overtaken, faults>>

Asked(i, for, fallback) ==
  \E f \in Fetches :
    /\ fetch[f].stage = "idle"
    /\ fetch' = [fetch EXCEPT ![f] = [stage |-> "asked", by |-> i, for |-> for,
                                      list |-> << >>, fallback |-> fallback]]

(* init(): the snapshot is shown, then a list is fetched *)
Loaded(i) ==
  /\ init[i] = "loading"
  /\ init' = [init EXCEPT ![i] = "done"]
  /\ IF i # current THEN UNCHANGED <<shown, stream, fetch>>
     ELSE IF snapshot = Unset THEN Asked(i, "init", {}) /\ UNCHANGED <<shown, stream>>
     ELSE Show(snapshot) /\ Asked(i, "init", DOMAIN snapshot)
  /\ UNCHANGED <<head, snapshot, current, attached, posted, deleting, overtaken, faults>>

(* list.tsx: the user pulls to refresh; no attachment is asked *)
Refresh ==
  /\ current # 0
  /\ Asked(current, "user", {})
  /\ UNCHANGED <<head, shown, snapshot, current, attached, init, stream, posted, deleting,
                 overtaken, faults>>

Free(f) == fetch' = [fetch EXCEPT ![f] = Idle]

Detached(f) == fetch[f].for # "user" /\ fetch[f].by # current

(* openSseForWorkflows with a list that may no longer be what is shown *)
OpenFor(f, ws) ==
  IF fetch[f].for = "user" \/ Detached(f) THEN UNCHANGED <<stream, overtaken>>
  ELSE /\ stream' = [stream EXCEPT ![current] = StreamsFor(current, ws)]
       /\ overtaken' = overtaken \cup (DOMAIN shown \ ws)

Answer(f) ==
  /\ fetch[f].stage = "asked"
  /\ \/ fetch' = [fetch EXCEPT ![f].stage = "answered", ![f].list = head] /\ UNCHANGED faults
     \/ Fails /\ fetch' = [fetch EXCEPT ![f].stage = "failed"]
  /\ UNCHANGED <<head, shown, snapshot, current, attached, init, stream, posted, deleting, overtaken>>

(* the init() of a list that failed opens streams for the snapshot *)
GiveUp(f) ==
  /\ fetch[f].stage = "failed"
  /\ Free(f)
  /\ IF fetch[f].for = "init" THEN OpenFor(f, fetch[f].fallback)
                              ELSE UNCHANGED <<stream, overtaken>>
  /\ UNCHANGED <<head, shown, snapshot, current, attached, init, posted, deleting, faults>>

(* w has been shown an event that the list does not tell *)
Outdates(list, w) ==
  IF w \in DOMAIN list THEN current # 0 /\ stream[current][w].last > list[w]
                       ELSE w \in DOMAIN head

(* a slip: a list is shown whoever asked for it *)
ReturnUnasked(f) ==
  /\ fetch[f].stage = "answered"
  /\ Show(Tells(fetch[f].list))
  /\ overtaken' = {w \in Workflows : Outdates(fetch[f].list, w)}
  /\ fetch' = [fetch EXCEPT ![f].stage = "saving"]
  /\ UNCHANGED <<head, snapshot, current, attached, init, posted, deleting, faults>>

(* replaceAll *)
Return(f) ==
  /\ fetch[f].stage = "answered"
  /\ IF Detached(f) THEN Free(f) /\ UNCHANGED <<shown, stream, overtaken>>
     ELSE /\ Show(Tells(fetch[f].list))
          /\ overtaken' = {w \in Workflows : Outdates(fetch[f].list, w)}
          /\ fetch' = [fetch EXCEPT ![f].stage = "saving"]
  /\ UNCHANGED <<head, snapshot, current, attached, init, posted, deleting, faults>>

Saved(f) ==
  /\ fetch[f].stage = "saving"
  /\ snapshot' = Tells(fetch[f].list)
  /\ OpenFor(f, DOMAIN fetch[f].list)
  /\ Free(f)
  /\ UNCHANGED <<head, shown, current, attached, init, posted, deleting, faults>>
-----------------------------------------------------------------------------
(* connectWorkflowSse.  Only streams in sseConns are open or wait for a    *)
(* timer: close() ends both.                                               *)
Change(i, w, new) == stream' = [stream EXCEPT ![i][w] = new]

(* open: onReconnect fetches a list *)
Opened(i, w) ==
  /\ stream[i][w].es = "connecting" /\ w \in DOMAIN head
  /\ Change(i, w, [stream[i][w] EXCEPT !.es = "open"])
  /\ Asked(i, "reconnect", {})
  /\ UNCHANGED <<head, shown, snapshot, current, attached, init, posted, deleting, overtaken, faults>>

(* error: the source is closed, a timer set.  A workflow that is not there *)
(* is answered with an error.                                              *)
Errs(i, w) ==
  /\ stream[i][w].es # "none"
  /\ Change(i, w, [stream[i][w] EXCEPT !.es = "none", !.retry = TRUE])
  /\ IF w \in DOMAIN head THEN Fails ELSE UNCHANGED faults
  /\ UNCHANGED <<head, shown, snapshot, current, attached, init, fetch, posted, deleting, overtaken>>

Retry(i, w) ==
  /\ stream[i][w].retry
  /\ Change(i, w, [stream[i][w] EXCEPT !.es = "connecting", !.retry = FALSE])
  /\ UNCHANGED <<head, shown, snapshot, current, attached, init, fetch, posted, deleting,
                 overtaken, faults>>

(* the page becomes visible, the browser online: all streams reconnect *)
ForceReconnect ==
  /\ current # 0 /\ Fails
  /\ stream' = [stream EXCEPT ![current] = [w \in Workflows |->
                  IF @[w].kept THEN [@[w] EXCEPT !.es = "connecting", !.retry = FALSE] ELSE @[w]]]
  /\ UNCHANGED <<head, shown, snapshot, current, attached, init, fetch, posted, deleting, overtaken>>

(* an event after the cursor; of a workflow that is not shown, nothing is  *)
Deliver(i, w) ==
  LET event == stream[i][w].last + 1
  IN  /\ stream[i][w].es = "open" /\ w \in DOMAIN head /\ event <= head[w]
      /\ IF w \in DOMAIN shown
         THEN /\ shown' = [shown EXCEPT ![w] = @ \cup {event}]
              /\ stream' = [stream EXCEPT ![i] =
                              [StreamsFor(i, DOMAIN shown) EXCEPT ![w].last = event]]
         ELSE Change(i, w, [stream[i][w] EXCEPT !.last = event]) /\ UNCHANGED shown
      /\ UNCHANGED <<head, snapshot, current, attached, init, fetch, posted, deleting,
                     overtaken, faults>>
-----------------------------------------------------------------------------
FetchStep(f) == Answer(f) \/ GiveUp(f) \/ Return(f) \/ Saved(f)

(* a stream is connecting, open, or waits for its timer: one of these is next *)
StreamProgress(i, w) == Opened(i, w) \/ Retry(i, w) \/ Deliver(i, w)

Next ==
  \/ \E w \in Workflows : Happens(w) \/ Post(w) \/ Posted(w) \/ Delete(w) \/ Deleted(w)
  \/ Attach \/ Dispose \/ Refresh \/ ForceReconnect
  \/ \E i \in Attachments : Loaded(i) \/ \E w \in Workflows : StreamProgress(i, w) \/ Errs(i, w)
  \/ \E f \in Fetches : FetchStep(f)

(* requests are answered or fail, timers fire, and a stream that can open or bring *)
(* an event does so                                                                *)
Fairness ==
  /\ \A f \in Fetches : WF_vars(FetchStep(f))
  /\ \A i \in Attachments :
       /\ WF_vars(Loaded(i))
       /\ \A w \in Workflows : WF_vars(StreamProgress(i, w))

Spec == Init /\ [][Next]_vars /\ Fairness
-----------------------------------------------------------------------------
(* What an attachment has asked for changes nothing after it is disposed,  *)
(* be it the snapshot that loads or the list that comes back               *)
(* (connectionState.ts, "attach/dispose races").                           *)
DetachedIsSilent ==
  [][/\ \A f \in Fetches : Detached(f) /\ fetch'[f] # fetch[f] => UNCHANGED <<shown, stream>>
     /\ \A i \in Attachments : i # current /\ init'[i] # init[i] /\ current' # i
                                  => UNCHANGED <<shown, stream>>]_vars

(* A workflow that stays shown, in a connection that stays attached, is in *)
(* the end shown with all its events, however its stream breaks, unless a  *)
(* list that is older than what was shown has replaced it.                 *)
CatchesUp ==
  \A w \in Workflows :
    <>[](current # 0 /\ w \in DOMAIN shown \cap DOMAIN head)
      => []<>(w \in overtaken \/ (w \in DOMAIN shown \cap DOMAIN head /\ shown[w] = 1..head[w]))
===============================================================================
