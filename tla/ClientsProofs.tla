---------------------------- MODULE ClientsProofs ----------------------------
(***************************************************************************)
(* What holds on a user's side of the HTTP API for any number of           *)
(* workflows, tasks, routes, clicks, fetches and faults: the engine's page *)
(* (EnginePage) shows the workflow that is routed, a canvas (TaskPanel) has *)
(* one retry of its own under way, an attachment (ClientConnection) that was      *)
(* disposed changes nothing any more, and a transcript (Transcript) keeps  *)
(* what it shows.  And on the engine's side, for any number of subscribers *)
(* and any cap: the stream of events (SubscriberHub) implements            *)
(* OrderedDelivery step by step.                                           *)
(***************************************************************************)
EXTENDS MCClients, Positions, FiniteSetTheorems, WellFoundedInduction, TLAPS

-----------------------------------------------------------------------------
(* EnginePage *)

(* what a load can read *)
PageHistories == history \in [Workflows -> Seq(E!Statuses)] /\ \A w \in Workflows : history[w] # << >>

(* A load is of the workflow routed now, or of an earlier generation of    *)
(* the route: what comes of the latter is thrown away.                     *)
LoadsAreDated ==
  /\ routeGen \in Nat
  /\ loads \subseteq [workflow : Workflows, gen : Nat, status : E!Statuses \cup {Unset}]
  /\ \A l \in loads :
       /\ l.gen <= routeGen
       /\ l.gen = routeGen /\ route # Unset => l.workflow = route

(* the reply box is that of the board *)
BoxIsRouted == box # Unset /\ route # Unset => box = route

PageInv == PageHistories /\ LoadsAreDated /\ BoxIsRouted /\ E!ShownIsRouted

LEMMA PageInit == E!Init => PageInv
  <1> SUFFICES ASSUME E!Init PROVE PageInv
    OBVIOUS
  <1>1. \A told \in E!Statuses : <<told>> \in Seq(E!Statuses) /\ <<told>> # << >>
    OBVIOUS
  <1>2. \A w \in Workflows : history[w] \in {<<told>> : told \in E!Statuses}
    BY DEF E!Init
  <1>3. PageHistories
    BY <1>1, <1>2 DEF E!Init, PageHistories
  <1>4. QED
    BY <1>3 DEF E!Init, PageInv, LoadsAreDated, BoxIsRouted, E!ShownIsRouted

(* A new route takes a new generation, which no load under way has. *)
LEMMA RouteKeepsIt == ASSUME PageInv, NEW w \in Workflows, E!OnRoute(w) PROVE PageInv'
  <1>1. LoadsAreDated'
    BY DEF E!OnRoute, E!Load, PageInv, LoadsAreDated
  <1>2. BoxIsRouted'
    BY DEF E!OnRoute, E!Render, PageInv, BoxIsRouted
  <1>3. E!ShownIsRouted'
    BY DEF E!OnRoute, PageInv, E!ShownIsRouted
  <1>4. QED
    BY <1>1, <1>2, <1>3 DEF PageInv, E!OnRoute, PageHistories

(* An answer is shown if its load is of the present generation. *)
LEMMA AnswerKeepsIt == ASSUME PageInv, NEW l \in loads, E!LoadReturns(l) PROVE PageInv'
  <1>1. LoadsAreDated'
    BY DEF E!LoadReturns, PageInv, LoadsAreDated
  <1>2. l.gen = routeGen /\ route # Unset => l.workflow = route
    BY DEF PageInv, LoadsAreDated
  <1>3. BoxIsRouted'
    BY <1>2 DEF E!LoadReturns, E!Render, PageInv, BoxIsRouted
  <1>4. E!ShownIsRouted'
    BY <1>2 DEF E!LoadReturns, E!OpenStream, PageInv, E!ShownIsRouted
  <1>5. QED
    BY <1>1, <1>3, <1>4 DEF PageInv, E!LoadReturns, PageHistories

LEMMA PageStep == PageInv /\ [E!Next]_(E!pageVars) => PageInv'
  <1> SUFFICES ASSUME PageInv, [E!Next]_(E!pageVars) PROVE PageInv'
    OBVIOUS
  <1> USE DEF PageInv, PageHistories, LoadsAreDated, BoxIsRouted, E!ShownIsRouted
  <1>1. ASSUME NEW w \in Workflows, E!Event(w) PROVE PageInv'
    <2>1. PICK told \in E!Statuses : history' = [history EXCEPT ![w] = Append(@, told)]
      BY <1>1 DEF E!Event
    <2>2. /\ Append(history[w], told) \in Seq(E!Statuses)
          /\ Append(history[w], told) # << >>
      OBVIOUS
    <2>3. PageHistories'
      BY <2>1, <2>2
    <2>4. QED
      BY <1>1, <2>3 DEF E!Event
  <1>2. ASSUME NEW w \in Workflows, E!OnRoute(w) PROVE PageInv'
    BY <1>2, RouteKeepsIt
  <1>3. ASSUME NEW w \in Workflows, E!PushSettles(w) PROVE PageInv'
    BY <1>3 DEF E!PushSettles
  <1>4. ASSUME NEW l \in loads, E!LoadIsRead(l) PROVE PageInv'
    <2>1. history[l.workflow] \in Seq(E!Statuses) /\ history[l.workflow] # << >>
      OBVIOUS
    <2>2. E!Last(history[l.workflow]) \in E!Statuses
      BY <2>1 DEF E!Last
    <2> DEFINE read == [l EXCEPT !.status = E!Last(history[l.workflow])]
    <2>4. /\ read \in [workflow : Workflows, gen : Nat, status : E!Statuses \cup {Unset}]
          /\ read.gen = l.gen /\ read.workflow = l.workflow
      BY <2>2
    <2>5. loads' = (loads \ {l}) \cup {read}
      BY <1>4 DEF E!LoadIsRead
    <2>6. LoadsAreDated'
      BY <1>4, <2>4, <2>5 DEF E!LoadIsRead
    <2>7. QED
      BY <1>4, <2>6 DEF E!LoadIsRead
  <1>5. ASSUME NEW l \in loads, E!LoadReturns(l) PROVE PageInv'
    BY <1>5, AnswerKeepsIt
  <1>6. ASSUME NEW l \in loads, E!LoadFails(l) PROVE PageInv'
    BY <1>6 DEF E!LoadFails, E!Render
  <1>7. CASE E!OnRouteToList
    BY <1>7 DEF E!OnRouteToList, E!Render
  <1>8. CASE E!ListReturns
    BY <1>8 DEF E!ListReturns, E!Render
  <1>9. CASE E!Deliver
    BY <1>9 DEF E!Deliver
  <1>10. CASE E!ProviderEvent
    BY <1>10 DEF E!ProviderEvent
  <1>11. CASE E!StreamBreaks
    BY <1>11 DEF E!StreamBreaks
  <1>12. CASE E!StreamReopens
    BY <1>12 DEF E!StreamReopens
  <1>13. CASE E!SubmitReply
    BY <1>13 DEF E!SubmitReply
  <1>14. CASE E!SetupPush
    BY <1>14 DEF E!SetupPush
  <1>15. CASE UNCHANGED E!pageVars
    BY <1>15 DEF E!pageVars
  <1>16. QED
    BY <1>1, <1>2, <1>3, <1>4, <1>5, <1>6, <1>7, <1>8, <1>9, <1>10, <1>11, <1>12, <1>13,
       <1>14, <1>15 DEF E!Next


(* What the other modules do is none of the page's business: PageInv does  *)
(* not say how many faults there have been.                                *)
LEMMA PageRests == PageInv /\ UNCHANGED pageVars => PageInv'
  BY DEF PageInv, PageHistories, LoadsAreDated, BoxIsRouted, E!ShownIsRouted, pageVars

LEMMA StepKeepsPage == PageInv /\ [Next]_all => PageInv'
  <1> SUFFICES ASSUME PageInv, [Next]_all PROVE PageInv'
    OBVIOUS
  <1>1. CASE OnPage(E!Next)
    BY <1>1, PageStep DEF OnPage
  <1>2. CASE UNCHANGED pageVars
    BY <1>2, PageRests
  <1>3. QED
    BY <1>1, <1>2 DEF Next, all, OnHub, OnConnections, OnTranscript, OnPanel, OnPlanning, OnPull, OnDrag

(* EnginePage: however late the answers to earlier routes come, board,     *)
(* stream and transcript are of the routed workflow, and a reply goes      *)
(* where it was typed.                                                     *)
THEOREM RoutedIsShown == Spec => []ShownIsRouted
  <1>1. Init => PageInv
    BY PageInit DEF Init
  <1>2. PageInv => ShownIsRouted
    BY DEF PageInv, ShownIsRouted
  <1>3. QED
    BY <1>1, <1>2, StepKeepsPage, PTL DEF Spec

-----------------------------------------------------------------------------
(* TaskPanel *)

Canvas == {r \in asked : r.from = "canvas"}

(* The button of the dialog is disabled from the click on it until the     *)
(* retry that it has posted is answered.                                   *)
CanvasInv ==
  /\ \A r, s \in Canvas : r = s
  /\ loading <=> Canvas # {}
  /\ loading \in BOOLEAN

LEMMA PostedElsewhere ==
  ASSUME CanvasInv, NEW from, NEW kind, NEW t, from # "canvas", B!Post(from, kind, t),
         UNCHANGED loading
  PROVE  CanvasInv'
  BY DEF CanvasInv, Canvas, B!Post, B!Request

LEMMA PanelStep == CanvasInv /\ [B!Next]_(B!panelVars) => CanvasInv'
  <1> SUFFICES ASSUME CanvasInv, [B!Next]_(B!panelVars) PROVE CanvasInv'
    OBVIOUS
  <1>1. CASE B!HeaderCancel
    BY <1>1, PostedElsewhere DEF B!HeaderCancel
  <1>2. CASE B!MenuCancel
    BY <1>2, PostedElsewhere DEF B!MenuCancel
  <1>3. CASE B!HandleStop
    BY <1>3, PostedElsewhere DEF B!HandleStop
  <1>4. CASE B!HandleSubmit
    BY <1>4, PostedElsewhere DEF B!HandleSubmit
  <1>5. CASE B!HandleSlashCommand
    BY <1>5, PostedElsewhere DEF B!HandleSlashCommand
  <1>6. CASE B!CloseRetryModal
    BY <1>6 DEF B!CloseRetryModal, CanvasInv, Canvas
  <1>7. CASE B!HandleConfirmRetry
    <2>1. PICK new : new = B!Request("canvas", "retry-task", retryFor)
      OBVIOUS
    <2>2. asked' = asked \cup {new} /\ new.from = "canvas" /\ loading' = TRUE /\ ~loading
      BY <1>7, <2>1 DEF B!HandleConfirmRetry, B!Post, B!Request
    <2>3. Canvas' = {new}
      BY <2>2 DEF CanvasInv, Canvas
    <2>4. QED
      BY <2>2, <2>3 DEF CanvasInv
  <1>8. CASE B!ViewFollows
    BY <1>8 DEF B!ViewFollows, CanvasInv, Canvas
  <1>9. ASSUME NEW t \in Tasks, B!HandleRequestRetry(t) \/ B!TaskMoves(t) \/ B!Show(t)
        PROVE  CanvasInv'
    BY <1>9 DEF B!HandleRequestRetry, B!TaskMoves, B!Show, CanvasInv, Canvas
  <1>10. ASSUME NEW r \in asked, B!Answer(r) PROVE CanvasInv'
    <2>1. PICK ok \in BOOLEAN : B!Settle(r, ok)
      BY <1>10 DEF B!Answer
    <2>2. QED
      BY <1>10, <2>1 DEF B!Settle, CanvasInv, Canvas
  <1>11. CASE B!RemountCanvas
    <2>1. \A r \in asked : B!Orphan(r).from # "canvas"
      BY DEF B!Orphan
    <2>2. Canvas' = {} /\ ~loading'
      BY <1>11, <2>1 DEF B!RemountCanvas, Canvas
    <2>3. QED
      BY <2>2, <1>11 DEF CanvasInv, B!RemountCanvas
  <1>12. CASE UNCHANGED B!panelVars
    BY <1>12 DEF B!panelVars, CanvasInv, Canvas
  <1>13. QED
    BY <1>1, <1>2, <1>3, <1>4, <1>5, <1>6, <1>7, <1>8, <1>9, <1>10, <1>11, <1>12 DEF B!Next

LEMMA StepKeepsCanvas == CanvasInv /\ [Next]_all => CanvasInv'
  <1> SUFFICES ASSUME CanvasInv, [Next]_all PROVE CanvasInv'
    OBVIOUS
  <1>1. CASE OnPanel(B!Next)
    BY <1>1, PanelStep DEF OnPanel
  <1>2. CASE UNCHANGED panelVars
    BY <1>2 DEF panelVars, CanvasInv, Canvas
  <1>3. QED
    BY <1>1, <1>2 DEF Next, all, OnHub, OnConnections, OnTranscript, OnPlanning, OnPull, OnDrag, OnPage

(* TaskPanel: a canvas has one retry of its own under way at most and is   *)
(* disabled while it has, for any number of tasks, clicks and mounts       *)
(* (dagCanvas.tsx:318, useApiMutation.ts:50).                              *)
THEOREM OneRetryIsUnderWay == Spec => []OneRetryPerCanvas
  <1>1. Init => CanvasInv
    BY DEF Init, B!Init, CanvasInv, Canvas
  <1>2. CanvasInv => OneRetryPerCanvas
    <2> SUFFICES ASSUME CanvasInv PROVE OneRetryPerCanvas
      OBVIOUS
    <2>0. OneRetryPerCanvas <=> Cardinality(Canvas) <= 1
      BY DEF OneRetryPerCanvas, B!OneRetryPerCanvas, Canvas, CanvasInv, Cardinality, B!Cardinality
    <2>1. CASE Canvas = {}
      BY <2>0, <2>1, FS_EmptySet
    <2>2. CASE Canvas # {}
      <3>1. PICK r \in Canvas : Canvas = {r}
        BY <2>2 DEF CanvasInv
      <3>2. Cardinality({r}) = 1
        BY FS_Singleton
      <3>3. QED
        BY <2>0, <3>1, <3>2
    <2>3. QED
      BY <2>1, <2>2
  <1>3. QED
    BY <1>1, <1>2, StepKeepsCanvas, PTL DEF Spec

-----------------------------------------------------------------------------
(* ClientConnection *)

(* A fetch that is free is nobody's. *)
FreeIsIdle ==
  /\ DOMAIN fetch = Fetches /\ DOMAIN init = 1..MaxAttaches
  /\ \A f \in Fetches : fetch[f].stage = "idle" => fetch[f].for = "user"

(* What a step that changes a fetch of a detached attachment, or its init, *)
(* leaves alone: the body of DetachedIsSilent.                             *)
Silent ==
  /\ \A f \in Fetches : C!Detached(f) /\ fetch'[f] # fetch[f] => UNCHANGED <<shown, stream>>
  /\ \A i \in C!Attachments : i # current /\ init'[i] # init[i] /\ current' # i
                               => UNCHANGED <<shown, stream>>

LEMMA AsksNothing == ASSUME FreeIsIdle, UNCHANGED <<fetch, init>> PROVE FreeIsIdle' /\ Silent
  BY DEF FreeIsIdle, Silent

(* A fetch is begun where none was. *)
LEMMA AskTakesFree ==
  ASSUME FreeIsIdle, NEW i, NEW for, NEW fallback, C!Asked(i, for, fallback), UNCHANGED init
  PROVE  FreeIsIdle' /\ Silent
  BY DEF FreeIsIdle, Silent, C!Asked, C!Detached

LEMMA FetchStepIsSilent ==
  ASSUME FreeIsIdle, NEW f \in Fetches, C!FetchStep(f)
  PROVE  FreeIsIdle' /\ Silent
  <1> USE DEF FreeIsIdle, Silent, C!Free, C!Idle, C!Detached
  <1>1. CASE C!Answer(f)
    <2>1. fetch[f].stage = "asked" /\ UNCHANGED <<init, shown, stream>>
      BY <1>1 DEF C!Answer
    <2>2. CASE fetch' = [fetch EXCEPT ![f].stage = "answered", ![f].list = head]
      <3>1. fetch'[f].stage = "answered" /\ \A g \in Fetches \ {f} : fetch'[g] = fetch[g]
        BY <2>2
      <3>2. QED
        BY <2>1, <2>2, <3>1
    <2>3. CASE fetch' = [fetch EXCEPT ![f].stage = "failed"]
      <3>1. fetch'[f].stage = "failed" /\ \A g \in Fetches \ {f} : fetch'[g] = fetch[g]
        BY <2>3
      <3>2. QED
        BY <2>1, <2>3, <3>1
    <2>4. QED
      BY <1>1, <2>2, <2>3 DEF C!Answer
  <1>2. CASE C!GiveUp(f)
    BY <1>2 DEF C!GiveUp, C!OpenFor
  <1>3. CASE C!Return(f)
    <2>1. UNCHANGED init
      BY <1>3 DEF C!Return
    <2>2. CASE C!Detached(f)
      BY <1>3, <2>1, <2>2 DEF C!Return
    <2>3. CASE ~C!Detached(f)
      <3>1. fetch' = [fetch EXCEPT ![f] = [fetch[f] EXCEPT !.stage = "saving"]]
        BY <1>3, <2>3 DEF C!Return
      <3>2. [fetch[f] EXCEPT !.stage = "saving"].stage # "idle"
        BY <2>1
      <3>3. QED
        BY <2>1, <2>3, <3>1, <3>2
    <2>4. QED
      BY <2>2, <2>3
  <1>4. CASE C!Saved(f)
    BY <1>4 DEF C!Saved, C!OpenFor
  <1>5. QED
    BY <1>1, <1>2, <1>3, <1>4 DEF C!FetchStep

LEMMA ConnectionStep ==
  ASSUME FreeIsIdle, [C!Next]_(C!vars)
  PROVE  FreeIsIdle' /\ Silent
  <1>1. ASSUME NEW w \in Workflows,
               C!Happens(w) \/ C!Post(w) \/ C!Posted(w) \/ C!Delete(w) \/ C!Deleted(w)
        PROVE  UNCHANGED <<fetch, init>>
    BY <1>1 DEF C!Happens, C!Post, C!Posted, C!Delete, C!Deleted
  <1>2. CASE C!Attach
    BY <1>2 DEF C!Attach, C!Attachments, FreeIsIdle, Silent
  <1>3. CASE C!Dispose
    BY <1>3, AsksNothing DEF C!Dispose
  <1>4. CASE C!Refresh
    BY <1>4, AskTakesFree DEF C!Refresh
  <1>5. CASE C!ForceReconnect
    BY <1>5, AsksNothing DEF C!ForceReconnect
  <1>6. ASSUME NEW i \in C!Attachments, C!Loaded(i) PROVE FreeIsIdle' /\ Silent
    BY <1>6 DEF C!Loaded, C!Asked, C!Attachments, C!Detached, FreeIsIdle, Silent
  <1>7. ASSUME NEW i \in C!Attachments, NEW w \in Workflows, C!StreamProgress(i, w) \/ C!Errs(i, w)
        PROVE  FreeIsIdle' /\ Silent
    <2>1. CASE C!Opened(i, w)
      BY <2>1, AskTakesFree DEF C!Opened
    <2>2. CASE C!Retry(i, w)
      BY <2>2, AsksNothing DEF C!Retry
    <2>3. CASE C!Deliver(i, w)
      BY <2>3, AsksNothing DEF C!Deliver
    <2>4. CASE C!Errs(i, w)
      BY <2>4, AsksNothing DEF C!Errs
    <2>5. QED
      BY <1>7, <2>1, <2>2, <2>3, <2>4 DEF C!StreamProgress
  <1>8. CASE UNCHANGED C!vars
    BY <1>8, AsksNothing DEF C!vars
  <1>9. QED
    BY <1>1, <1>2, <1>3, <1>4, <1>5, <1>6, <1>7, <1>8, AsksNothing, FetchStepIsSilent DEF C!Next

LEMMA StepIsSilent == FreeIsIdle /\ [Next]_all => FreeIsIdle' /\ Silent
  <1> SUFFICES ASSUME FreeIsIdle, [Next]_all PROVE FreeIsIdle' /\ Silent
    OBVIOUS
  <1>1. CASE OnConnections(C!Next)
    BY <1>1, ConnectionStep DEF OnConnections
  <1>2. CASE UNCHANGED connectionVars
    BY <1>2, AsksNothing DEF connectionVars
  <1>3. QED
    BY <1>1, <1>2 DEF Next, all, OnHub, OnTranscript, OnPanel, OnPlanning, OnPull, OnDrag, OnPage

(* ClientConnection: what a detached attachment had asked for changes      *)
(* nothing, for any number of workflows, fetches and attachments.          *)
THEOREM TheDetachedAreSilent == Spec => DetachedIsSilent
  <1>1. Init => FreeIsIdle
    BY DEF Init, C!Init, C!Idle, C!Attachments, FreeIsIdle
  <1>2. Silent => [Silent]_(C!vars)
    OBVIOUS
  <1>3. QED
    BY <1>1, <1>2, StepIsSilent, PTL DEF Spec, DetachedIsSilent, C!DetachedIsSilent, Silent

-----------------------------------------------------------------------------
(* What a filter leaves of a sequence *)

(* A set of natural numbers has a least one. *)
LEMMA LeastNumber ==
  ASSUME NEW numbers \in SUBSET Nat, numbers # {}
  PROVE  \E m \in numbers : \A j \in numbers : m <= j
  <1>1. PICK m \in numbers : \A j \in numbers : ~(<<j, m>> \in OpToRel(<, Nat))
    BY NatLessThanWellFounded, WFMin, Zenon
  <1>2. \A j \in numbers : ~(j < m)
    BY <1>1 DEF OpToRel
  <1>3. QED
    BY <1>2

(* how many positions of a set are not after i *)
Rank(kept, i) == Cardinality({j \in kept : j <= i})

LEMMA Ranks ==
  ASSUME NEW n \in Nat, NEW kept \in SUBSET (1 .. n)
  PROVE  /\ IsFiniteSet(kept) /\ Cardinality(kept) \in Nat
         /\ Rank(kept, 0) = 0 /\ Rank(kept, n) = Cardinality(kept)
         /\ \A i \in 0 .. n : Rank(kept, i) \in Nat
         /\ \A i \in 1 .. n : Rank(kept, i) = Rank(kept, i - 1) + (IF i \in kept THEN 1 ELSE 0)
         /\ \A i, j \in 0 .. n : i <= j => Rank(kept, i) <= Rank(kept, j)
  <1>1. \A j \in kept : j \in Int /\ 1 <= j /\ j <= n
    OBVIOUS
  <1>2. ASSUME NEW some \in SUBSET (1 .. n) PROVE IsFiniteSet(some) /\ Cardinality(some) \in Nat
    <2>1. IsFiniteSet(1 .. n)
      BY FS_Interval
    <2>2. IsFiniteSet(some)
      BY <2>1, FS_Subset
    <2>3. QED
      BY <2>2, FS_CardinalityType
  <1>3. Rank(kept, 0) = 0 /\ Rank(kept, n) = Cardinality(kept)
    <2>1. \A j \in kept : ~(j <= 0)
      BY <1>1
    <2>2. {j \in kept : j <= 0} = {}
      BY <2>1
    <2>3. {j \in kept : j <= n} = kept
      BY <1>1
    <2>4. QED
      BY <2>2, <2>3, FS_EmptySet DEF Rank
  <1>4. ASSUME NEW i \in 0 .. n PROVE Rank(kept, i) \in Nat
    <2>1. {j \in kept : j <= i} \in SUBSET (1 .. n)
      OBVIOUS
    <2>2. QED
      BY <1>2, <2>1 DEF Rank
  <1>5. ASSUME NEW i \in 1 .. n
        PROVE  Rank(kept, i) = Rank(kept, i - 1) + (IF i \in kept THEN 1 ELSE 0)
    <2>1. PICK below : below = {j \in kept : j <= i - 1}
      OBVIOUS
    <2>2. IsFiniteSet(below) /\ i \notin below /\ Cardinality(below) \in Nat
      BY <1>2, <2>1
    <2>3. CASE i \in kept
      <3>1. {j \in kept : j <= i} = below \cup {i}
        <4>1. \A j \in kept : j <= i <=> j <= i - 1 \/ j = i
          BY <1>1
        <4>2. QED
          BY <2>1, <2>3, <4>1
      <3>2. QED
        BY <2>1, <2>2, <2>3, <3>1, FS_AddElement DEF Rank
    <2>4. CASE i \notin kept
      <3>1. \A j \in kept : j <= i <=> j <= i - 1
        BY <1>1, <2>4
      <3>2. {j \in kept : j <= i} = below
        BY <2>1, <3>1
      <3>3. QED
        BY <2>1, <2>2, <2>4, <3>2 DEF Rank
    <2>5. QED
      BY <2>3, <2>4
  <1>6. ASSUME NEW i \in 0 .. n, NEW j \in 0 .. n, i <= j PROVE Rank(kept, i) <= Rank(kept, j)
    <2>1. PICK more : more = {k \in kept : k <= j}
      OBVIOUS
    <2>2. \A k \in kept : k <= i => k <= j
      BY <1>1, <1>6
    <2>3. {k \in kept : k <= i} \in SUBSET more
      BY <2>1, <2>2
    <2>4. more \in SUBSET (1 .. n)
      BY <2>1
    <2>5. QED
      BY <1>2, <2>1, <2>3, <2>4, FS_Subset DEF Rank
  <1>7. QED
    BY <1>2, <1>3, <1>4, <1>5, <1>6

(* every number up to how many there are is the rank of one *)
LEMMA EveryRank ==
  ASSUME NEW n \in Nat, NEW kept \in SUBSET (1 .. n), NEW k \in 1 .. Cardinality(kept)
  PROVE  \E i \in kept : Rank(kept, i) = k
  <1> DEFINE Beyond == {i \in 0 .. n : Rank(kept, i) >= k}
  <1>1. n \in Beyond /\ Beyond \in SUBSET Nat
    BY Ranks
  <1>2. PICK m \in Beyond : \A i \in Beyond : m <= i
    BY <1>1, LeastNumber
  <1>3. k \in Nat /\ k >= 1
    BY Ranks
  <1>4. m \in 1 .. n /\ m - 1 \in 0 .. n
    <2>1. Rank(kept, 0) = 0 /\ Rank(kept, m) >= k /\ m \in 0 .. n
      BY <1>2, Ranks
    <2>2. QED
      BY <1>3, <2>1
  <1>5. Rank(kept, m - 1) < k
    <2>1. m - 1 \notin Beyond
      BY <1>2, <1>4
    <2>2. QED
      BY <1>4, <2>1, Ranks
  <1>6. Rank(kept, m) >= k
    BY <1>2
  <1>7. /\ Rank(kept, m) = Rank(kept, m - 1) + (IF m \in kept THEN 1 ELSE 0)
        /\ Rank(kept, m - 1) \in Nat
    <2>1. \A i \in 1 .. n : Rank(kept, i) = Rank(kept, i - 1) + (IF i \in kept THEN 1 ELSE 0)
      BY Ranks
    <2>2. \A i \in 0 .. n : Rank(kept, i) \in Nat
      BY Ranks
    <2>3. QED
      BY <1>4, <2>1, <2>2
  <1>8. QED
    BY <1>5, <1>6, <1>7

LEMMA RanksDiffer ==
  ASSUME NEW n \in Nat, NEW kept \in SUBSET (1 .. n), NEW i \in kept, NEW j \in kept, i < j
  PROVE  Rank(kept, i) < Rank(kept, j)
  <1>1. i \in 0 .. n /\ j - 1 \in 0 .. n /\ j \in 1 .. n /\ i <= j - 1
    OBVIOUS
  <1>2. Rank(kept, i) <= Rank(kept, j - 1)
    BY <1>1, Ranks
  <1>3. Rank(kept, j) = Rank(kept, j - 1) + 1 /\ Rank(kept, j - 1) \in Nat /\ Rank(kept, i) \in Nat
    BY <1>1, Ranks
  <1>4. QED
    BY <1>2, <1>3

LEMMA CountedUp == ASSUME NEW n \in Nat PROVE IsFiniteSet(1 .. n) /\ Cardinality(1 .. n) = n
  BY FS_Interval

LEMMA SameCardinality == \A some : H!Cardinality(some) = Cardinality(some)
  BY DEF H!Cardinality, Cardinality

(* Place(kept, k) is the one of rank k *)
LEMMA PlaceFits ==
  ASSUME NEW n \in Nat, NEW kept \in SUBSET (1 .. n), NEW k \in 1 .. Cardinality(kept)
  PROVE  Place(kept, k) \in kept /\ Rank(kept, Place(kept, k)) = k
  <1>1. PICK i \in kept : Rank(kept, i) = k
    BY EveryRank
  <1>2. Cardinality({j \in kept : j <= i}) = k
    BY <1>1 DEF Rank
  <1>3. Cardinality({j \in kept : j <= Place(kept, k)}) = k /\ Place(kept, k) \in kept
    BY <1>2, Zenon DEF Place
  <1>4. QED
    BY <1>3 DEF Rank

LEMMA PlacesGrow ==
  ASSUME NEW n \in Nat, NEW kept \in SUBSET (1 .. n),
         NEW k \in 1 .. Cardinality(kept), NEW l \in 1 .. Cardinality(kept), k < l
  PROVE  Place(kept, k) < Place(kept, l)
  <1>1. PICK i \in kept : i = Place(kept, k) /\ Rank(kept, i) = k
    BY PlaceFits
  <1>2. PICK j \in kept : j = Place(kept, l) /\ Rank(kept, j) = l
    BY PlaceFits
  <1>3. ~(j < i) /\ i # j
    BY <1>1, <1>2, RanksDiffer, Ranks
  <1>4. QED
    BY <1>1, <1>2, <1>3

LEMMA PlaceOfRank ==
  ASSUME NEW n \in Nat, NEW kept \in SUBSET (1 .. n), NEW i \in kept
  PROVE  Rank(kept, i) \in 1 .. Cardinality(kept) /\ Place(kept, Rank(kept, i)) = i
  <1>1. Rank(kept, i) \in 1 .. Cardinality(kept)
    <2>1. i \in 1 .. n /\ i - 1 \in 0 .. n /\ i \in 0 .. n /\ n \in 0 .. n
      OBVIOUS
    <2>2. Rank(kept, i) = Rank(kept, i - 1) + 1 /\ Rank(kept, i - 1) \in Nat
      BY <2>1, Ranks
    <2>3. Rank(kept, i) <= Cardinality(kept) /\ Cardinality(kept) \in Nat
      BY <2>1, Ranks
    <2>4. QED
      BY <2>2, <2>3
  <1>2. PICK j \in kept : j = Place(kept, Rank(kept, i)) /\ Rank(kept, j) = Rank(kept, i)
    BY <1>1, PlaceFits
  <1>3. Rank(kept, i) \in Int
    BY <1>1
  <1>4. ~(i < j) /\ ~(j < i)
    <2>1. i < j => Rank(kept, i) < Rank(kept, j)
      BY RanksDiffer
    <2>2. j < i => Rank(kept, j) < Rank(kept, i)
      BY RanksDiffer
    <2>3. QED
      BY <1>2, <1>3, <2>1, <2>2
  <1>5. i \in Int /\ j \in Int
    OBVIOUS
  <1>6. QED
    BY <1>1, <1>2, <1>4, <1>5

(* What is chosen from a sequence is a sequence of its elements, and has   *)
(* all those at the positions that are kept.                               *)
LEMMA ChosenFits ==
  ASSUME NEW S, NEW s \in Seq(S), NEW kept \in SUBSET (DOMAIN s), NEW c, c = Chosen(s, kept)
  PROVE  /\ c \in Seq(S)
         /\ Len(c) = Cardinality(kept)
         /\ \A k \in 1 .. Len(c) : \E i \in kept : c[k] = s[i]
         /\ \A i \in kept : \E k \in 1 .. Len(c) : c[k] = s[i]
  <1>1. PICK n \in Nat : n = Len(s) /\ DOMAIN s = 1 .. n
    OBVIOUS
  <1>2. kept \in SUBSET (1 .. n)
    BY <1>1
  <1>3. Cardinality(kept) \in Nat
    BY <1>2, Ranks
  <1>4. PICK number \in Nat : number = Cardinality(kept)
    BY <1>3
  <1>5. c = [k \in 1 .. number |-> s[Place(kept, k)]]
    BY <1>4 DEF Chosen
  <1>6. \A k \in 1 .. number : Place(kept, k) \in kept
    BY <1>2, <1>4, PlaceFits
  <1>7. \A i \in kept : Rank(kept, i) \in 1 .. number /\ Place(kept, Rank(kept, i)) = i
    BY <1>2, <1>4, PlaceOfRank
  <1>8. c \in Seq(S) /\ Len(c) = number
    BY <1>1, <1>5, <1>6
  <1>9. QED
    BY <1>4, <1>5, <1>6, <1>7, <1>8

LEMMA SameChoice ==
  ASSUME NEW s, NEW kept
  PROVE  H!Chosen(s, kept) = Chosen(s, kept) /\ T!Chosen(s, kept) = Chosen(s, kept)
  <1>1. \A k : H!Place(kept, k) = Place(kept, k) /\ T!Place(kept, k) = Place(kept, k)
    BY DEF H!Place, T!Place, Place, H!Cardinality, T!Cardinality, Cardinality
  <1>2. QED
    BY <1>1 DEF H!Chosen, T!Chosen, Chosen, H!Cardinality, T!Cardinality, Cardinality

-----------------------------------------------------------------------------
(* Transcript *)

Said == [id : Nat, task : Tasks, run : Nat]
Entries == [id : Nat, task : Tasks, at : {"stored", "later"}]
Seeds == [task : Tasks, stage : {"asked", "read", "settled"}, rows : Seq(Entries),
          cancelled : BOOLEAN]

TranscriptTyped ==
  /\ runs \in [Tasks -> Nat]
  /\ said \in Seq(Said) /\ speaking \in SUBSET Said
  /\ panel \in [task : Tasks, runs : Nat]
  /\ sent \in Seq(Entries) /\ seeds \in Seq(Seeds) /\ events \in Seq(Entries)

AllOf(t, entries) == \A i \in DOMAIN entries : entries[i].task = t

(* What is shown is of the task on show, and so is what a fetch brings     *)
(* that is not cancelled.                                                  *)
ShowsOneTask ==
  /\ AllOf(panel.task, events)
  /\ \A i \in DOMAIN seeds : /\ AllOf(seeds[i].task, seeds[i].rows)
                             /\ ~seeds[i].cancelled => seeds[i].task = panel.task

TranscriptInv == TranscriptTyped /\ ShowsOneTask

(* what was shown is among what is shown then, if the task is the same *)
Keeps(from, to) == \A i \in DOMAIN from : \E k \in DOMAIN to : to[k].id = from[i].id

KeepsShown == panel'.task = panel.task => Keeps(events, events')

LEMMA TranscriptInit == T!Init => TranscriptInv
  BY DEF T!Init, TranscriptInv, TranscriptTyped, ShowsOneTask, AllOf

LEMMA SeedFields ==
  ASSUME seeds \in Seq(Seeds), NEW i \in DOMAIN seeds
  PROVE  /\ seeds[i] \in Seeds /\ seeds[i].task \in Tasks /\ seeds[i].rows \in Seq(Entries)
         /\ DOMAIN seeds = 1 .. Len(seeds) /\ Len(seeds) \in Nat
  <1>1. seeds[i] \in Seeds
    OBVIOUS
  <1>2. QED
    BY <1>1 DEF Seeds

(* Rows are of the task and the run that were asked for. *)
LEMMA RowsFit ==
  ASSUME TranscriptTyped, NEW t \in Tasks, NEW rows, rows = T!listTranscript(t, 1)
  PROVE  /\ [k \in DOMAIN rows |-> T!Entry(rows[k], "stored")] \in Seq(Entries)
         /\ AllOf(t, [k \in DOMAIN rows |-> T!Entry(rows[k], "stored")])
  <1>1. PICK kept \in SUBSET (DOMAIN said) :
               kept = {i \in DOMAIN said : said[i].task = t /\ said[i].run = 1}
    OBVIOUS
  <1>2. rows = Chosen(said, kept)
    BY <1>1, SameChoice DEF T!listTranscript
  <1>3. said \in Seq(Said)
    BY DEF TranscriptTyped
  <1>4. rows \in Seq(Said) /\ \A k \in 1 .. Len(rows) : \E i \in kept : rows[k] = said[i]
    <2>1. PICK from \in Seq(Said) : from = said
      BY <1>3
    <2>2. kept \in SUBSET (DOMAIN from) /\ rows = Chosen(from, kept)
      BY <1>2, <2>1
    <2>3. rows \in Seq(Said) /\ \A k \in 1 .. Len(rows) : \E i \in kept : rows[k] = from[i]
      BY <2>2, ChosenFits, Z3
    <2>4. QED
      BY <2>1, <2>3
  <1>5. \A k \in 1 .. Len(rows) : rows[k] \in Said /\ rows[k].task = t
    BY <1>1, <1>4
  <1>6. DOMAIN rows = 1 .. Len(rows) /\ Len(rows) \in Nat
    BY <1>4
  <1>7. \A k \in 1 .. Len(rows) : /\ T!Entry(rows[k], "stored") \in Entries
                                 /\ T!Entry(rows[k], "stored").task = t
    BY <1>5 DEF T!Entry, Said, Entries
  <1>8. QED
    BY <1>6, <1>7 DEF AllOf

(* Merging a seed with what is shown keeps that and adds the seed's. *)
LEMMA MergeFits ==
  ASSUME NEW t, NEW seeded \in Seq(Entries), NEW prev \in Seq(Entries), AllOf(t, seeded),
         AllOf(t, prev), NEW merged, merged = T!mergeSeededWithLive(seeded, prev)
  PROVE  merged \in Seq(Entries) /\ AllOf(t, merged) /\ Keeps(prev, merged)
  <1>1. PICK seen : seen = {T!transcriptEventFingerprint(e) : e \in T!ToSet(seeded)}
    OBVIOUS
  <1>2. PICK kept \in SUBSET (DOMAIN prev) :
               kept = {i \in DOMAIN prev : T!transcriptEventFingerprint(prev[i]) \notin seen}
    OBVIOUS
  <1>3. PICK live : live = Chosen(prev, kept)
    OBVIOUS
  <1>4. merged = seeded \o live
    BY <1>1, <1>2, <1>3, SameChoice DEF T!mergeSeededWithLive
  <1>5. /\ live \in Seq(Entries)
        /\ \A k \in 1 .. Len(live) : \E i \in kept : live[k] = prev[i]
        /\ \A i \in kept : \E k \in 1 .. Len(live) : live[k] = prev[i]
    BY <1>3, ChosenFits
  <1>6. AllOf(t, live)
    BY <1>5 DEF AllOf
  <1>7. /\ merged \in Seq(Entries)
        /\ DOMAIN merged = 1 .. (Len(seeded) + Len(live))
        /\ Len(seeded) \in Nat /\ Len(live) \in Nat
        /\ \A k \in 1 .. Len(seeded) : merged[k] = seeded[k]
        /\ \A k \in 1 .. Len(live) : merged[Len(seeded) + k] = live[k]
    BY <1>4, <1>5
  <1>8. AllOf(t, merged)
    <2>1. ASSUME NEW k \in DOMAIN merged PROVE merged[k].task = t
      <3>1. CASE k <= Len(seeded)
        BY <1>7, <3>1 DEF AllOf
      <3>2. CASE k > Len(seeded)
        <4>1. k - Len(seeded) \in 1 .. Len(live) /\ Len(seeded) + (k - Len(seeded)) = k
          BY <1>7, <3>2
        <4>2. merged[k] = live[k - Len(seeded)]
          BY <1>7, <4>1
        <4>3. QED
          BY <1>5, <1>6, <4>1, <4>2 DEF AllOf
      <3>3. QED
        BY <1>7, <3>1, <3>2
    <2>2. QED
      BY <2>1 DEF AllOf
  <1>9. ASSUME NEW i \in DOMAIN prev PROVE \E k \in DOMAIN merged : merged[k].id = prev[i].id
    <2>1. CASE i \in kept
      <3>1. PICK k \in 1 .. Len(live) : live[k] = prev[i]
        BY <1>5, <2>1
      <3>2. Len(seeded) + k \in DOMAIN merged /\ merged[Len(seeded) + k] = prev[i]
        BY <1>7, <3>1
      <3>3. QED
        BY <3>2
    <2>2. CASE i \notin kept
      <3>1. T!transcriptEventFingerprint(prev[i]) \in seen
        BY <1>2, <2>2
      <3>2. PICK e \in T!ToSet(seeded) :
                   T!transcriptEventFingerprint(e) = T!transcriptEventFingerprint(prev[i])
        BY <1>1, <3>1
      <3>3. PICK k \in 1 .. Len(seeded) : e = seeded[k]
        BY <3>2 DEF T!ToSet
      <3>4. seeded[k].id = prev[i].id
        BY <3>2, <3>3 DEF T!transcriptEventFingerprint
      <3>5. k \in DOMAIN merged /\ merged[k] = seeded[k]
        BY <1>7
      <3>6. QED
        BY <3>4, <3>5
    <2>3. QED
      BY <2>1, <2>2
  <1>10. QED
    BY <1>7, <1>8, <1>9 DEF Keeps

(* A change of what is on show cancels every fetch and begins one for it. *)
LEMMA EffectFits ==
  ASSUME TranscriptTyped, NEW t \in Tasks, NEW n, T!SeedEffect(t, n), ShowsOneTask
  PROVE  /\ seeds' \in Seq(Seeds)
         /\ \A i \in DOMAIN seeds' : /\ AllOf(seeds'[i].task, seeds'[i].rows)
                                     /\ ~seeds'[i].cancelled => seeds'[i].task = t
  <1>1. PICK old : old = [i \in DOMAIN seeds |-> [seeds[i] EXCEPT !.cancelled = TRUE]]
    OBVIOUS
  <1>2. PICK new : new = [task |-> t, stage |-> "asked", rows |-> << >>, cancelled |-> FALSE]
    OBVIOUS
  <1>3. DOMAIN seeds = 1 .. Len(seeds) /\ Len(seeds) \in Nat
    BY DEF TranscriptTyped
  <1>4. ASSUME NEW i \in DOMAIN seeds
        PROVE  /\ old[i] \in Seeds
               /\ old[i].cancelled
               /\ old[i].task = seeds[i].task /\ old[i].rows = seeds[i].rows
    <2>1. seeds[i] \in Seeds
      BY SeedFields DEF TranscriptTyped
    <2>2. old[i] = [seeds[i] EXCEPT !.cancelled = TRUE]
      BY <1>1
    <2>3. QED
      BY <2>1, <2>2 DEF Seeds
  <1>5. old \in Seq(Seeds) /\ Len(old) = Len(seeds)
    BY <1>1, <1>3, <1>4
  <1>6. new \in Seeds /\ AllOf(t, new.rows) /\ new.task = t
    BY <1>2 DEF Seeds, AllOf
  <1>7. seeds' = old \/ seeds' = Append(old, new)
    <2>1. seeds' = old \o (IF n = 0 THEN << >> ELSE << new >>)
      BY <1>1, <1>2 DEF T!SeedEffect
    <2>2. old \o << >> = old /\ old \o << new >> = Append(old, new)
      BY <1>5
    <2>3. QED
      BY <2>1, <2>2
  <1>8. \A i \in DOMAIN old : AllOf(old[i].task, old[i].rows) /\ old[i].cancelled
    BY <1>1, <1>4 DEF ShowsOneTask
  <1>9. QED
    BY <1>5, <1>6, <1>7, <1>8

(* One fetch moves on. *)
LEMMA SeedMoves ==
  ASSUME TranscriptInv, NEW i \in DOMAIN seeds, NEW step \in {"asked", "read", "settled"},
         NEW rows \in Seq(Entries), AllOf(seeds[i].task, rows), panel' = panel,
         seeds' = [seeds EXCEPT ![i].stage = step, ![i].rows = rows]
  PROVE  /\ seeds' \in Seq(Seeds)
         /\ \A j \in DOMAIN seeds' : /\ AllOf(seeds'[j].task, seeds'[j].rows)
                                     /\ ~seeds'[j].cancelled => seeds'[j].task = panel'.task
  <1>1. seeds \in Seq(Seeds)
    BY DEF TranscriptInv, TranscriptTyped
  <1>2. DOMAIN seeds' = DOMAIN seeds /\ \A j \in DOMAIN seeds : j # i => seeds'[j] = seeds[j]
    BY <1>1
  <1>3. /\ seeds'[i] \in Seeds /\ seeds'[i].task = seeds[i].task /\ seeds'[i].rows = rows
        /\ seeds'[i].cancelled = seeds[i].cancelled
    <2>1. seeds[i] \in Seeds
      BY <1>1, SeedFields
    <2>2. seeds'[i] = [seeds[i] EXCEPT !.stage = step, !.rows = rows]
      BY <1>1
    <2>3. QED
      BY <2>1, <2>2 DEF Seeds
  <1>4. seeds' \in Seq(Seeds)
    <2>1. DOMAIN seeds = 1 .. Len(seeds) /\ Len(seeds) \in Nat
      BY <1>1, SeedFields
    <2>2. \A j \in DOMAIN seeds : seeds'[j] \in Seeds
      BY <1>1, <1>2, <1>3
    <2>3. PICK n \in Nat : n = Len(seeds)
      BY <2>1
    <2>4. PICK after : after = seeds'
      OBVIOUS
    <2>5. after = [j \in 1 .. n |-> after[j]]
      BY <1>1, <2>1, <2>3, <2>4
    <2>6. \A j \in 1 .. n : after[j] \in Seeds
      BY <2>1, <2>2, <2>3, <2>4
    <2>7. after \in Seq(Seeds)
      BY <2>5, <2>6
    <2>8. QED
      BY <2>4, <2>7
  <1>5. QED
    BY <1>2, <1>3, <1>4 DEF TranscriptInv, ShowsOneTask

LEMMA TranscriptStep ==
  ASSUME TranscriptInv, [T!Next]_(T!transcriptVars) PROVE TranscriptInv' /\ KeepsShown
  <1> USE DEF TranscriptInv
  <1>1. ASSUME NEW t \in Tasks, T!RunStarts(t) PROVE TranscriptInv' /\ KeepsShown
    BY <1>1 DEF T!RunStarts, TranscriptTyped, ShowsOneTask, KeepsShown, Keeps
  <1>2. ASSUME NEW t \in Tasks, T!Persist(t) PROVE TranscriptInv' /\ KeepsShown
    <2>1. PICK e : /\ e = [id |-> Len(said) + 1, task |-> t, run |-> runs[t]]
                   /\ said' = Append(said, e) /\ speaking' = speaking \cup {e}
      BY <1>2 DEF T!Persist
    <2>2. Len(said) + 1 \in Nat /\ runs[t] \in Nat
      BY DEF TranscriptTyped
    <2>3. e \in Said
      BY <2>1, <2>2 DEF Said
    <2>4. QED
      BY <1>2, <2>1, <2>3 DEF T!Persist, TranscriptTyped, ShowsOneTask, KeepsShown, Keeps
  <1>3. CASE T!Publish
    <2>1. PICK e \in speaking, at \in {"stored", "later"} :
                 /\ speaking' = speaking \ {e}
                 /\ sent' = IF feed = "open" THEN Append(sent, T!Entry(e, at)) ELSE sent
      BY <1>3 DEF T!Publish
    <2>2. T!Entry(e, at) \in Entries
      BY <2>1 DEF T!Entry, TranscriptTyped, Said, Entries
    <2>3. QED
      BY <1>3, <2>1, <2>2 DEF T!Publish, TranscriptTyped, ShowsOneTask, KeepsShown, Keeps
  <1>4. ASSUME NEW t \in Tasks, T!Show(t) PROVE TranscriptInv' /\ KeepsShown
    <2>1. /\ panel' = [task |-> t, runs |-> runs[t]] /\ events' = << >> /\ sent' = << >>
          /\ t # panel.task /\ UNCHANGED <<runs, said, speaking>>
      BY <1>4 DEF T!Show, T!StreamEffect
    <2>2. T!SeedEffect(t, runs[t])
      BY <1>4 DEF T!Show
    <2>3. /\ seeds' \in Seq(Seeds)
          /\ \A i \in DOMAIN seeds' : /\ AllOf(seeds'[i].task, seeds'[i].rows)
                                      /\ ~seeds'[i].cancelled => seeds'[i].task = t
      BY <2>2, EffectFits
    <2>4. QED
      BY <2>1, <2>3 DEF TranscriptTyped, ShowsOneTask, AllOf, KeepsShown
  <1>5. CASE T!SnapshotArrives
    <2>1. /\ panel' = [panel EXCEPT !.runs = runs[panel.task]] /\ sent' = << >>
          /\ UNCHANGED <<runs, said, speaking, events>>
      BY <1>5 DEF T!SnapshotArrives, T!StreamEffect
    <2>2. panel.task \in Tasks /\ panel'.task = panel.task /\ panel' \in [task : Tasks, runs : Nat]
      BY <2>1 DEF TranscriptTyped
    <2>3. T!SeedEffect(panel.task, panel'.runs)
      BY <1>5 DEF T!SnapshotArrives
    <2>4. /\ seeds' \in Seq(Seeds)
          /\ \A i \in DOMAIN seeds' : /\ AllOf(seeds'[i].task, seeds'[i].rows)
                                      /\ ~seeds'[i].cancelled => seeds'[i].task = panel.task
      BY <2>2, <2>3, EffectFits
    <2>5. QED
      BY <2>1, <2>2, <2>4 DEF TranscriptTyped, ShowsOneTask, KeepsShown, Keeps
  <1>6. ASSUME NEW i, T!SeedIsRead(i) PROVE TranscriptInv' /\ KeepsShown
    <2>1. PICK rows : rows = T!listTranscript(seeds[i].task, 1)
      OBVIOUS
    <2>2. PICK entries : entries = [k \in DOMAIN rows |-> T!Entry(rows[k], "stored")]
      OBVIOUS
    <2>3. /\ i \in DOMAIN seeds /\ seeds' = [seeds EXCEPT ![i].stage = "read", ![i].rows = entries]
          /\ UNCHANGED <<runs, said, speaking, panel, sent, events>>
      BY <1>6, <2>1, <2>2 DEF T!SeedIsRead
    <2>4. seeds[i].task \in Tasks
      BY <2>3, SeedFields DEF TranscriptTyped
    <2>5. entries \in Seq(Entries) /\ AllOf(seeds[i].task, entries)
      BY <2>1, <2>2, <2>4, RowsFit
    <2>6. QED
      BY <2>3, <2>5, SeedMoves DEF TranscriptTyped, ShowsOneTask, KeepsShown, Keeps
  <1>7. ASSUME NEW i, i \in DOMAIN seeds, T!Settle(i), panel' = panel
        PROVE  /\ seeds' \in Seq(Seeds)
               /\ \A j \in DOMAIN seeds' : /\ AllOf(seeds'[j].task, seeds'[j].rows)
                                           /\ ~seeds'[j].cancelled => seeds'[j].task = panel'.task
    <2>1. seeds' = [seeds EXCEPT ![i].stage = "settled", ![i].rows = << >>]
      BY <1>7 DEF T!Settle
    <2>2. << >> \in Seq(Entries) /\ AllOf(seeds[i].task, << >>)
      BY DEF AllOf
    <2>3. QED
      BY <1>7, <2>1, <2>2, SeedMoves
  <1>8. ASSUME NEW i, T!SeedReturns(i) PROVE TranscriptInv' /\ KeepsShown
    <2>1. /\ i \in DOMAIN seeds /\ T!Settle(i)
          /\ events' = IF seeds[i].cancelled THEN events
                       ELSE T!mergeSeededWithLive(seeds[i].rows, events)
          /\ UNCHANGED <<runs, said, speaking, panel, sent>>
      BY <1>8 DEF T!SeedReturns
    <2>2. events' \in Seq(Entries) /\ AllOf(panel.task, events') /\ Keeps(events, events')
      <3>1. CASE seeds[i].cancelled
        BY <2>1, <3>1 DEF TranscriptTyped, ShowsOneTask, Keeps
      <3>2. CASE ~seeds[i].cancelled
        <4>1. seeds[i].rows \in Seq(Entries) /\ AllOf(panel.task, seeds[i].rows)
          BY <2>1, <3>2, SeedFields DEF TranscriptTyped, ShowsOneTask
        <4>2. events \in Seq(Entries) /\ AllOf(panel.task, events)
          BY DEF TranscriptTyped, ShowsOneTask
        <4>3. QED
          BY <2>1, <3>2, <4>1, <4>2, MergeFits
      <3>3. QED
        BY <3>1, <3>2
    <2>3. QED
      BY <1>7, <2>1, <2>2 DEF TranscriptTyped, ShowsOneTask, KeepsShown
  <1>9. ASSUME NEW i, T!SeedFails(i) PROVE TranscriptInv' /\ KeepsShown
    BY <1>7, <1>9 DEF T!SeedFails, TranscriptTyped, ShowsOneTask, KeepsShown, Keeps
  <1>10. CASE T!Deliver
    <2>1. /\ sent # << >> /\ sent' = Tail(sent)
          /\ events' = IF Head(sent).task = panel.task THEN Append(events, Head(sent)) ELSE events
          /\ UNCHANGED <<runs, said, speaking, panel, seeds>>
      BY <1>10 DEF T!Deliver
    <2>2. events \in Seq(Entries) /\ sent \in Seq(Entries)
      BY DEF TranscriptTyped
    <2>3. Head(sent) \in Entries /\ sent' \in Seq(Entries)
      BY <2>1, <2>2
    <2>4. events' \in Seq(Entries) /\ AllOf(panel.task, events') /\ Keeps(events, events')
      <3>1. CASE Head(sent).task = panel.task
        <4>1. events' = Append(events, Head(sent))
          BY <2>1, <3>1
        <4>2. /\ events' \in Seq(Entries) /\ DOMAIN events \subseteq DOMAIN events'
              /\ \A k \in DOMAIN events : events'[k] = events[k]
              /\ \A k \in DOMAIN events' : k \in DOMAIN events \/ events'[k] = Head(sent)
          BY <2>2, <2>3, <4>1
        <4>3. QED
          BY <3>1, <4>2 DEF ShowsOneTask, AllOf, Keeps
      <3>2. CASE Head(sent).task # panel.task
        <4>1. events' = events
          BY <2>1, <3>2
        <4>2. QED
          BY <2>2, <4>1 DEF ShowsOneTask, Keeps
      <3>3. QED
        BY <3>1, <3>2
    <2>5. QED
      BY <2>1, <2>3, <2>4 DEF TranscriptTyped, ShowsOneTask, KeepsShown
  <1>11. CASE T!StreamBreaks \/ T!StreamReopens
    <2>1. sent' = << >> /\ UNCHANGED <<runs, said, speaking, panel, seeds, events>>
      BY <1>11 DEF T!StreamBreaks, T!StreamReopens, T!StreamEffect
    <2>2. sent' \in Seq(Entries)
      BY <2>1
    <2>3. QED
      BY <2>1, <2>2 DEF TranscriptTyped, ShowsOneTask, KeepsShown, Keeps
  <1>12. CASE UNCHANGED T!transcriptVars
    BY <1>12 DEF T!transcriptVars, TranscriptTyped, ShowsOneTask, KeepsShown, Keeps
  <1>13. QED
    BY <1>1, <1>2, <1>3, <1>4, <1>5, <1>6, <1>8, <1>9, <1>10, <1>11, <1>12 DEF T!Next

LEMMA TranscriptKeepsIt == TranscriptInv /\ [T!Next]_(T!transcriptVars) => TranscriptInv'
  BY TranscriptStep

LEMMA StepKeepsTranscript == [Next]_all => [T!Next]_(T!transcriptVars)
  BY DEF Next, all, transcriptVars, T!transcriptVars, OnHub, OnConnections, OnTranscript, OnPanel,
         OnPlanning, OnPull, OnDrag, OnPage

(* Transcript: whichever fetches and events arrive, in whatever order, of  *)
(* whatever task, the panel shows what was said in the task on show, and   *)
(* nothing that was shown of it goes away.                                 *)
THEOREM ShownIsKept == Spec => ShownStaysShown
  <1>1. Init => TranscriptInv
    BY TranscriptInit DEF Init
  <1>2. ASSUME TranscriptInv, [T!Next]_(T!transcriptVars)
        PROVE  /\ \A e \in T!ToSet(events') : e.task = panel'.task
               /\ panel'.task = panel.task =>
                    {e.id : e \in T!ToSet(events)} \subseteq {e.id : e \in T!ToSet(events')}
    <2>1. TranscriptInv' /\ KeepsShown
      BY <1>2, TranscriptStep
    <2>2. AllOf(panel'.task, events')
      BY <2>1 DEF TranscriptInv, ShowsOneTask
    <2>3. QED
      BY <2>1, <2>2 DEF KeepsShown, Keeps, AllOf, T!ToSet
  <1>3. TranscriptInv /\ [Next]_all =>
          [/\ \A e \in T!ToSet(events') : e.task = panel'.task
           /\ panel'.task = panel.task =>
                {e.id : e \in T!ToSet(events)} \subseteq {e.id : e \in T!ToSet(events')}
          ]_(T!transcriptVars)
    BY <1>2, StepKeepsTranscript
  <1>4. QED
    BY <1>1, <1>3, StepKeepsTranscript, TranscriptKeepsIt, PTL
       DEF Spec, ShownStaysShown, T!ShownStaysShown

-----------------------------------------------------------------------------
(* SubscriberHub: the trimming of a buffer *)

(* what trimming leaves of a buffer is of the buffer, has what is durable  *)
(* of it, and is in the same order                                         *)
TakenFrom(some, from) == \A k \in 1 .. Len(some) : \E i \in 1 .. Len(from) : some[k] = from[i]

KeepsDurable(some, from) ==
  \A i \in 1 .. Len(from) : from[i] # 0 => \E k \in 1 .. Len(some) : some[k] = from[i]

TakenInOrder(some, from) ==
  \A k, l \in 1 .. Len(some) : k < l =>
    \E i, j \in 1 .. Len(from) : i < j /\ some[k] = from[i] /\ some[l] = from[j]

(* What enforceBufferCap leaves of a buffer: it takes nothing but transient *)
(* events, keeps the order, and takes all of these before a buffer stays   *)
(* over its cap.                                                           *)
LEMMA TrimmedFits ==
  ASSUME NEW b \in Seq(Nat), NEW c, c = H!Trimmed(b), NEW len \in Nat, len = Len(b)
  PROVE  /\ c \in Seq(Nat)
         /\ TakenFrom(c, b)
         /\ TakenInOrder(c, b)
         /\ KeepsDurable(c, b)
         /\ Len(c) > BufferCap => \A k \in 1 .. Len(c) : c[k] # 0
  <1>1. BufferCap \in Nat
    BY HubBounds DEF H!BoundsAssumption
  <1>2. CASE len <= BufferCap
    <2>1. c = b
      BY <1>2 DEF H!Trimmed
    <2>2. TakenInOrder(b, b)
      BY DEF TakenInOrder
    <2>3. KeepsDurable(b, b) /\ TakenFrom(b, b)
      BY DEF KeepsDurable, TakenFrom
    <2>4. QED
      BY <1>1, <1>2, <2>1, <2>2, <2>3
  <1>3. CASE len > BufferCap
    <2>1. len - BufferCap \in Nat
      BY <1>1, <1>3
    <2>2. PICK n \in Nat : n = len - BufferCap
      BY <2>1
    <2>3. PICK transients \in SUBSET (1 .. len) : transients = {j \in 1 .. len : b[j] = 0}
      OBVIOUS
    <2>4. PICK first : first = {i \in transients : Rank(transients, i) <= n}
      OBVIOUS
    <2>5. H!FirstTransients(b, len - BufferCap) = first
      <3>1. \A i \in 1 .. len : {j \in 1 .. i : b[j] = 0} = {j \in transients : j <= i}
        BY <2>3
      <3>2. \A i \in 1 .. len : H!Cardinality({j \in 1 .. i : b[j] = 0}) = Rank(transients, i)
        BY <3>1, SameCardinality DEF Rank
      <3>3. DOMAIN b = 1 .. len
        OBVIOUS
      <3>4. H!FirstTransients(b, n) = {i \in 1 .. len : b[i] = 0 /\ Rank(transients, i) <= n}
        BY <3>2, <3>3 DEF H!FirstTransients, H!Transient
      <3>5. QED
        BY <2>2, <2>3, <2>4, <3>4
    <2>6. PICK kept \in SUBSET (1 .. len) : kept = (1 .. len) \ first
      OBVIOUS
    <2>7. c = [k \in 1 .. Cardinality(kept) |-> b[Place(kept, k)]]
      <3>1. DOMAIN b = 1 .. len /\ ~(len <= BufferCap)
        BY <1>1, <1>3
      <3>2. c = H!Chosen(b, kept)
        BY <2>5, <2>6, <3>1 DEF H!Trimmed
      <3>3. QED
        BY <3>2, SameChoice DEF Chosen
    <2>8. Cardinality(kept) \in Nat
      BY Ranks
    <2>9. ASSUME NEW k \in 1 .. Cardinality(kept)
          PROVE  Place(kept, k) \in kept /\ Place(kept, k) \in 1 .. len
      BY PlaceFits
    <2>10. c \in Seq(Nat) /\ Len(c) = Cardinality(kept)
      BY <2>7, <2>8, <2>9
    <2>11. ASSUME NEW k \in 1 .. Len(c) PROVE \E i \in 1 .. len : c[k] = b[i]
      BY <2>7, <2>9, <2>10
    <2>12. ASSUME NEW k \in 1 .. Len(c), NEW l \in 1 .. Len(c), k < l
           PROVE  \E i, j \in 1 .. len : i < j /\ c[k] = b[i] /\ c[l] = b[j]
      <3>1. k \in 1 .. Cardinality(kept) /\ l \in 1 .. Cardinality(kept)
        BY <2>10
      <3>2. Place(kept, k) < Place(kept, l)
        BY <2>12, <3>1, PlacesGrow
      <3>3. QED
        BY <2>7, <2>9, <2>10, <3>2
    <2>13. ASSUME NEW i \in 1 .. len, b[i] # 0 PROVE \E k \in 1 .. Len(c) : c[k] = b[i]
      <3>1. i \in kept
        BY <2>3, <2>4, <2>6, <2>13
      <3>2. Rank(kept, i) \in 1 .. Cardinality(kept) /\ Place(kept, Rank(kept, i)) = i
        BY <3>1, PlaceOfRank
      <3>3. QED
        BY <2>7, <2>10, <3>2
    <2>14. ASSUME Len(c) > BufferCap, NEW k \in 1 .. Len(c), c[k] = 0 PROVE FALSE
      <3>1. PICK i \in kept : c[k] = b[i]
        BY <2>7, <2>9, <2>10
      <3>2. i \in transients /\ ~(Rank(transients, i) <= n)
        BY <2>3, <2>4, <2>6, <2>14, <3>1
      <3>3. n <= Cardinality(transients) /\ Cardinality(transients) \in Nat
        <4>1. Rank(transients, i) \in 1 .. Cardinality(transients)
          BY <3>2, PlaceOfRank
        <4>2. Cardinality(transients) \in Nat
          BY Ranks
        <4>3. QED
          BY <3>2, <4>1, <4>2
      <3>4. PICK number : number = [q \in 1 .. n |-> Place(transients, q)]
        OBVIOUS
      <3>5. \A q \in 1 .. n : q \in 1 .. Cardinality(transients)
        BY <3>3
      <3>6. ASSUME NEW q \in 1 .. n
            PROVE  number[q] \in first /\ Rank(transients, number[q]) = q
        <4>1. Place(transients, q) \in transients /\ Rank(transients, Place(transients, q)) = q
          BY <3>5, PlaceFits
        <4>2. QED
          BY <2>4, <3>4, <4>1
      <3>7. ASSUME NEW q \in 1 .. n, NEW p \in 1 .. n, number[q] = number[p] PROVE q = p
        <4>1. Rank(transients, number[q]) = q /\ Rank(transients, number[p]) = p
          BY <3>6
        <4>2. QED
          BY <3>7, <4>1
      <3>8. number \in Injection(1 .. n, first)
        BY <3>4, <3>6, <3>7 DEF Injection, IsInjective
      <3>9. IsFiniteSet(first) /\ Cardinality(first) \in Nat /\ first \in SUBSET (1 .. len)
        <4>1. first \in SUBSET (1 .. len)
          BY <2>4
        <4>2. QED
          BY <4>1, Ranks
      <3>10. n <= Cardinality(first)
        <4>1. Cardinality(1 .. n) = n
          BY FS_Interval
        <4>2. QED
          BY <3>8, <3>9, <4>1, FS_Injection
      <3>11. Cardinality(kept) = len - Cardinality(first)
        <4>1. IsFiniteSet(1 .. len) /\ Cardinality(1 .. len) = len
          BY CountedUp
        <4>2. (1 .. len) \cap first = first
          BY <3>9
        <4>3. QED
          BY <2>6, <4>1, <4>2, FS_Difference
      <3>12. QED
        BY <1>1, <2>2, <2>8, <2>10, <2>14, <3>9, <3>10, <3>11
    <2>15. TakenInOrder(c, b)
      BY <2>12 DEF TakenInOrder
    <2>16. KeepsDurable(c, b) /\ TakenFrom(c, b)
      BY <2>11, <2>13 DEF KeepsDurable, TakenFrom
    <2>17. QED
      BY <2>10, <2>14, <2>15, <2>16
  <1>4. QED
    BY <1>1, <1>2, <1>3
-----------------------------------------------------------------------------
(* SubscriberHub: what a subscriber has *)

HubStages == {"off", "new", "replay", "live", "waiting", "ending"}

HubTyped ==
  /\ latest \in Nat /\ losses \in Nat
  /\ stage \in [Subscribers -> HubStages]
  /\ buffer \in [Subscribers -> Seq(Nat)] /\ replay \in [Subscribers -> Seq(Nat)]
  /\ wire \in [Subscribers -> Seq(Nat)]
  /\ lastYielded \in [Subscribers -> Nat] /\ received \in [Subscribers -> Nat]
  /\ aborted \in [Subscribers -> BOOLEAN]

(* the frames on the way go on from the reader's cursor, ... *)
OnTheWay(last, frames, cursor) ==
  /\ \A i \in 1 .. Len(frames) : frames[i] = cursor + i
  /\ cursor + Len(frames) <= last

(* ... the rest of the replay from what was yielded, ... *)
Replaying(last, at, rest, yielded) ==
  /\ at = "replay" => \A i \in 1 .. Len(rest) : rest[i] = yielded + i
  /\ at = "replay" => yielded + Len(rest) <= last
  /\ at \in {"live", "waiting"} => rest = << >>

(* ... the durable events of the buffer are in order, ... *)
InOrder(last, b) ==
  /\ \A i \in 1 .. Len(b) : b[i] <= last
  /\ \A i, j \in 1 .. Len(b) :
       i < j /\ b[i] # 0 /\ b[j] # 0 => b[i] < b[j]

(* ... and what is later than the replay is among them. *)
NothingMissed(last, at, b, rest, yielded) ==
  at \in {"replay", "live", "waiting"} =>
    \A e \in Nat : yielded + Len(rest) < e /\ e <= last => \E i \in 1 .. Len(b) : b[i] = e

HubFits(s) ==
  /\ OnTheWay(latest, wire[s], received[s])
  /\ stage[s] # "off" => lastYielded[s] = received[s] + Len(wire[s])
  /\ stage[s] = "off" => buffer[s] = << >>
  /\ Replaying(latest, stage[s], replay[s], lastYielded[s])
  /\ InOrder(latest, buffer[s])
  /\ NothingMissed(latest, stage[s], buffer[s], replay[s], lastYielded[s])

HubInv == HubTyped /\ \A s \in Subscribers : HubFits(s)

LEMMA HubStarts == H!Init => HubInv
  BY DEF H!Init, HubInv, HubTyped, HubStages, HubFits, OnTheWay, Replaying, InOrder, NothingMissed

(* A step of one subscriber and its reader leaves the others as they are. *)
Untouched(s) ==
  \A d \in Subscribers \ {s} :
    /\ stage'[d] = stage[d] /\ buffer'[d] = buffer[d] /\ replay'[d] = replay[d]
    /\ wire'[d] = wire[d] /\ received'[d] = received[d] /\ lastYielded'[d] = lastYielded[d]

LEMMA OneMoves ==
  ASSUME HubInv, HubTyped', latest' = latest, NEW s \in Subscribers, Untouched(s), HubFits(s)'
  PROVE  HubInv'
  <1>1. ASSUME NEW d \in Subscribers, d # s PROVE HubFits(d)'
    <2>1. HubFits(d)
      BY DEF HubInv
    <2>2. /\ stage'[d] = stage[d] /\ buffer'[d] = buffer[d] /\ replay'[d] = replay[d]
          /\ wire'[d] = wire[d] /\ received'[d] = received[d] /\ lastYielded'[d] = lastYielded[d]
      BY <1>1 DEF Untouched
    <2>3. QED
      BY <2>1, <2>2 DEF HubFits
  <1>2. QED
    BY <1>1 DEF HubInv

LEMMA BetweenFits ==
  ASSUME NEW from \in Nat, NEW to \in Nat, from <= to
  PROVE  /\ H!Between(from, to) \in Seq(Nat) /\ Len(H!Between(from, to)) = to - from
         /\ \A i \in 1 .. (to - from) : H!Between(from, to)[i] = from + i
  <1>1. to - from \in Nat
    OBVIOUS
  <1>2. \A i \in 1 .. (to - from) : from + i \in Nat
    OBVIOUS
  <1>3. H!Between(from, to) = [i \in 1 .. (to - from) |-> from + i]
    BY DEF H!Between
  <1>4. QED
    BY <1>1, <1>2, <1>3

(* to subscribe, read the log and go on to the buffer *)
LEMMA SubscribeFits == ASSUME HubInv, NEW s \in Subscribers, H!Subscribe(s) PROVE HubInv'
  <1>1. HubTyped'
    BY DEF HubInv, HubTyped, HubStages, H!Subscribe, H!reader
  <1>2. Untouched(s) /\ latest' = latest
    BY DEF HubInv, HubTyped, H!Subscribe, H!reader, Untouched
  <1>3. /\ stage'[s] = "new" /\ lastYielded'[s] = received[s] /\ wire[s] = << >>
        /\ UNCHANGED <<buffer, replay, wire, received>>
    BY DEF HubInv, HubTyped, H!Subscribe, H!reader
  <1>4. HubFits(s) /\ received[s] \in Nat
    BY DEF HubInv, HubTyped
  <1>5. HubFits(s)'
    BY <1>2, <1>3, <1>4 DEF HubFits, OnTheWay, Replaying, InOrder, NothingMissed
  <1>6. QED
    BY <1>1, <1>2, <1>5, OneMoves

LEMMA StartReplayFits == ASSUME HubInv, NEW s \in Subscribers, H!StartReplay(s) PROVE HubInv'
  <1>1. HubFits(s) /\ stage[s] = "new" /\ latest \in Nat /\ lastYielded[s] \in Nat
    BY DEF HubInv, HubTyped, H!StartReplay
  <1>2. lastYielded[s] <= latest
    BY <1>1 DEF HubFits, OnTheWay
  <1>3. PICK rest \in Seq(Nat) : rest = H!Between(lastYielded[s], latest)
    BY <1>1, <1>2, BetweenFits
  <1>4. /\ Len(rest) = latest - lastYielded[s]
        /\ \A i \in 1 .. Len(rest) : rest[i] = lastYielded[s] + i
    BY <1>1, <1>2, <1>3, BetweenFits
  <1>5. HubTyped'
    BY <1>3 DEF HubInv, HubTyped, HubStages, H!StartReplay, H!reader
  <1>6. Untouched(s) /\ latest' = latest
    BY DEF HubInv, HubTyped, H!StartReplay, H!reader, Untouched
  <1>7. /\ stage'[s] = "replay" /\ replay'[s] = rest
        /\ UNCHANGED <<buffer, lastYielded, wire, received>>
    BY <1>3 DEF HubInv, HubTyped, H!StartReplay, H!reader
  <1>8. Replaying(latest, "replay", rest, lastYielded[s])
    BY <1>1, <1>4 DEF Replaying
  <1>9. NothingMissed(latest, "replay", buffer[s], rest, lastYielded[s])
    BY <1>1, <1>4 DEF NothingMissed
  <1>10. HubFits(s)'
    BY <1>1, <1>6, <1>7, <1>8, <1>9 DEF HubFits
  <1>11. QED
    BY <1>5, <1>6, <1>10, OneMoves

(* What is yielded is the event after the last one. *)
LEMMA YieldFits ==
  ASSUME HubInv, NEW s \in Subscribers, stage[s] # "off", NEW e \in Nat, e = lastYielded[s] + 1,
         e <= latest, H!Yield(s, e)
  PROVE  /\ wire' \in [Subscribers -> Seq(Nat)] /\ lastYielded' \in [Subscribers -> Nat]
         /\ lastYielded'[s] = e
         /\ OnTheWay(latest, wire'[s], received[s])
         /\ e = received[s] + Len(wire'[s])
         /\ \A d \in Subscribers \ {s} : wire'[d] = wire[d] /\ lastYielded'[d] = lastYielded[d]
  <1>1. /\ wire' = [wire EXCEPT ![s] = Append(wire[s], e)]
        /\ lastYielded' = [lastYielded EXCEPT ![s] = e]
    BY DEF H!Yield
  <1>2. wire \in [Subscribers -> Seq(Nat)] /\ lastYielded \in [Subscribers -> Nat]
    BY DEF HubInv, HubTyped
  <1>3. PICK frames \in Seq(Nat) : frames = wire[s]
    BY <1>2
  <1>4. wire'[s] = Append(frames, e) /\ Append(frames, e) \in Seq(Nat)
    BY <1>1, <1>2, <1>3
  <1>5. /\ \A i \in 1 .. Len(frames) : frames[i] = received[s] + i
        /\ e = received[s] + Len(frames) + 1 /\ received[s] \in Nat /\ latest \in Nat
    BY <1>3 DEF HubInv, HubTyped, HubFits, OnTheWay
  <1>6. OnTheWay(latest, Append(frames, e), received[s]) /\ e = received[s] + Len(Append(frames, e))
    BY <1>3, <1>5 DEF OnTheWay
  <1>7. QED
    BY <1>1, <1>2, <1>4, <1>6
LEMMA YieldReplayedFits == ASSUME HubInv, NEW s \in Subscribers, H!YieldReplayed(s) PROVE HubInv'
  <1>1. /\ HubFits(s) /\ latest \in Nat /\ lastYielded[s] \in Nat /\ received[s] \in Nat
        /\ stage[s] = "replay" /\ replay[s] # << >>
    BY DEF HubInv, HubTyped, H!YieldReplayed
  <1>2. PICK rest \in Seq(Nat) : rest = replay[s]
    BY DEF HubInv, HubTyped
  <1>3. /\ Len(rest) >= 1 /\ Head(rest) = rest[1]
        /\ Tail(rest) \in Seq(Nat) /\ Len(Tail(rest)) = Len(rest) - 1
        /\ \A i \in 1 .. Len(Tail(rest)) : Tail(rest)[i] = rest[i + 1]
    BY <1>1, <1>2
  <1>4. /\ \A i \in 1 .. Len(rest) : rest[i] = lastYielded[s] + i
        /\ lastYielded[s] + Len(rest) <= latest
    BY <1>1, <1>2 DEF HubFits, Replaying
  <1>5. PICK e \in Nat : e = Head(rest) /\ e = lastYielded[s] + 1 /\ e <= latest
    BY <1>1, <1>3, <1>4
  <1>6. H!Yield(s, e) /\ replay' = [replay EXCEPT ![s] = Tail(rest)]
    BY <1>2, <1>5 DEF H!YieldReplayed
  <1>7. UNCHANGED <<latest, losses, received, stage, buffer, aborted>>
    BY DEF H!YieldReplayed, H!reader
  <1>8. /\ wire' \in [Subscribers -> Seq(Nat)] /\ lastYielded' \in [Subscribers -> Nat]
        /\ lastYielded'[s] = e
        /\ OnTheWay(latest, wire'[s], received[s])
        /\ e = received[s] + Len(wire'[s])
        /\ \A d \in Subscribers \ {s} : wire'[d] = wire[d] /\ lastYielded'[d] = lastYielded[d]
    BY <1>1, <1>5, <1>6, YieldFits
  <1>9. /\ replay' \in [Subscribers -> Seq(Nat)] /\ replay'[s] = Tail(rest)
        /\ \A d \in Subscribers \ {s} : replay'[d] = replay[d]
    BY <1>3, <1>6 DEF HubInv, HubTyped
  <1>10. HubTyped'
    BY <1>7, <1>8, <1>9 DEF HubInv, HubTyped
  <1>11. Untouched(s)
    BY <1>7, <1>8, <1>9 DEF Untouched
  <1>12. Replaying(latest, "replay", Tail(rest), e)
    <2>1. ASSUME NEW i \in 1 .. Len(Tail(rest)) PROVE Tail(rest)[i] = e + i
      <3>1. i + 1 \in 1 .. Len(rest) /\ Tail(rest)[i] = rest[i + 1] /\ i \in Int
        BY <1>3
      <3>2. rest[i + 1] = lastYielded[s] + (i + 1)
        BY <1>4, <3>1
      <3>3. QED
        <4>1. PICK yielded \in Nat : yielded = lastYielded[s] /\ e = yielded + 1
          BY <1>1, <1>5
        <4>2. lastYielded[s] + (i + 1) = e + i
          BY <3>1, <4>1
        <4>3. QED
          BY <3>1, <3>2, <4>2
    <2>2. e + Len(Tail(rest)) <= latest
      BY <1>1, <1>3, <1>4, <1>5
    <2>3. QED
      BY <2>1, <2>2 DEF Replaying
  <1>13. NothingMissed(latest, "replay", buffer[s], Tail(rest), e)
    <2>1. e + Len(Tail(rest)) = lastYielded[s] + Len(rest)
      BY <1>1, <1>2, <1>3, <1>5
    <2>2. NothingMissed(latest, "replay", buffer[s], rest, lastYielded[s])
      BY <1>1, <1>2 DEF HubFits
    <2>3. QED
      BY <2>1, <2>2 DEF NothingMissed
  <1>14. HubFits(s)'
    BY <1>1, <1>7, <1>8, <1>9, <1>12, <1>13 DEF HubFits
  <1>15. QED
    BY <1>7, <1>10, <1>11, <1>14, OneMoves

LEMMA EndReplayFits == ASSUME HubInv, NEW s \in Subscribers, H!EndReplay(s) PROVE HubInv'
  <1>1. /\ HubFits(s) /\ latest \in Nat /\ stage[s] = "replay" /\ replay[s] = << >>
    BY DEF HubInv, HubTyped, H!EndReplay
  <1>2. HubTyped'
    BY DEF HubInv, HubTyped, HubStages, H!EndReplay, H!reader
  <1>3. Untouched(s) /\ latest' = latest
    BY DEF HubInv, HubTyped, H!EndReplay, H!reader, Untouched
  <1>4. /\ stage'[s] \in {"ending", "live"}
        /\ UNCHANGED <<replay, buffer, lastYielded, wire, received>>
    BY DEF HubInv, HubTyped, H!EndReplay, H!reader
  <1>5. HubFits(s)'
    BY <1>1, <1>3, <1>4 DEF HubFits, Replaying, NothingMissed
  <1>6. QED
    BY <1>2, <1>3, <1>5, OneMoves

(* the buffer without its first event is still in order *)
LEMMA TailInOrder ==
  ASSUME NEW last \in Nat, NEW b \in Seq(Nat), b # << >>, InOrder(last, b)
  PROVE  /\ Tail(b) \in Seq(Nat) /\ InOrder(last, Tail(b))
         /\ Head(b) = b[1] /\ Head(b) \in Nat /\ Head(b) <= last /\ 1 \in 1 .. Len(b)
         /\ \A i \in 1 .. Len(b) : i # 1 => i - 1 \in 1 .. Len(Tail(b)) /\ Tail(b)[i - 1] = b[i]
  <1>1. /\ Tail(b) \in Seq(Nat) /\ Len(Tail(b)) = Len(b) - 1 /\ Len(b) >= 1
        /\ \A i \in 1 .. Len(Tail(b)) : Tail(b)[i] = b[i + 1] /\ i + 1 \in 1 .. Len(b)
        /\ Head(b) = b[1] /\ b[1] \in Nat
    OBVIOUS
  <1>2. InOrder(last, Tail(b))
    BY <1>1 DEF InOrder
  <1>3. QED
    BY <1>1, <1>2 DEF InOrder

LEMMA PassByFits == ASSUME HubInv, NEW s \in Subscribers, H!PassBy(s) PROVE HubInv'
  <1>1. /\ HubFits(s) /\ latest \in Nat /\ lastYielded[s] \in Nat
        /\ stage[s] = "live" /\ buffer[s] # << >> /\ replay[s] = << >>
    BY DEF HubInv, HubTyped, H!PassBy, HubFits, Replaying
  <1>2. PICK b \in Seq(Nat) : b = buffer[s]
    BY DEF HubInv, HubTyped
  <1>3. InOrder(latest, b) /\ (b[1] = 0 \/ b[1] <= lastYielded[s])
    BY <1>1, <1>2, TailInOrder DEF HubFits, H!PassBy, H!Transient
  <1>4. /\ Tail(b) \in Seq(Nat) /\ InOrder(latest, Tail(b))
        /\ \A i \in 1 .. Len(b) : i # 1 => i - 1 \in 1 .. Len(Tail(b)) /\ Tail(b)[i - 1] = b[i]
    BY <1>1, <1>2, <1>3, TailInOrder
  <1>5. /\ buffer' = [buffer EXCEPT ![s] = Tail(b)]
        /\ UNCHANGED <<latest, losses, received, stage, replay, lastYielded, aborted, wire>>
    BY <1>2 DEF H!PassBy, H!reader
  <1>6. HubTyped' /\ buffer'[s] = Tail(b)
    BY <1>4, <1>5 DEF HubInv, HubTyped
  <1>7. Untouched(s)
    BY <1>5 DEF HubInv, HubTyped, Untouched
  <1>8. NothingMissed(latest, "live", Tail(b), << >>, lastYielded[s])
    <2>1. ASSUME NEW e \in Nat, lastYielded[s] < e, e <= latest
          PROVE  \E i \in 1 .. Len(Tail(b)) : Tail(b)[i] = e
      <3>1. PICK i \in 1 .. Len(b) : b[i] = e
        BY <1>1, <1>2, <2>1 DEF HubFits, NothingMissed
      <3>2. i # 1
        BY <1>1, <1>3, <2>1, <3>1
      <3>3. QED
        BY <1>4, <3>1, <3>2
    <2>2. QED
      BY <1>1, <2>1 DEF NothingMissed
  <1>9. HubFits(s)'
    BY <1>1, <1>4, <1>5, <1>6, <1>8 DEF HubFits
  <1>10. QED
    BY <1>5, <1>6, <1>7, <1>9, OneMoves

(* What the buffer has after the last event yielded starts with the next   *)
(* one: that is in the buffer, and nothing durable before it is later.     *)
LEMMA YieldBufferedFits == ASSUME HubInv, NEW s \in Subscribers, H!YieldBuffered(s) PROVE HubInv'
  <1>1. /\ HubFits(s) /\ latest \in Nat /\ lastYielded[s] \in Nat /\ received[s] \in Nat
        /\ stage[s] = "live" /\ buffer[s] # << >> /\ replay[s] = << >>
    BY DEF HubInv, HubTyped, H!YieldBuffered, HubFits, Replaying
  <1>2. PICK b \in Seq(Nat) : b = buffer[s]
    BY DEF HubInv, HubTyped
  <1>3. InOrder(latest, b) /\ Head(b) > lastYielded[s]
    BY <1>2 DEF HubInv, HubFits, H!YieldBuffered
  <1>4. /\ Tail(b) \in Seq(Nat) /\ InOrder(latest, Tail(b))
        /\ Head(b) = b[1] /\ Head(b) \in Nat /\ Head(b) <= latest /\ 1 \in 1 .. Len(b)
        /\ \A i \in 1 .. Len(b) : i # 1 => i - 1 \in 1 .. Len(Tail(b)) /\ Tail(b)[i - 1] = b[i]
    BY <1>1, <1>2, <1>3, TailInOrder
  <1>5. \A e \in Nat : lastYielded[s] < e /\ e <= latest => \E i \in 1 .. Len(b) : b[i] = e
    BY <1>1, <1>2 DEF HubFits, NothingMissed
  <1>6. Head(b) = lastYielded[s] + 1
    <2>1. PICK i \in 1 .. Len(b) : b[i] = lastYielded[s] + 1
      BY <1>1, <1>3, <1>4, <1>5
    <2>2. CASE i = 1
      BY <1>4, <2>1, <2>2
    <2>3. CASE i # 1
      <3>1. 1 < i /\ b[1] # 0 /\ b[i] # 0
        BY <1>1, <1>3, <1>4, <2>1, <2>3
      <3>2. b[1] < b[i]
        BY <1>3, <1>4, <3>1 DEF InOrder
      <3>3. QED
        BY <1>1, <1>3, <1>4, <2>1, <3>2
    <2>4. QED
      BY <2>2, <2>3
  <1>7. PICK e \in Nat : e = Head(b) /\ e = lastYielded[s] + 1 /\ e <= latest
    BY <1>4, <1>6
  <1>8. H!Yield(s, e) /\ buffer' = [buffer EXCEPT ![s] = Tail(b)]
    BY <1>2, <1>7 DEF H!YieldBuffered
  <1>9. UNCHANGED <<latest, losses, received, stage, replay, aborted>>
    BY DEF H!YieldBuffered, H!reader
  <1>10. /\ wire' \in [Subscribers -> Seq(Nat)] /\ lastYielded' \in [Subscribers -> Nat]
         /\ lastYielded'[s] = e
         /\ OnTheWay(latest, wire'[s], received[s])
         /\ e = received[s] + Len(wire'[s])
         /\ \A d \in Subscribers \ {s} : wire'[d] = wire[d] /\ lastYielded'[d] = lastYielded[d]
    BY <1>1, <1>7, <1>8, YieldFits
  <1>11. /\ buffer' \in [Subscribers -> Seq(Nat)] /\ buffer'[s] = Tail(b)
         /\ \A d \in Subscribers \ {s} : buffer'[d] = buffer[d]
    BY <1>4, <1>8 DEF HubInv, HubTyped
  <1>12. HubTyped'
    BY <1>9, <1>10, <1>11 DEF HubInv, HubTyped
  <1>13. Untouched(s)
    BY <1>9, <1>10, <1>11 DEF Untouched
  <1>14. NothingMissed(latest, "live", Tail(b), << >>, e)
    <2>1. ASSUME NEW f \in Nat, e < f, f <= latest
          PROVE  \E i \in 1 .. Len(Tail(b)) : Tail(b)[i] = f
      <3>1. PICK i \in 1 .. Len(b) : b[i] = f
        BY <1>1, <1>5, <1>7, <2>1
      <3>2. i # 1
        BY <1>4, <1>7, <2>1, <3>1
      <3>3. QED
        BY <1>4, <3>1, <3>2
    <2>2. QED
      BY <2>1 DEF NothingMissed
  <1>15. Replaying(latest, "live", << >>, e)
    BY DEF Replaying
  <1>16. HubFits(s)'
    BY <1>1, <1>4, <1>9, <1>10, <1>11, <1>14, <1>15 DEF HubFits
  <1>17. QED
    BY <1>9, <1>12, <1>13, <1>16, OneMoves

LEMMA WaitFits == ASSUME HubInv, NEW s \in Subscribers, H!Wait(s) PROVE HubInv'
  <1>1. HubFits(s) /\ stage[s] = "live"
    BY DEF HubInv, HubTyped, H!Wait
  <1>2. HubTyped'
    BY DEF HubInv, HubTyped, HubStages, H!Wait, H!reader
  <1>3. Untouched(s) /\ latest' = latest
    BY DEF HubInv, HubTyped, H!Wait, H!reader, Untouched
  <1>4. /\ stage'[s] = "waiting"
        /\ UNCHANGED <<replay, buffer, lastYielded, wire, received>>
    BY DEF HubInv, HubTyped, H!Wait, H!reader
  <1>5. HubFits(s)'
    BY <1>1, <1>3, <1>4 DEF HubFits, Replaying, NothingMissed
  <1>6. QED
    BY <1>2, <1>3, <1>5, OneMoves

(* Whoever is unregistered has nothing but the frames on the way. *)
LEMMA UnregisterFits ==
  ASSUME HubInv, NEW s \in Subscribers, H!Unregister(s), UNCHANGED <<latest, received, lastYielded>>,
         losses' \in Nat, aborted' \in [Subscribers -> BOOLEAN],
         wire' = wire \/ wire' = [wire EXCEPT ![s] = << >>]
  PROVE  HubInv'
  <1>1. /\ stage' \in [Subscribers -> HubStages] /\ buffer' \in [Subscribers -> Seq(Nat)]
        /\ replay' \in [Subscribers -> Seq(Nat)] /\ wire' \in [Subscribers -> Seq(Nat)]
    <2>1. /\ stage' = [stage EXCEPT ![s] = "off"] /\ buffer' = [buffer EXCEPT ![s] = << >>]
          /\ replay' = [replay EXCEPT ![s] = << >>]
      BY DEF H!Unregister
    <2>2. << >> \in Seq(Nat) /\ "off" \in HubStages
      BY DEF HubStages
    <2>3. wire' \in [Subscribers -> Seq(Nat)]
      BY <2>2 DEF HubInv, HubTyped
    <2>4. QED
      BY <2>1, <2>2, <2>3 DEF HubInv, HubTyped
  <1>2. HubTyped'
    BY <1>1 DEF HubInv, HubTyped
  <1>3. Untouched(s)
    BY DEF HubInv, HubTyped, H!Unregister, Untouched
  <1>4. /\ stage'[s] = "off" /\ buffer'[s] = << >> /\ replay'[s] = << >>
        /\ wire'[s] = wire[s] \/ wire'[s] = << >>
    BY DEF HubInv, HubTyped, H!Unregister
  <1>5. OnTheWay(latest, wire'[s], received[s])
    <2>1. OnTheWay(latest, wire[s], received[s]) /\ received[s] \in Nat /\ latest \in Nat
      BY DEF HubInv, HubTyped, HubFits
    <2>2. received[s] <= latest
      <3>1. Len(wire[s]) \in Nat
        BY DEF HubInv, HubTyped
      <3>2. QED
        BY <2>1, <3>1 DEF OnTheWay
    <2>3. OnTheWay(latest, << >>, received[s])
      BY <2>1, <2>2 DEF OnTheWay
    <2>4. QED
      BY <1>4, <2>1, <2>3
  <1>6. HubFits(s)'
    BY <1>4, <1>5 DEF HubFits, Replaying, InOrder, NothingMissed
  <1>7. QED
    BY <1>2, <1>3, <1>6, OneMoves
(* What is pushed, and then trimmed, keeps what was and adds what is new. *)
LEMMA PushFits ==
  ASSUME NEW last \in Nat, NEW next \in Nat, last <= next, NEW b \in Seq(Nat), NEW new \in Seq(Nat),
         InOrder(last, b), InOrder(next, new), \A i \in 1 .. Len(new) : new[i] # 0 => new[i] > last
  PROVE  /\ b \o new \in Seq(Nat) /\ InOrder(next, b \o new)
         /\ \A i \in 1 .. Len(b) : \E k \in 1 .. Len(b \o new) : (b \o new)[k] = b[i]
         /\ \A i \in 1 .. Len(new) : \E k \in 1 .. Len(b \o new) : (b \o new)[k] = new[i]
  <1>1. b \o new \in Seq(Nat)
    OBVIOUS
  <1>2. PICK both \in Seq(Nat) : both = b \o new
    BY <1>1
  <1>3. /\ Len(both) = Len(b) + Len(new) /\ Len(b) \in Nat /\ Len(new) \in Nat
        /\ \A i \in 1 .. Len(b) : both[i] = b[i] /\ b[i] \in Nat
        /\ \A i \in 1 .. Len(new) : both[Len(b) + i] = new[i] /\ new[i] \in Nat
    BY <1>2
  <1>4. \A i \in 1 .. Len(both) :
          i \in 1 .. Len(b) \/ (i - Len(b) \in 1 .. Len(new) /\ both[i] = new[i - Len(b)])
    <2>1. ASSUME NEW i \in 1 .. Len(both), i \notin 1 .. Len(b)
          PROVE  i - Len(b) \in 1 .. Len(new) /\ both[i] = new[i - Len(b)]
      <3>1. i - Len(b) \in 1 .. Len(new) /\ Len(b) + (i - Len(b)) = i
        BY <1>3, <2>1
      <3>2. QED
        BY <1>3, <3>1
    <2>2. QED
      BY <2>1
  <1>5. \A i \in 1 .. Len(both) : both[i] <= next
    <2>1. ASSUME NEW i \in 1 .. Len(both) PROVE both[i] <= next
      <3>1. CASE i \in 1 .. Len(b)
        <4>1. both[i] = b[i] /\ b[i] \in Nat /\ b[i] <= last
          BY <1>3, <3>1 DEF InOrder
        <4>2. QED
          BY <4>1
      <3>2. CASE i - Len(b) \in 1 .. Len(new) /\ both[i] = new[i - Len(b)]
        BY <3>2 DEF InOrder
      <3>3. QED
        BY <1>4, <3>1, <3>2
    <2>2. QED
      BY <2>1
  <1>6. ASSUME NEW i \in 1 .. Len(both), NEW j \in 1 .. Len(both), i < j, both[i] # 0, both[j] # 0
        PROVE  both[i] < both[j]
    <2>1. CASE j \in 1 .. Len(b)
      <3>1. i \in 1 .. Len(b)
        BY <1>6, <2>1
      <3>2. QED
        BY <1>3, <1>6, <2>1, <3>1 DEF InOrder
    <2>2. CASE i \in 1 .. Len(b) /\ j \notin 1 .. Len(b)
      <3>1. both[i] <= last /\ both[i] \in Nat
        BY <1>3, <2>2 DEF InOrder
      <3>2. both[j] > last /\ both[j] \in Nat
        BY <1>3, <1>4, <1>6, <2>2
      <3>3. QED
        BY <3>1, <3>2
    <2>3. CASE i \notin 1 .. Len(b) /\ j \notin 1 .. Len(b)
      <3>1. i - Len(b) < j - Len(b)
        BY <1>3, <1>6
      <3>2. QED
        BY <1>4, <1>6, <2>3, <3>1 DEF InOrder
    <2>4. QED
      BY <2>1, <2>2, <2>3
  <1>7. ASSUME NEW i \in 1 .. Len(b) PROVE \E k \in 1 .. Len(both) : both[k] = b[i]
    BY <1>3
  <1>8. ASSUME NEW i \in 1 .. Len(new) PROVE \E k \in 1 .. Len(both) : both[k] = new[i]
    <2>1. Len(b) + i \in 1 .. Len(both)
      BY <1>3
    <2>2. QED
      BY <1>3, <2>1
  <1>9. QED
    BY <1>2, <1>5, <1>6, <1>7, <1>8 DEF InOrder

LEMMA TrimKeepsOrder ==
  ASSUME NEW last \in Nat, NEW b \in Seq(Nat), InOrder(last, b)
  PROVE  /\ H!Trimmed(b) \in Seq(Nat) /\ InOrder(last, H!Trimmed(b))
         /\ \A i \in 1 .. Len(b) : b[i] # 0 => \E k \in 1 .. Len(H!Trimmed(b)) : H!Trimmed(b)[k] = b[i]
  <1>1. PICK len \in Nat : len = Len(b)
    OBVIOUS
  <1>2. PICK c : c = H!Trimmed(b)
    OBVIOUS
  <1>3. /\ c \in Seq(Nat)
        /\ \A k \in 1 .. Len(c) : \E i \in 1 .. Len(b) : c[k] = b[i]
        /\ \A k, l \in 1 .. Len(c) : k < l =>
             \E i, j \in 1 .. Len(b) : i < j /\ c[k] = b[i] /\ c[l] = b[j]
        /\ \A i \in 1 .. Len(b) : b[i] # 0 => \E k \in 1 .. Len(c) : c[k] = b[i]
    <2>1. c \in Seq(Nat)
      BY <1>1, <1>2, TrimmedFits
    <2>2. TakenFrom(c, b)
      BY <1>1, <1>2, TrimmedFits
    <2>3. TakenInOrder(c, b)
      BY <1>1, <1>2, TrimmedFits
    <2>4. KeepsDurable(c, b)
      BY <1>1, <1>2, TrimmedFits
    <2>5. QED
      BY <1>1, <2>1, <2>2, <2>3, <2>4 DEF TakenFrom, TakenInOrder, KeepsDurable
  <1>4. InOrder(last, c)
    <2>1. \A k \in 1 .. Len(c) : c[k] <= last
      BY <1>3 DEF InOrder
    <2>2. ASSUME NEW k \in 1 .. Len(c), NEW l \in 1 .. Len(c), k < l, c[k] # 0, c[l] # 0
          PROVE  c[k] < c[l]
      <3>1. PICK i \in 1 .. Len(b), j \in 1 .. Len(b) : i < j /\ c[k] = b[i] /\ c[l] = b[j]
        BY <1>3, <2>2
      <3>2. QED
        BY <2>2, <3>1 DEF InOrder
    <2>3. QED
      BY <2>1, <2>2 DEF InOrder
  <1>5. QED
    BY <1>2, <1>3, <1>4

(* The hub is told of events that are later than all it knew: every        *)
(* subscriber that is registered has them.                                 *)
LEMMA NotifyFits ==
  ASSUME HubInv, NEW new \in Seq(Nat), NEW next \in Nat, latest <= next, latest' = next,
         InOrder(next, new), \A i \in 1 .. Len(new) : new[i] # 0 => new[i] > latest,
         \A e \in Nat : latest < e /\ e <= next => \E i \in 1 .. Len(new) : new[i] = e,
         H!Notify(new), UNCHANGED <<replay, lastYielded, wire, received, losses>>
  PROVE  HubInv'
  <1>1. /\ buffer' = [s \in Subscribers |-> IF stage[s] # "off" THEN H!Trimmed(buffer[s] \o new) ELSE buffer[s]]
        /\ \A s \in Subscribers :
             stage'[s] = stage[s] \/ (stage[s] = "waiting" /\ stage'[s] \in {"ending", "live"})
        /\ stage' \in [Subscribers -> HubStages] /\ aborted' \in [Subscribers -> BOOLEAN]
    BY DEF HubInv, HubTyped, HubStages, H!Notify, H!Registered
  <1>2. ASSUME NEW s \in Subscribers
        PROVE  /\ buffer'[s] \in Seq(Nat) /\ InOrder(next, buffer'[s])
               /\ stage[s] # "off" => \A e \in Nat :
                    (latest < e /\ e <= next) \/ (e # 0 /\ \E i \in 1 .. Len(buffer[s]) : buffer[s][i] = e)
                      => \E i \in 1 .. Len(buffer'[s]) : buffer'[s][i] = e
    <2>1. PICK b \in Seq(Nat) : b = buffer[s]
      BY DEF HubInv, HubTyped
    <2>2. InOrder(latest, b) /\ latest \in Nat
      BY <2>1 DEF HubInv, HubTyped, HubFits
    <2>3. CASE stage[s] = "off"
      <3>1. buffer'[s] = b
        BY <1>1, <2>1, <2>3
      <3>2. InOrder(next, b)
        <4>1. \A i \in 1 .. Len(b) : b[i] \in Nat /\ b[i] <= latest
          BY <2>2 DEF InOrder
        <4>2. \A i \in 1 .. Len(b) : b[i] <= next
          BY <2>2, <4>1
        <4>3. QED
          BY <2>2, <4>2 DEF InOrder
      <3>3. QED
        BY <2>1, <2>3, <3>1, <3>2
    <2>4. CASE stage[s] # "off"
      <3>1. buffer'[s] = H!Trimmed(b \o new)
        BY <1>1, <2>1, <2>4
      <3>2. /\ b \o new \in Seq(Nat) /\ InOrder(next, b \o new)
            /\ \A i \in 1 .. Len(b) : \E k \in 1 .. Len(b \o new) : (b \o new)[k] = b[i]
            /\ \A i \in 1 .. Len(new) : \E k \in 1 .. Len(b \o new) : (b \o new)[k] = new[i]
        BY <2>2, PushFits
      <3>3. PICK both \in Seq(Nat) : both = b \o new
        BY <3>2
      <3>4. PICK c : c = buffer'[s]
        OBVIOUS
      <3>5. /\ c \in Seq(Nat) /\ InOrder(next, c)
            /\ \A i \in 1 .. Len(both) : both[i] # 0 => \E k \in 1 .. Len(c) : c[k] = both[i]
        <4>1. InOrder(next, both) /\ c = H!Trimmed(both)
          BY <3>1, <3>2, <3>3, <3>4
        <4>2. QED
          BY <4>1, TrimKeepsOrder
      <3>6. ASSUME NEW e \in Nat,
                   (latest < e /\ e <= next) \/ (e # 0 /\ \E i \in 1 .. Len(b) : b[i] = e)
            PROVE  \E i \in 1 .. Len(c) : c[i] = e
        <4>1. \E k \in 1 .. Len(both) : both[k] = e
          BY <3>2, <3>3, <3>6
        <4>2. e # 0
          BY <2>2, <3>6
        <4>3. QED
          BY <3>5, <4>1, <4>2
      <3>7. QED
        BY <2>1, <3>4, <3>5, <3>6
    <2>5. QED
      BY <2>3, <2>4
  <1>3. HubTyped'
    <2>1. buffer' \in [Subscribers -> Seq(Nat)]
      BY <1>1, <1>2
    <2>2. QED
      BY <1>1, <2>1 DEF HubInv, HubTyped
  <1>4. ASSUME NEW s \in Subscribers PROVE HubFits(s)'
    <2>1. /\ HubFits(s) /\ latest \in Nat /\ received[s] \in Nat /\ lastYielded[s] \in Nat
          /\ Len(wire[s]) \in Nat /\ Len(replay[s]) \in Nat
      BY DEF HubInv, HubTyped
    <2>2. OnTheWay(next, wire[s], received[s])
      BY <2>1 DEF HubFits, OnTheWay
    <2>3. Replaying(next, stage'[s], replay[s], lastYielded[s])
      BY <1>1, <2>1 DEF HubFits, Replaying
    <2>4. NothingMissed(next, stage'[s], buffer'[s], replay[s], lastYielded[s])
      <3>1. ASSUME stage'[s] \in {"replay", "live", "waiting"}, NEW e \in Nat,
                   lastYielded[s] + Len(replay[s]) < e, e <= next
            PROVE  \E i \in 1 .. Len(buffer'[s]) : buffer'[s][i] = e
        <4>1. stage[s] \in {"replay", "live", "waiting"} /\ e # 0
          BY <1>1, <2>1, <3>1
        <4>2. (latest < e /\ e <= next) \/ \E i \in 1 .. Len(buffer[s]) : buffer[s][i] = e
          BY <2>1, <3>1, <4>1 DEF HubFits, NothingMissed
        <4>3. QED
          BY <1>2, <4>1, <4>2
      <3>2. QED
        BY <3>1 DEF NothingMissed
    <2>5. stage'[s] # "off" => lastYielded[s] = received[s] + Len(wire[s])
      BY <1>1, <2>1 DEF HubFits
    <2>6. stage'[s] = "off" => buffer'[s] = << >>
      BY <1>1, <2>1 DEF HubFits
    <2>7. QED
      BY <1>2, <2>2, <2>3, <2>4, <2>5, <2>6 DEF HubFits
  <1>5. QED
    BY <1>3, <1>4 DEF HubInv
LEMMA SaveFits == ASSUME HubInv, NEW k \in 1 .. MaxBatch, H!Save(k) PROVE HubInv'
  <1>1. k \in Nat /\ latest \in Nat
    BY HubBounds DEF H!BoundsAssumption, HubInv, HubTyped
  <1>2. PICK next \in Nat : next = latest + k
    BY <1>1
  <1>3. PICK new : new = H!Between(latest, next)
    OBVIOUS
  <1>4. latest <= next
    BY <1>1, <1>2
  <1>5. /\ new \in Seq(Nat) /\ Len(new) = next - latest /\ latest <= next
        /\ \A i \in 1 .. (next - latest) : new[i] = latest + i
    BY <1>1, <1>3, <1>4, BetweenFits
  <1>6. \A i \in 1 .. Len(new) : new[i] = latest + i
    BY <1>5
  <1>7. InOrder(next, new)
    BY <1>1, <1>2, <1>5, <1>6 DEF InOrder
  <1>8. \A i \in 1 .. Len(new) : new[i] # 0 => new[i] > latest
    BY <1>1, <1>6
  <1>9. ASSUME NEW e \in Nat, latest < e, e <= next PROVE \E i \in 1 .. Len(new) : new[i] = e
    <2>1. e - latest \in 1 .. Len(new) /\ latest + (e - latest) = e
      BY <1>1, <1>5, <1>9
    <2>2. QED
      BY <1>6, <2>1
  <1>10. latest' = next /\ H!Notify(new) /\ UNCHANGED <<replay, lastYielded, wire, received, losses>>
    BY <1>2, <1>3 DEF H!Save
  <1>11. QED
    BY <1>5, <1>7, <1>8, <1>9, <1>10, NotifyFits

LEMMA TransientFits == ASSUME HubInv, H!PublishTransient PROVE HubInv'
  <1>1. latest \in Nat
    BY DEF HubInv, HubTyped
  <1>2. <<0>> \in Seq(Nat)
    OBVIOUS
  <1>3. PICK new \in Seq(Nat) : new = <<0>>
    BY <1>2
  <1>4. InOrder(latest, new) /\ \A i \in 1 .. Len(new) : new[i] # 0 => new[i] > latest
    BY <1>1, <1>3 DEF InOrder
  <1>5. \A e \in Nat : latest < e /\ e <= latest => \E i \in 1 .. Len(new) : new[i] = e
    BY <1>1
  <1>6. H!Notify(new) /\ UNCHANGED <<latest, replay, lastYielded, wire, received, losses>>
    BY <1>3 DEF H!PublishTransient, H!Transient, H!reader
  <1>7. QED
    BY <1>1, <1>4, <1>5, <1>6, NotifyFits

(* A reader receives the event after the last one it has.                  *)
LEMMA ReceiveFits ==
  ASSUME HubInv, NEW s \in Subscribers, H!Receive(s)
  PROVE  /\ HubInv'
         /\ received[s] < latest /\ received' = [received EXCEPT ![s] = @ + 1] /\ latest' = latest
  <1>1. /\ HubFits(s) /\ received[s] \in Nat /\ latest \in Nat /\ lastYielded[s] \in Nat
    BY DEF HubInv, HubTyped
  <1>2. PICK frames \in Seq(Nat) : frames = wire[s]
    BY DEF HubInv, HubTyped
  <1>3. /\ frames # << >> /\ wire' = [wire EXCEPT ![s] = Tail(frames)]
        /\ received' = [received EXCEPT ![s] = IF Head(frames) > received[s] THEN Head(frames) ELSE received[s]]
        /\ UNCHANGED <<latest, losses, stage, buffer, replay, lastYielded, aborted>>
    BY <1>2 DEF H!Receive
  <1>4. /\ Len(frames) \in Nat /\ Len(frames) >= 1 /\ Head(frames) = frames[1]
        /\ Tail(frames) \in Seq(Nat) /\ Len(Tail(frames)) = Len(frames) - 1
        /\ \A i \in 1 .. Len(Tail(frames)) : Tail(frames)[i] = frames[i + 1] /\ i + 1 \in 1 .. Len(frames)
    BY <1>3
  <1>5. /\ \A i \in 1 .. Len(frames) : frames[i] = received[s] + i
        /\ received[s] + Len(frames) <= latest
    BY <1>1, <1>2 DEF HubFits, OnTheWay
  <1>6. Head(frames) = received[s] + 1
    BY <1>4, <1>5
  <1>7. /\ received' = [received EXCEPT ![s] = received[s] + 1] /\ received'[s] = received[s] + 1
        /\ received[s] < latest
    <2>1. Head(frames) > received[s]
      BY <1>1, <1>6
    <2>2. received' = [received EXCEPT ![s] = received[s] + 1]
      BY <1>3, <1>6, <2>1
    <2>3. received[s] < latest
      BY <1>1, <1>4, <1>5
    <2>4. QED
      BY <2>2, <2>3 DEF HubInv, HubTyped
  <1>8. HubTyped' /\ wire'[s] = Tail(frames)
    BY <1>1, <1>3, <1>4, <1>7 DEF HubInv, HubTyped
  <1>9. Untouched(s)
    BY <1>3 DEF HubInv, HubTyped, Untouched
  <1>10. OnTheWay(latest, Tail(frames), received[s] + 1)
    <2>1. ASSUME NEW i \in 1 .. Len(Tail(frames)) PROVE Tail(frames)[i] = (received[s] + 1) + i
      <3>1. Tail(frames)[i] = received[s] + (i + 1) /\ i \in Int
        BY <1>4, <1>5
      <3>2. PICK cursor \in Nat : cursor = received[s]
        BY <1>1
      <3>3. QED
        BY <3>1, <3>2
    <2>2. (received[s] + 1) + Len(Tail(frames)) <= latest
      BY <1>1, <1>4, <1>5
    <2>3. QED
      BY <2>1, <2>2 DEF OnTheWay
  <1>11. stage[s] # "off" => lastYielded[s] = (received[s] + 1) + Len(Tail(frames))
    BY <1>1, <1>2, <1>4 DEF HubFits
  <1>12. HubFits(s)'
    BY <1>1, <1>3, <1>7, <1>8, <1>10, <1>11 DEF HubFits
  <1>13. QED
    BY <1>3, <1>7, <1>8, <1>9, <1>12, OneMoves

LEMMA HubStep ==
  ASSUME HubInv, [H!Next]_(H!vars)
  PROVE  HubInv' /\ [H!Delivery!Next]_(H!Delivery!vars)
  <1>1. ASSUME UNCHANGED <<latest, received>> PROVE [H!Delivery!Next]_(H!Delivery!vars)
    BY <1>1 DEF H!Delivery!vars
  <1>2. CASE \E k \in 1 .. MaxBatch : H!Save(k)
    <2>1. PICK k \in 1 .. MaxBatch : H!Save(k)
      BY <1>2
    <2>2. k \in Nat /\ k >= 1 /\ latest \in Nat
      BY HubBounds DEF H!BoundsAssumption, HubInv, HubTyped
    <2>3. H!Delivery!Publish
      BY <2>1, <2>2 DEF H!Save, H!Delivery!Publish
    <2>4. QED
      BY <2>1, <2>3, SaveFits DEF H!Delivery!Next
  <1>3. CASE H!PublishTransient
    BY <1>1, <1>3, TransientFits DEF H!PublishTransient, H!reader
  <1>4. CASE \E s \in Subscribers : H!Subscribe(s) \/ H!Generator(s) \/ H!Receive(s) \/ H!Disconnect(s)
    <2>1. PICK s \in Subscribers : H!Subscribe(s) \/ H!Generator(s) \/ H!Receive(s) \/ H!Disconnect(s)
      BY <1>4
    <2>2. CASE H!Receive(s)
      BY <2>2, ReceiveFits DEF H!Delivery!Next, H!Delivery!Receive
    <2>3. CASE H!Disconnect(s)
      <3>1. losses' \in Nat /\ aborted' \in [Subscribers -> BOOLEAN]
        BY <2>3 DEF H!Disconnect, HubInv, HubTyped
      <3>2. HubInv'
        BY <2>3, <3>1, UnregisterFits DEF H!Disconnect
      <3>3. QED
        BY <1>1, <2>3, <3>2 DEF H!Disconnect
    <2>4. CASE H!End(s)
      <3>1. HubInv'
        BY <2>4, UnregisterFits DEF H!End, H!reader, HubInv, HubTyped
      <3>2. QED
        BY <1>1, <2>4, <3>1 DEF H!End, H!reader
    <2>5. CASE H!Subscribe(s) \/ H!StartReplay(s) \/ H!YieldReplayed(s) \/ H!EndReplay(s)
               \/ H!PassBy(s) \/ H!YieldBuffered(s) \/ H!Wait(s)
      <3>1. HubInv'
        BY <2>5, SubscribeFits, StartReplayFits, YieldReplayedFits, EndReplayFits, PassByFits,
           YieldBufferedFits, WaitFits
      <3>2. UNCHANGED <<latest, received>>
        BY <2>5 DEF H!Subscribe, H!StartReplay, H!YieldReplayed, H!EndReplay, H!PassBy,
                    H!YieldBuffered, H!Wait, H!reader
      <3>3. QED
        BY <1>1, <3>1, <3>2
    <2>6. QED
      BY <2>1, <2>2, <2>3, <2>4, <2>5 DEF H!Generator
  <1>5. CASE UNCHANGED H!vars
    BY <1>1, <1>5 DEF H!vars, HubInv, HubTyped, HubFits
  <1>6. QED
    BY <1>2, <1>3, <1>4, <1>5 DEF H!Next

(* What is owed: the frames and the replay go on without a gap, and what   *)
(* the buffer has after them is the rest.                                  *)
OwedIs(s, last, owed) ==
  /\ lastYielded[s] = received[s] + Len(wire[s])
  /\ wire[s] \o replay[s] = H!Between(received[s], last)
  /\ {buffer[s][i] : i \in owed} = (last + 1) .. latest
  /\ \A i, j \in owed : i < j => buffer[s][i] < buffer[s][j]

LEMMA OwedHasNoGap ==
  ASSUME HubInv, NEW s \in Subscribers, stage[s] \in {"replay", "live", "waiting"},
         NEW last, last = received[s] + Len(wire[s]) + Len(replay[s]),
         NEW owed, owed = {i \in DOMAIN buffer[s] : buffer[s][i] > last}
  PROVE  OwedIs(s, last, owed)
  <1>1. HubFits(s) /\ latest \in Nat
    BY DEF HubInv, HubTyped
  <1>2. PICK cursor \in Nat, frames \in Seq(Nat), rest \in Seq(Nat), b \in Seq(Nat) :
          cursor = received[s] /\ frames = wire[s] /\ rest = replay[s] /\ b = buffer[s]
    BY DEF HubInv, HubTyped
  <1>3. /\ lastYielded[s] = cursor + Len(frames) /\ last = cursor + Len(frames) + Len(rest)
        /\ Len(frames) \in Nat /\ Len(rest) \in Nat /\ last \in Nat
    BY <1>1, <1>2 DEF HubFits
  <1>4. last <= latest
    BY <1>1, <1>2, <1>3 DEF HubFits, OnTheWay, Replaying
  <1>5. frames \o rest = H!Between(cursor, last)
    <2>1. frames \o rest \in Seq(Nat)
      OBVIOUS
    <2>2. PICK whole \in Seq(Nat) : whole = frames \o rest
      BY <2>1
    <2>3. /\ Len(whole) = last - cursor
          /\ \A i \in 1 .. Len(frames) : whole[i] = frames[i]
          /\ \A i \in 1 .. Len(rest) : whole[Len(frames) + i] = rest[i]
      BY <1>3, <2>2
    <2>4. \A i \in 1 .. Len(frames) : frames[i] = cursor + i
      BY <1>1, <1>2 DEF HubFits, OnTheWay
    <2>5. \A i \in 1 .. Len(rest) : rest[i] = cursor + Len(frames) + i
      <3>1. CASE stage[s] = "replay"
        BY <1>1, <1>2, <1>3, <3>1 DEF HubFits, Replaying
      <3>2. CASE stage[s] # "replay"
        BY <1>1, <1>2, <3>2 DEF HubFits, Replaying
      <3>3. QED
        BY <3>1, <3>2
    <2>6. ASSUME NEW i \in 1 .. (last - cursor) PROVE whole[i] = cursor + i
      <3>1. CASE i <= Len(frames)
        BY <1>3, <2>3, <2>4, <3>1
      <3>2. CASE i > Len(frames)
        <4>1. i - Len(frames) \in 1 .. Len(rest) /\ Len(frames) + (i - Len(frames)) = i
          BY <1>3, <3>2
        <4>2. whole[i] = cursor + Len(frames) + (i - Len(frames))
          BY <2>3, <2>5, <4>1
        <4>3. QED
          BY <1>3, <4>1, <4>2
      <3>3. QED
        BY <1>3, <3>1, <3>2
    <2>7. whole = [i \in 1 .. (last - cursor) |-> cursor + i]
      BY <1>3, <2>3, <2>6
    <2>8. QED
      BY <2>2, <2>7 DEF H!Between
  <1>6. InOrder(latest, b) /\ DOMAIN b = 1 .. Len(b) /\ \A i \in 1 .. Len(b) : b[i] \in Nat
    <2>1. InOrder(latest, b)
      BY <1>1, <1>2 DEF HubFits
    <2>2. QED
      BY <2>1
  <1>7. {b[i] : i \in owed} = (last + 1) .. latest
    <2>1. ASSUME NEW i \in owed PROVE b[i] \in (last + 1) .. latest
      <3>1. i \in 1 .. Len(b) /\ b[i] > last /\ b[i] <= latest
        BY <1>2, <1>6, <2>1 DEF InOrder
      <3>2. QED
        BY <1>1, <1>3, <1>6, <3>1
    <2>2. ASSUME NEW e \in (last + 1) .. latest PROVE \E i \in owed : b[i] = e
      <3>1. e \in Nat /\ last < e /\ e <= latest
        BY <1>1, <1>3
      <3>2. PICK i \in 1 .. Len(b) : b[i] = e
        BY <1>1, <1>2, <1>3, <3>1 DEF HubFits, NothingMissed
      <3>3. QED
        BY <1>2, <1>6, <3>1, <3>2
    <2>3. QED
      BY <2>1, <2>2
  <1>8. ASSUME NEW i \in owed, NEW j \in owed, i < j PROVE b[i] < b[j]
    <2>1. /\ i \in 1 .. Len(b) /\ j \in 1 .. Len(b)
          /\ b[i] > last /\ b[j] > last /\ b[i] \in Nat /\ b[j] \in Nat
      BY <1>2, <1>6
    <2>2. b[i] # 0 /\ b[j] # 0
      BY <1>3, <2>1
    <2>3. QED
      BY <1>6, <1>8, <2>1, <2>2 DEF InOrder
  <1>9. QED
    BY <1>2, <1>3, <1>5, <1>7, <1>8 DEF OwedIs

LEMMA NothingElseIsOwed == HubInv => H!PendingIsGapless
  <1> SUFFICES ASSUME HubInv, NEW s \in Subscribers, stage[s] \in {"replay", "live", "waiting"}
               PROVE  LET last == received[s] + Len(wire[s]) + Len(replay[s])
                          owed == {i \in DOMAIN buffer[s] : buffer[s][i] > last}
                      IN  /\ lastYielded[s] = received[s] + Len(wire[s])
                          /\ wire[s] \o replay[s] = H!Between(received[s], last)
                          /\ {buffer[s][i] : i \in owed} = (last + 1) .. latest
                          /\ \A i, j \in owed : i < j => buffer[s][i] < buffer[s][j]
    BY DEF H!PendingIsGapless
  <1>1. PICK last : last = received[s] + Len(wire[s]) + Len(replay[s])
    OBVIOUS
  <1>2. PICK owed : owed = {i \in DOMAIN buffer[s] : buffer[s][i] > last}
    OBVIOUS
  <1>3. OwedIs(s, last, owed)
    BY <1>1, <1>2, OwedHasNoGap
  <1>4. QED
    BY <1>1, <1>2, <1>3 DEF OwedIs

(* the body of OnlyBacklogAborts *)
Backlogged ==
  \A s \in Subscribers :
    ~aborted[s] /\ aborted'[s] /\ losses' = losses
      => H!Cardinality({i \in DOMAIN buffer'[s] : buffer'[s][i] # H!Transient}) > BufferCap

LEMMA NotifyAborts ==
  ASSUME HubInv, HubInv', NEW new \in Seq(Nat), H!Notify(new), NEW s \in Subscribers, ~aborted[s], aborted'[s]
  PROVE  H!Cardinality({i \in DOMAIN buffer'[s] : buffer'[s][i] # H!Transient}) > BufferCap
  <1>1. PICK c \in Seq(Nat) : c = buffer'[s]
    BY DEF HubInv, HubTyped
  <1>2. Len(c) > BufferCap /\ c = (IF stage[s] # "off" THEN H!Trimmed(buffer[s] \o new) ELSE buffer[s])
    BY <1>1 DEF H!Notify, H!Registered
  <1>3. BufferCap \in Nat
    BY HubBounds DEF H!BoundsAssumption
  <1>4. stage[s] # "off"
    <2>1. stage[s] = "off" => c = << >>
      BY <1>2 DEF HubInv, HubFits
    <2>2. QED
      BY <1>2, <1>3, <2>1
  <1>5. \A k \in 1 .. Len(c) : c[k] # 0
    <2>1. buffer[s] \o new \in Seq(Nat)
      BY DEF HubInv, HubTyped
    <2>2. PICK b \in Seq(Nat) : b = buffer[s] \o new
      BY <2>1
    <2>3. PICK len \in Nat : len = Len(b)
      OBVIOUS
    <2>4. c = H!Trimmed(b)
      BY <1>2, <1>4, <2>2
    <2>5. QED
      BY <1>2, <2>3, <2>4, TrimmedFits
  <1>6. {i \in DOMAIN c : c[i] # 0} = 1 .. Len(c)
    BY <1>5
  <1>7. Len(c) \in Nat
    OBVIOUS
  <1>8. Cardinality(1 .. Len(c)) = Len(c)
    BY <1>7, CountedUp
  <1>9. QED
    BY <1>1, <1>2, <1>6, <1>8, SameCardinality DEF H!Transient

LEMMA BacklogStep == ASSUME HubInv, HubInv', [H!Next]_(H!vars) PROVE Backlogged
  <1> SUFFICES ASSUME NEW s \in Subscribers, ~aborted[s], aborted'[s], losses' = losses
               PROVE  H!Cardinality({i \in DOMAIN buffer'[s] : buffer'[s][i] # H!Transient}) > BufferCap
    BY DEF Backlogged
  <1>1. CASE \E k \in 1 .. MaxBatch : H!Save(k)
    <2>1. PICK k \in 1 .. MaxBatch : H!Save(k)
      BY <1>1
    <2>2. k \in Nat /\ latest \in Nat /\ latest + k \in Nat /\ latest <= latest + k
      BY HubBounds DEF H!BoundsAssumption, HubInv, HubTyped
    <2>3. H!Between(latest, latest + k) \in Seq(Nat)
      BY <2>2, BetweenFits
    <2>4. QED
      BY <2>1, <2>3, NotifyAborts DEF H!Save
  <1>2. CASE H!PublishTransient
    <2>1. <<0>> \in Seq(Nat)
      OBVIOUS
    <2>2. QED
      BY <1>2, <2>1, NotifyAborts DEF H!PublishTransient, H!Transient
  <1>3. CASE \E d \in Subscribers : H!Subscribe(d) \/ H!Generator(d) \/ H!Receive(d) \/ H!Disconnect(d)
    <2>1. PICK d \in Subscribers : H!Subscribe(d) \/ H!Generator(d) \/ H!Receive(d) \/ H!Disconnect(d)
      BY <1>3
    <2>2. aborted \in [Subscribers -> BOOLEAN] /\ losses \in Nat
      BY DEF HubInv, HubTyped
    <2>3. ~H!Disconnect(d)
      BY <2>2 DEF H!Disconnect
    <2>4. H!Subscribe(d) => aborted' = [aborted EXCEPT ![d] = FALSE]
      BY DEF H!Subscribe
    <2>5. H!Generator(d) \/ H!Receive(d) => aborted' = aborted
      BY DEF H!Generator, H!Receive, H!StartReplay, H!YieldReplayed, H!EndReplay, H!PassBy,
             H!YieldBuffered, H!Wait, H!End, H!reader
    <2>6. QED
      BY <2>1, <2>2, <2>3, <2>4, <2>5
  <1>4. CASE UNCHANGED H!vars
    BY <1>4 DEF H!vars
  <1>5. QED
    BY <1>1, <1>2, <1>3, <1>4 DEF H!Next

LEMMA HubStepKeepsIt == HubInv /\ [H!Next]_(H!vars) => HubInv'
  BY HubStep

LEMMA HubAlwaysFits == H!Spec => []HubInv
  <1>1. QED
    BY HubStarts, HubStepKeepsIt, PTL DEF H!Spec

(* The hub implements OrderedDelivery, but for its fairness: whatever is   *)
(* saved, dropped, aborted, lost and subscribed to again, a reader         *)
(* receives the events one by one, in order.                               *)
THEOREM ReadersMissNothing == H!Spec => H!EventsInOrder
  <1>1. H!Init => H!Delivery!Init
    BY DEF H!Init, H!Delivery!Init
  <1>2. HubInv /\ [H!Next]_(H!vars) => [H!Delivery!Next]_(H!Delivery!vars)
    BY HubStep
  <1>3. QED
    BY <1>1, <1>2, HubAlwaysFits, PTL DEF H!Spec, H!EventsInOrder

(* What a subscriber owes its reader is what the reader has not got.       *)
THEOREM OwedIsGapless == H!Spec => []H!PendingIsGapless
  BY HubAlwaysFits, NothingElseIsOwed, PTL

(* The hub cuts off nobody but for a backlog of durable events.            *)
THEOREM BacklogsAbort == H!Spec => H!OnlyBacklogAborts
  <1>1. HubInv /\ HubInv' /\ [H!Next]_(H!vars) => [Backlogged]_(H!vars)
    BY BacklogStep
  <1>2. QED
    BY <1>1, HubAlwaysFits, HubStepKeepsIt, PTL DEF H!Spec, H!OnlyBacklogAborts, Backlogged

LEMMA StepKeepsHub == [Next]_all => [H!Next]_(H!vars)
  BY DEF Next, all, hubVars, H!vars, OnHub, OnConnections, OnTranscript, OnPanel, OnPlanning, OnPull,
         OnDrag, OnPage

LEMMA HubStaysFit == Spec => []HubInv
  <1>1. Init => HubInv
    BY HubStarts DEF Init
  <1>2. QED
    BY <1>1, StepKeepsHub, HubStepKeepsIt, PTL DEF Spec

(* All of it in every behaviour that TLC explores.                         *)
THEOREM EventsComeInOrder == Spec => EveryEventInOrder
  <1>1. Init => H!Delivery!Init
    BY DEF Init, H!Init, H!Delivery!Init
  <1>2. HubInv /\ [Next]_all => [H!Delivery!Next]_(H!Delivery!vars)
    BY StepKeepsHub, HubStep
  <1>3. HubInv /\ HubInv' /\ [Next]_all => [Backlogged]_(H!vars)
    BY StepKeepsHub, BacklogStep
  <1>4. HubInv => (part = "hub" => H!PendingIsGapless)
    BY NothingElseIsOwed
  <1>5. Spec => H!EventsInOrder
    BY <1>1, <1>2, HubStaysFit, PTL DEF Spec, H!EventsInOrder
  <1>6. Spec => H!OnlyBacklogAborts
    BY <1>3, HubStaysFit, StepKeepsHub, HubStepKeepsIt, PTL DEF Spec, H!OnlyBacklogAborts, Backlogged
  <1>7. Spec => [](part = "hub" => H!PendingIsGapless)
    BY <1>4, HubStaysFit, PTL
  <1>8. QED
    BY <1>5, <1>6, <1>7 DEF EveryEventInOrder
==============================================================================
