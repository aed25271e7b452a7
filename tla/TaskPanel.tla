------------------------------ MODULE TaskPanel ------------------------------
(***************************************************************************)
(* What the web interface lets a user ask of a task, and what the engine   *)
(* makes of it: the buttons of the chat surface, of the session menu and   *)
(* of the DAG canvas, the slash commands, the request each one posts, the  *)
(* checks of POST /commands and of the services behind it, and the retry   *)
(* dialog of the canvas with its mutation.  Meanwhile tasks move on, and   *)
(* the client's copy of them follows later.                                *)
(*                                                                         *)
(* Data abstraction: a prompt is not blank, an answer is "taken",          *)
(* "refused" (the request or the task's status is not one the engine       *)
(* accepts) or "failed" (whatever goes wrong after that).                  *)
(***************************************************************************)
EXTENDS Naturals, FiniteSets

CONSTANTS Tasks, FirstTask,   \* the task that comes first in the graph
          Unset,
          MaxMoves, MaxClicks \* bounds

(* the engine's own table of transitions *)
LOCAL Engine == INSTANCE Transitions WITH
  DependsOn <- [t \in Tasks |-> {}], Sessions <- {}, Refs <- {}, Artifacts <- {},
  OpIds <- {}, Keys <- {}

VARIABLES
  status, clean,    \* the engine's tasks: executionStatus, and stackStatus = "clean"
  view,             \* the client's copy of the statuses
  onShow,           \* the task of the chat surface
  asked,            \* requests under way
  answered,         \* the request answered last, with the status it met and the answer
  replyError,       \* the error under the transcript
  retryFor, loading, retryError,   \* the mounted canvas: its dialog and useApiMutation
  moves, clicks

panelVars == <<status, clean, view, onShow, asked, answered, replyError,
               retryFor, loading, retryError, moves, clicks>>

Init ==
  /\ status \in [Tasks -> Engine!ExecutionStatuses] /\ clean \in [Tasks -> BOOLEAN]
  /\ view = status /\ onShow = FirstTask
  /\ asked = {} /\ answered = Unset /\ replyError = FALSE
  /\ retryFor = Unset /\ loading = FALSE /\ retryError = FALSE /\ moves = 0 /\ clicks = 0

(* DeriveWorkflowStatus on the client's copy *)
WorkflowStatus == Engine!DeriveWorkflowStatus([t \in Tasks |-> [executionStatus |-> view[t]]])
-----------------------------------------------------------------------------
(* What is offered *)

canCancel(t) == WorkflowStatus = "active" /\ view[t] \in {"running", "ready", "pending"}

isActive(t) == view[t] \in {"running", "ready"}

isTerminal(t) == view[t] \in {"completed", "pr-open", "merged", "failed", "cancelled"}

isRetryable(t) == view[t] \in {"failed", "cancelled"}

Request(from, kind, t) ==
  [from |-> from, kind |-> kind, task |-> t, seen |-> view[t], number |-> clicks]

(* a request is posted; two of them are told apart by their number *)
Post(from, kind, t) ==
  /\ clicks < MaxClicks /\ clicks' = clicks + 1
  /\ asked' = asked \union {Request(from, kind, t)}

HeaderCancel ==
  /\ canCancel(onShow) /\ Post("header", "cancel", onShow)
  /\ UNCHANGED <<status, clean, view, onShow, answered, replyError, retryFor, loading, retryError, moves>>

(* the session menu cancels a workflow by its first task *)
MenuCancel ==
  /\ WorkflowStatus = "active" /\ Post("menu", "cancel", FirstTask)
  /\ UNCHANGED <<status, clean, view, onShow, answered, replyError, retryFor, loading, retryError, moves>>

HandleStop ==
  /\ isActive(onShow) /\ Post("stop", "cancel", onShow)
  /\ UNCHANGED <<status, clean, view, onShow, answered, replyError, retryFor, loading, retryError, moves>>

HandleSubmit ==
  /\ ~isTerminal(onShow) /\ Post("reply", "continue-task", onShow) /\ replyError' = FALSE
  /\ UNCHANGED <<status, clean, view, onShow, answered, retryFor, loading, retryError, moves>>

(* /cancel, /retry, and /reply, /clear and /compact, which are all replies *)
HandleSlashCommand ==
  /\ ~isTerminal(onShow)
  /\ \E kind \in {"cancel", "retry-task", "continue-task"} : Post("slash", kind, onShow)
  /\ UNCHANGED <<status, clean, view, onShow, answered, replyError, retryFor, loading, retryError, moves>>
-----------------------------------------------------------------------------
(* The retry dialog of the canvas *)

HandleRequestRetry(t) ==
  /\ retryFor = Unset /\ isRetryable(t) /\ retryFor' = t /\ retryError' = FALSE
  /\ UNCHANGED <<status, clean, view, onShow, asked, answered, replyError, loading, moves, clicks>>

(* a slip: to close the dialog is to forget the request *)
CloseForgets ==
  /\ retryFor # Unset /\ retryFor' = Unset /\ retryError' = FALSE /\ loading' = FALSE
  /\ UNCHANGED <<status, clean, view, onShow, asked, answered, replyError, moves, clicks>>

(* closeRetryModal: reset() leaves loading alone *)
CloseRetryModal ==
  /\ retryFor # Unset /\ retryFor' = Unset /\ retryError' = FALSE
  /\ UNCHANGED <<status, clean, view, onShow, asked, answered, replyError, loading, moves, clicks>>

(* the button is disabled while the mutation is loading *)
HandleConfirmRetry ==
  /\ retryFor # Unset /\ ~loading /\ loading' = TRUE /\ retryError' = FALSE
  /\ Post("canvas", "retry-task", retryFor)
  /\ UNCHANGED <<status, clean, view, onShow, answered, replyError, retryFor, moves>>
-----------------------------------------------------------------------------
(* The canvas is unmounted, when it is collapsed, its workflow is cleared or    *)
(* another view is shown, and mounted anew: its state is lost, its request is   *)
(* not, and the answer reaches a component that is gone.                        *)
Orphan(r) == IF r.from = "canvas" THEN [r EXCEPT !.from = "unmounted"] ELSE r

RemountCanvas ==
  /\ retryFor' = Unset /\ loading' = FALSE /\ retryError' = FALSE
  /\ asked' = {Orphan(r) : r \in asked}
  /\ UNCHANGED <<status, clean, view, onShow, answered, replyError, moves, clicks>>
-----------------------------------------------------------------------------
(* The engine *)

(* POST /commands: validateCommand checks the kind of a transition, the services *)
(* and transitionTask the status of the task                                     *)
Refused(r) ==
  CASE r.kind = "cancel"        -> (r.kind \in Engine!TransitionKinds => status[r.task] \notin Engine!From(r.kind))
    [] r.kind = "retry-task"    -> status[r.task] \notin {"pending", "needs-review"} \/ ~clean[r.task]
    [] r.kind = "continue-task" -> status[r.task] \notin {"needs-review", "pr-open", "pending"}
                                     \/ ~clean[r.task]

(* what is taken puts the task to work *)
Take(r) == status' = [status EXCEPT ![r.task] = "running"]

(* the handler of the view that asked: the error is shown where there is a place for it *)
Settle(r, ok) ==
  /\ asked' = asked \ {r}
  /\ replyError' = (replyError \/ (r.from = "reply" /\ ~ok))
  /\ IF r.from = "canvas"
     THEN loading' = FALSE /\ retryError' = ~ok /\ retryFor' = IF ok THEN Unset ELSE retryFor
     ELSE UNCHANGED <<loading, retryError, retryFor>>
  /\ UNCHANGED <<clean, view, onShow, moves, clicks>>

Answer(r) ==
  /\ r \in asked
  /\ \/ Refused(r) /\ UNCHANGED status /\ Settle(r, FALSE)
     \/ ~Refused(r) /\ Take(r) /\ Settle(r, TRUE)
     \/ ~Refused(r) /\ UNCHANGED status /\ Settle(r, FALSE)
  /\ answered' = [request |-> r, met |-> status[r.task],
                  answer |-> IF Refused(r) THEN "refused"
                             ELSE IF status' # status THEN "taken" ELSE "failed"]

(* every task moves on by itself, along the engine's table *)
TaskMoves(t) ==
  /\ moves < MaxMoves /\ moves' = moves + 1
  /\ \E kind \in Engine!TransitionKinds, passed \in BOOLEAN :
       /\ status[t] \in Engine!From(kind)
       /\ status' = [status EXCEPT ![t] =
            Engine!Target([executionStatus |-> status[t], artifacts |-> {}],
                          [kind |-> kind, passed |-> passed])]
  /\ UNCHANGED <<clean, view, onShow, asked, answered, replyError, retryFor, loading, retryError, clicks>>

ViewFollows ==
  /\ view # status /\ view' = status
  /\ UNCHANGED <<status, clean, onShow, asked, answered, replyError, retryFor, loading, retryError, moves, clicks>>

Show(t) ==
  /\ t # onShow /\ onShow' = t
  /\ UNCHANGED <<status, clean, view, asked, answered, replyError, retryFor, loading, retryError, moves, clicks>>

Next ==
  \/ HeaderCancel \/ MenuCancel \/ HandleStop \/ HandleSubmit \/ HandleSlashCommand
  \/ CloseRetryModal \/ HandleConfirmRetry \/ RemountCanvas \/ ViewFollows
  \/ \E t \in Tasks : HandleRequestRetry(t) \/ TaskMoves(t) \/ Show(t)
  \/ \E r \in asked : Answer(r)

Spec == Init /\ [][Next]_panelVars
-----------------------------------------------------------------------------
(* A canvas has one retry of its own under way at most, and its buttons are     *)
(* disabled as long as it has, however often its dialog is closed and opened    *)
(* for other tasks, and however late a canvas that is gone is answered.  It     *)
(* knows nothing of what that one has posted.                                   *)
OneRetryPerCanvas ==
  LET own == {r \in asked : r.from = "canvas"}
  IN  Cardinality(own) <= 1 /\ (loading <=> own # {})

(* A cancellation that was offered, and that met the task as it was shown, is   *)
(* not refused.                                                                 *)
OfferedCancelIsTaken ==
  answered # Unset =>
    ~ ( /\ answered.request.kind = "cancel" /\ answered.request.from = "header"
        /\ answered.met = answered.request.seen /\ answered.answer = "refused" )
=============================================================================
