--------------------------- MODULE GithubDelivery ---------------------------
(***************************************************************************)
(* From a task that has passed its gate to a merged pull request: the      *)
(* completion dispatcher opens the pull request, the babysitter watches    *)
(* its checks, has its agent repair what fails and merges what is green;   *)
(* operators merge one task, or land all of them.  They all go through     *)
(* MergeService, whose calls for one task are not kept apart: they share   *)
(* its worktree, its branch and its pull request.                          *)
(*                                                                         *)
(* Data abstraction: a head of a branch is the number of times its agent   *)
(* has committed and the version of the base it is rebased on; the checks  *)
(* of a head have one conclusion, which stays.  GitHub is modelled from    *)
(* the answers the code tells apart.  Events reach the services in the     *)
(* step that publishes them (see LocalDelivery for the hand-over).         *)
(***************************************************************************)
EXTENDS Transitions, SequencesExt

CONSTANTS Operators,    \* merges that operators ask for
          LandOrder,    \* the tasks, each after those it depends on
          MaxRuns,      \* runs of one task (a bound)
          MaxBase,      \* versions of the base branch (a bound)
          MaxFaults,    \* requests and saves that fail (a bound)
          MaxCrashes    \* restarts of the engine (a bound)

GithubDeliveryAssumption ==
  /\ Operators \cap {"dispatcher", "babysitter", "land"} = {}
  /\ Unset \notin Nat \X Nat
  /\ LandOrder \in Seq(Tasks)
  /\ \A i, j \in DOMAIN LandOrder : LandOrder[i] \in DependsOn[LandOrder[j]] => i < j
  /\ {MaxRuns, MaxBase, MaxFaults, MaxCrashes} \subseteq Nat

VARIABLES autoMerge,          \* policy.autoMergeOnGreen
          status, attempts,   \* of each task
          reported,           \* the head of its latest ci-report
          attached,           \* dispatcher and babysitter follow the workflow
          calls,              \* the calls of MergeService in progress
          polls,              \* the babysitter's watches
          land,               \* the tasks a landing has still to merge
          asked,              \* the operators' merges so far
          worktrees,          \* the tasks that have a worktree
          local, remote,      \* the head of a task's branch, here and pushed
          prs,                \* its pull requests: open or merged
          checks,             \* what the checks of a head concluded
          baseV,              \* the version of the base branch
          merges,             \* the heads that were merged, and by whom
          alarms,             \* the tasks reported as merge-inconsistent
          strays,             \* the tasks called open before their work was pushed
          late,               \* the tasks a dropped watch has reported
          repairs,            \* the heads an agent was sent to repair
          faults, crashes     \* what happened so far of what is bounded

engine == <<autoMerge, status, attempts, reported, attached, calls, polls, land>>
github == <<remote, prs, checks, baseV, merges>>
trees  == <<worktrees, local>>
reports == <<reported, late>>
notes  == <<asked, alarms, strays, late, repairs, faults, crashes>>
vars == <<engine, github, trees, notes>>

NewCall(by, t) == [by |-> by, task |-> t, stage |-> "prepare", pr |-> 0, head |-> Unset,
                   tries |-> 1, aborted |-> FALSE]

NewPoll(t) == [task |-> t, stage |-> "start", pr |-> 0, head |-> Unset, aborted |-> FALSE]

(* a running engine, where tasks and their branches stand thus *)
InitWith(policy, statuses, heads, requests) ==
  /\ autoMerge = policy
  /\ status = statuses
  /\ attempts = [t \in Tasks |-> 1]
  /\ reported = [t \in Tasks |-> Unset]
  /\ attached = TRUE /\ calls = {} /\ polls = {} /\ land = Unset
  /\ worktrees = Tasks
  /\ local = [t \in Tasks |-> <<0, 0>>] /\ remote = heads
  /\ prs = requests /\ checks = {} /\ baseV = 0 /\ merges = {}
  /\ asked = {} /\ alarms = {} /\ strays = {} /\ late = {} /\ repairs = << >>
  /\ faults = 0 /\ crashes = 0

Init ==
  \E policy \in BOOLEAN :
    InitWith(policy, [t \in Tasks |-> "running"], [t \in Tasks |-> Unset],
             [t \in Tasks |-> << >>])
-----------------------------------------------------------------------------
(* A task moves and the services are told.  The dispatcher takes up what   *)
(* is finalizing and drops what no longer is; the babysitter watches what  *)
(* is pr-open and drops its watch, and its merge, when that ends; a watch  *)
(* that is asleep ends there and then.                                     *)
Asleep == {"sleep", "confirm"}

Accepts(t, kind) == status[t] \in From(kind)

Dropped(c, t, to) ==
  /\ c.task = t
  /\ \/ c.by = "dispatcher" /\ status[t] = "finalizing"
     \/ c.by = "babysitter" /\ (status[t] = "pr-open" \/ to = "pr-open")

MoveTo(t, to, others, watches) ==
  /\ status' = [status EXCEPT ![t] = to]
  /\ LET told == {[c EXCEPT !.aborted = @ \/ Dropped(c, t, to)] : c \in others}
     IN  calls' = IF attached /\ to = "finalizing"
                       /\ ~\E c \in told : c.task = t /\ c.by = "dispatcher" /\ ~c.aborted
                  THEN told \cup {NewCall("dispatcher", t)} ELSE told
  /\ LET ended == "pr-open" \in {status[t], to}
         told  == {[p EXCEPT !.aborted = @ \/ (p.task = t /\ ended)] : p \in
                     {q \in watches : ~(q.task = t /\ ended /\ q.stage \in Asleep)}}
     IN  polls' = IF attached /\ to = "pr-open" THEN told \cup {NewPoll(t)} ELSE told

Transit(t, kind, others, watches) ==
  /\ Accepts(t, kind)
  /\ MoveTo(t, Target([executionStatus |-> status[t], artifacts |-> {}],
                      [kind |-> kind, passed |-> TRUE]), others, watches)

Fails == faults < MaxFaults /\ faults' = faults + 1

(* the agent ends its run and the gate passes it (see LocalDelivery) *)
AgentDelivers(t) ==
  /\ status[t] = "running"
  /\ MoveTo(t, "finalizing", calls, polls)
  /\ local' \in {local, [local EXCEPT ![t] = <<@[1] + 1, @[2]>>]}
  /\ UNCHANGED <<autoMerge, attempts, reported, attached, land, github, worktrees, notes>>

(* RetryTaskService and ContinueTaskService *)
Rerun(t, watches) ==
  /\ attempts[t] < MaxRuns
  /\ attempts' = [attempts EXCEPT ![t] = @ + 1]
  /\ worktrees' = worktrees \cup {t}
  /\ Transit(t, "mark-running", calls, watches)

OperatorContinues(t) ==
  /\ status[t] \in {"needs-review", "pr-open"}
  /\ Rerun(t, polls)
  /\ UNCHANGED <<autoMerge, reported, attached, land, github, local, notes>>

(* POST /tasks/:taskId/merge *)
OperatorMerges(o, t) ==
  /\ o \notin asked
  /\ asked' = asked \cup {o}
  /\ calls' = calls \cup {NewCall(o, t)}
  /\ UNCHANGED <<autoMerge, status, attempts, reported, attached, polls, land, github, trees, alarms, strays,
                 late, repairs, faults, crashes>>

(* someone else pushes to the base branch *)
BaseMoves ==
  /\ baseV < MaxBase
  /\ baseV' = baseV + 1
  /\ UNCHANGED <<engine, remote, prs, checks, merges, trees, notes>>

IsOpen(t) == prs[t] # << >> /\ Last(prs[t]) = "open"

Concluded(t, head) == {c[3] : c \in {d \in checks : d[1] = t /\ d[2] = head}}

(* The checks of a head end.  "other" stands for the conclusions that the  *)
(* client does not know and leaves out.                                    *)
Conclude(t) ==
  /\ IsOpen(t)
  /\ Concluded(t, remote[t]) = {}
  /\ \E conclusion \in {"passed", "failed", "other"} :
       checks' = checks \cup {<<t, remote[t], conclusion>>}
  /\ UNCHANGED <<engine, remote, prs, baseV, merges, trees, notes>>
-----------------------------------------------------------------------------
(* MergeService.  A call that has its worktree removes it when it ends,    *)
(* before anything else can happen to the task; a landing ends with a call *)
(* that throws.                                                            *)
Goes(c, d) ==
  /\ calls' = (calls \ {c}) \cup {d}
  /\ UNCHANGED <<status, polls, land>>

Stage(c, stage) == Goes(c, [c EXCEPT !.stage = stage])

Throws(c) ==
  /\ calls' = calls \ {c}
  /\ land' = IF c.by = "land" THEN Unset ELSE land
  /\ UNCHANGED <<status, polls>>

LandsOn(c, kind) == IF kind = "merge-task" THEN land \ {c.task} ELSE Unset

Returns(c, kind) ==
  /\ Transit(c.task, kind, calls \ {c}, polls)
  /\ land' = IF c.by = "land" THEN LandsOn(c, kind) ELSE land

CleansUp(c) == worktrees' = worktrees \ {c.task}

(* handlePhaseError *)
Conflicts(c) ==
  IF status[c.task] \in {"finalizing", "pr-open"} THEN Returns(c, "merge-conflict") ELSE Throws(c)

(* prepareMerge *)
Prepare(c) ==
  /\ c.stage = "prepare"
  /\ IF status[c.task] \notin {"finalizing", "pr-open"} THEN Throws(c) /\ UNCHANGED worktrees
     ELSE IF c.aborted THEN Throws(c) /\ CleansUp(c)
     ELSE Stage(c, "push") /\ worktrees' = worktrees \cup {c.task}
  /\ UNCHANGED <<autoMerge, attempts, reported, attached, github, local, notes>>

(* pushBranch, with a lease that is renewed *)
Push(c) ==
  /\ c.stage \in {"push", "pushRebased"}
  /\ IF c.task \notin worktrees
     THEN Throws(c) /\ CleansUp(c) /\ UNCHANGED remote
     ELSE /\ remote' = [remote EXCEPT ![c.task] = local[c.task]]
          /\ IF c.aborted THEN Throws(c) /\ CleansUp(c)
             ELSE Stage(c, IF c.stage = "push" THEN "rebase" ELSE "find") /\ UNCHANGED worktrees
  /\ UNCHANGED <<autoMerge, attempts, reported, attached, prs, checks, baseV, merges, local, notes>>

Rebase(c) ==
  /\ c.stage = "rebase"
  /\ \/ /\ c.task \notin worktrees
        /\ Throws(c) /\ CleansUp(c) /\ UNCHANGED local
     \/ /\ c.task \in worktrees
        /\ local' = [local EXCEPT ![c.task] = <<@[1], baseV>>]
        /\ Stage(c, "pushRebased") /\ UNCHANGED worktrees
     \/ /\ c.task \in worktrees
        /\ local[c.task][2] # baseV
        /\ Conflicts(c) /\ CleansUp(c) /\ UNCHANGED local
  /\ UNCHANGED <<autoMerge, attempts, reported, attached, github, notes>>

(* findPullRequest: only an open one is found *)
Find(c) ==
  /\ c.stage = "find"
  /\ IF IsOpen(c.task)
     THEN Goes(c, [c EXCEPT !.stage = "reviewFound", !.pr = Len(prs[c.task])])
     ELSE Stage(c, "open")
  /\ UNCHANGED <<autoMerge, attempts, reported, attached, github, trees, notes>>

(* openPullRequest: GitHub refuses a second open one *)
Open(c) ==
  /\ c.stage = "open"
  /\ IF IsOpen(c.task) THEN Throws(c) /\ CleansUp(c) /\ UNCHANGED prs
     ELSE /\ prs' = [prs EXCEPT ![c.task] = Append(@, "open")]
          /\ Goes(c, [c EXCEPT !.stage = "review", !.pr = Len(prs'[c.task])])
          /\ UNCHANGED worktrees
  /\ UNCHANGED <<autoMerge, attempts, reported, attached, remote, checks, baseV, merges, local, notes>>

OpensOnly(c) == c.by = "dispatcher"

(* open-review: that it is refused matters if the pull request is new.     *)
(* Work may be called open that was not pushed: by a call that is late.    *)
Review(c) ==
  /\ c.stage \in {"review", "reviewFound"}
  /\ LET merging == [c EXCEPT !.stage = "mergeable"]
         opens == Accepts(c.task, "open-review")
     IN  /\ IF OpensOnly(c) \/ c.aborted
            THEN CleansUp(c) /\ IF opens THEN Returns(c, "open-review") ELSE Throws(c)
            ELSE IF opens
            THEN /\ Transit(c.task, "open-review", (calls \ {c}) \cup {merging}, polls)
                 /\ UNCHANGED <<land, worktrees>>
            ELSE IF c.stage = "reviewFound" THEN Goes(c, merging) /\ UNCHANGED worktrees
            ELSE Throws(c) /\ CleansUp(c)
         /\ strays' = IF opens /\ local[c.task][1] # remote[c.task][1]
                      THEN strays \cup {c.task} ELSE strays
  /\ UNCHANGED <<autoMerge, attempts, reported, attached, github, local, asked, alarms, late,
                 repairs, faults, crashes>>

(* getPRWithMergeable: the request is already merged, can be merged, or    *)
(* cannot; the signal is looked at before the merge is asked for           *)
Mergeable(c) ==
  /\ c.stage = "mergeable"
  /\ IF prs[c.task][c.pr] = "merged" THEN Stage(c, "finalize") /\ UNCHANGED worktrees
     ELSE \/ Conflicts(c) /\ CleansUp(c)
          \/ c.aborted /\ Throws(c) /\ CleansUp(c)
          \/ /\ ~c.aborted
             /\ Goes(c, [c EXCEPT !.stage = "apply", !.head = remote[c.task]])
             /\ UNCHANGED worktrees
  /\ UNCHANGED <<autoMerge, attempts, reported, attached, github, local, notes>>

(* mergePullRequest: GitHub refuses another head than the expected one.    *)
(* Its answer may be lost.                                                 *)
Apply(c) ==
  /\ c.stage = "apply"
  /\ IF prs[c.task][c.pr] = "open" /\ remote[c.task] = c.head
     THEN /\ prs' = [prs EXCEPT ![c.task][c.pr] = "merged"]
          /\ merges' = merges \cup {<<c.by, c.task, c.head>>}
          /\ \/ Stage(c, "finalize") /\ UNCHANGED <<faults, worktrees>>
             \/ Fails /\ Throws(c) /\ CleansUp(c)
     ELSE Conflicts(c) /\ CleansUp(c) /\ UNCHANGED <<prs, merges, faults>>
  /\ UNCHANGED <<autoMerge, attempts, reported, attached, remote, checks, baseV, local, asked, alarms, strays,
                 late, repairs, crashes>>

(* a slip: a merge that cannot be recorded is given up at once *)
FinalizeOnce(c) ==
  /\ c.stage = "finalize"
  /\ CleansUp(c)
  /\ IF Accepts(c.task, "merge-task") THEN Returns(c, "merge-task") /\ UNCHANGED alarms
     ELSE Throws(c) /\ UNCHANGED alarms
  /\ UNCHANGED <<autoMerge, attempts, reported, attached, github, local, asked, strays, late, repairs, faults, crashes>>

(* finalizeMerge: three tries to record the merge, then an alarm *)
Finalize(c) ==
  /\ c.stage = "finalize"
  /\ \/ /\ Accepts(c.task, "merge-task")
        /\ Returns(c, "merge-task") /\ CleansUp(c)
        /\ UNCHANGED <<alarms, faults>>
     \/ /\ IF Accepts(c.task, "merge-task") THEN Fails ELSE UNCHANGED faults
        /\ IF c.tries < 3
           THEN Goes(c, [c EXCEPT !.tries = @ + 1]) /\ UNCHANGED <<alarms, worktrees>>
           ELSE Throws(c) /\ CleansUp(c) /\ alarms' = alarms \cup {c.task}
  /\ UNCHANGED <<autoMerge, attempts, reported, attached, github, local, asked, strays, late, repairs, crashes>>

(* a git command or a request fails *)
CallFails(c) ==
  /\ c.stage \notin {"prepare", "finalize"}
  /\ Fails
  /\ Throws(c) /\ CleansUp(c)
  /\ UNCHANGED <<autoMerge, attempts, reported, attached, github, local, asked, alarms, strays, late, repairs, crashes>>

CallStep(c) == Prepare(c) \/ Push(c) \/ Rebase(c) \/ Find(c) \/ Open(c) \/ Review(c)
                 \/ Mergeable(c) \/ Apply(c) \/ Finalize(c)
-----------------------------------------------------------------------------
(* CIBabysitterService.pollPR *)
Watches(p, q) ==
  /\ polls' = (polls \ {p}) \cup {q}
  /\ UNCHANGED <<status, calls>>

GivesUp(p) ==
  /\ polls' = polls \ {p}
  /\ UNCHANGED <<status, calls>>

Quiet == UNCHANGED <<autoMerge, attached, land, github, local, asked, alarms, strays, crashes>>

(* a slip: a head whose failure was reported is watched again *)
NeverReported(p) == FALSE

(* the attempt cap: the latest report is about this head *)
AlreadyReported(p) == reported[p.task] = remote[p.task]

PollStart(p) ==
  /\ p.stage = "start"
  /\ IF status[p.task] # "pr-open" \/ AlreadyReported(p) \/ p.aborted THEN GivesUp(p)
     ELSE Watches(p, [p EXCEPT !.stage = "sleep", !.pr = Len(prs[p.task]),
                               !.head = remote[p.task]])
  /\ Quiet /\ UNCHANGED <<attempts, reports, worktrees, repairs, faults>>

(* a turn of the watch: the task is looked at before GitHub is asked *)
PollWakes(p) ==
  /\ p.stage = "sleep"
  /\ Watches(p, [p EXCEPT !.stage = "look"])
  /\ Quiet /\ UNCHANGED <<attempts, reports, worktrees, repairs, faults>>

(* A pull request that cannot be merged is acted on though the watch was   *)
(* dropped.  The checks are those of the head of the start: they go on, no *)
(* longer exist, or are completed.                                         *)
PollLooks(p) ==
  /\ p.stage = "look"
  /\ \/ /\ prs[p.task][p.pr] = "open"
        /\ IF Accepts(p.task, "merge-conflict")
           THEN Transit(p.task, "merge-conflict", calls, polls \ {p}) ELSE GivesUp(p)
     \/ /\ Concluded(p.task, p.head) = {} /\ ~p.aborted
        /\ Watches(p, [p EXCEPT !.stage = "sleep"])
     \/ /\ p.aborted \/ remote[p.task] # p.head \/ Concluded(p.task, p.head) = {}
        /\ GivesUp(p)
     \/ /\ Concluded(p.task, p.head) # {} /\ ~p.aborted
        /\ Watches(p, [p EXCEPT !.stage = "confirm"])
  /\ Quiet /\ UNCHANGED <<attempts, reports, worktrees, repairs, faults>>

PollConfirms(p) ==
  /\ p.stage = "confirm"
  /\ Watches(p, [p EXCEPT !.stage = "judge"])
  /\ Quiet /\ UNCHANGED <<attempts, reports, worktrees, repairs, faults>>

(* the checks listed once more; what has no conclusion has not failed *)
PollJudges(p) ==
  /\ p.stage = "judge"
  /\ IF Concluded(p.task, p.head) = {"failed"}
     THEN IF ~Accepts(p.task, "merge-conflict") THEN GivesUp(p) /\ UNCHANGED reports
          ELSE /\ Transit(p.task, "merge-conflict", calls,
                          (polls \ {p}) \cup {[p EXCEPT !.stage = "repair"]})
               /\ reported' = [reported EXCEPT ![p.task] = p.head]
               /\ late' = IF p.aborted THEN late \cup {p.task} ELSE late
     ELSE /\ polls' = polls \ {p}
          /\ calls' = IF autoMerge /\ status[p.task] = "pr-open"
                      THEN calls \cup {[NewCall("babysitter", p.task) EXCEPT !.aborted = p.aborted]}
                      ELSE calls
          /\ UNCHANGED <<status, reports>>
  /\ Quiet /\ UNCHANGED <<attempts, worktrees, repairs, faults>>

(* the agent is sent to repair what failed *)
Repair(p) ==
  /\ p.stage = "repair"
  /\ IF status[p.task] \in {"needs-review", "pr-open"}
     THEN Rerun(p.task, polls \ {p}) /\ repairs' = Append(repairs, <<p.task, p.head>>)
     ELSE GivesUp(p) /\ UNCHANGED <<attempts, worktrees, repairs>>
  /\ Quiet /\ UNCHANGED <<reports, faults>>

(* a request or a command of the babysitter fails *)
PollFails(p) ==
  /\ p.stage \notin Asleep
  /\ Fails
  /\ GivesUp(p)
  /\ Quiet /\ UNCHANGED <<attempts, reports, worktrees, repairs>>

PollStep(p) == PollStart(p) \/ PollWakes(p) \/ PollLooks(p) \/ PollConfirms(p)
                 \/ PollJudges(p) \/ Repair(p)
-----------------------------------------------------------------------------
(* LandWorkflowService: the tasks that are pr-open at the start, one call  *)
(* after the other, until one meets a conflict                             *)
StartLand ==
  /\ land = Unset /\ "land" \notin asked
  /\ asked' = asked \cup {"land"}
  /\ land' = {t \in ToSet(LandOrder) : status[t] = "pr-open"}
  /\ UNCHANGED <<autoMerge, status, attempts, reported, attached, calls, polls, github, trees, alarms, strays,
                 late, repairs, faults, crashes>>

LandCalls ==
  /\ land # Unset /\ ~\E c \in calls : c.by = "land"
  /\ \E i \in DOMAIN LandOrder :
       /\ LandOrder[i] \in land /\ \A j \in 1 .. i - 1 : LandOrder[j] \notin land
       /\ calls' = calls \cup {NewCall("land", LandOrder[i])}
  /\ UNCHANGED <<autoMerge, status, attempts, reported, attached, polls, land, github, trees, notes>>
-----------------------------------------------------------------------------
(* The engine dies and is started again: dispatcher and babysitter are     *)
(* attached if the workflow is recoverable, and take up what they find.    *)
Recoverable ==
  DeriveWorkflowStatus([t \in Tasks |-> [executionStatus |-> status[t]]]) = "active"

TakenUp(what, state) == {what[t] : t \in {u \in Tasks : status[u] = state}}

(* a slip: only what becomes finalizing later on is dispatched *)
DispatchedLater == {}

Dispatched == TakenUp([t \in Tasks |-> NewCall("dispatcher", t)], "finalizing")

Restart ==
  /\ crashes < MaxCrashes
  /\ crashes' = crashes + 1
  /\ attached' = Recoverable
  /\ calls' = IF Recoverable THEN Dispatched ELSE {}
  /\ polls' = IF Recoverable THEN TakenUp([t \in Tasks |-> NewPoll(t)], "pr-open") ELSE {}
  /\ land' = Unset
  /\ UNCHANGED <<autoMerge, status, attempts, reported, github, trees, asked, alarms, strays, late, repairs, faults>>

Next ==
  \/ \E t \in Tasks : AgentDelivers(t) \/ OperatorContinues(t) \/ Conclude(t)
  \/ \E o \in Operators, t \in Tasks : OperatorMerges(o, t)
  \/ BaseMoves
  \/ \E c \in calls : CallStep(c) \/ CallFails(c)
  \/ \E p \in polls : PollStep(p) \/ PollFails(p)
  \/ StartLand \/ LandCalls
  \/ Restart

(* git commands and requests are answered *)
Fairness == \A t \in Tasks : WF_vars(\E c \in calls : c.task = t /\ c.by = "dispatcher" /\ CallStep(c))

Spec == Init /\ [][Next]_vars
FairSpec == Spec /\ Fairness
-----------------------------------------------------------------------------
(* A task is called merged when its pull request is, and a pull request    *)
(* that an undisturbed engine has merged is recorded, or being recorded,   *)
(* or reported as inconsistent.                                            *)
MergeIsTold ==
  \A t \in Tasks :
    /\ status[t] = "merged" => Contains(prs[t], "merged")
    /\ Contains(prs[t], "merged") /\ faults = 0 /\ crashes = 0 =>
         \/ status[t] = "merged" \/ t \in alarms
         \/ \E c \in calls : c.task = t /\ c.stage = "finalize"

(* An agent is sent to repair a head once: failing checks, restarts and    *)
(* runs that commit nothing do not make it go round in circles -- unless a *)
(* watch that was dropped while it listed the checks has reported them,    *)
(* though its task has been to its agent and back.                         *)
OneRepairPerHead ==
  \A i, j \in DOMAIN repairs :
    repairs[i] = repairs[j] /\ repairs[i][1] \notin late => i = j

(* The babysitter merges no commit of an agent of which no check has ended *)
(* without a failure, whoever pushes, rebases, merges or sends the agent   *)
(* back while it is at it -- unless a late merge has called the agent's    *)
(* next work pr-open, before it was pushed.                                *)
AutoMergedWorkWasChecked ==
  \A m \in merges : m[1] = "babysitter" /\ m[2] \notin strays =>
    \E c \in checks : c[1] = m[2] /\ c[2][1] = m[3][1] /\ c[3] # "failed"

(* A finalizing task gets its pull request or its conflict, through        *)
(* restarts that find it recoverable: if its worktree is there, nothing    *)
(* that was dropped is still at work on it, no request fails and no        *)
(* operator merges it, who would take the worktree from the dispatcher.    *)
LeftToDispatcher(t) ==
  /\ status[t] = "finalizing" /\ attached /\ t \in worktrees
  /\ \A c \in calls : c.task = t => c.by = "dispatcher" /\ ~c.aborted
  /\ \A p \in polls : p.task # t

FinalizingMovesOn ==
  \A t \in Tasks : LeftToDispatcher(t)
     ~> status[t] # "finalizing" \/ ~attached \/ faults > 0 \/ asked # {}
=============================================================================
