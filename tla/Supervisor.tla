------------------------------ MODULE Supervisor ------------------------------
(***************************************************************************)
(* The supervisor: a log sink whose rules make alerts of records, and a    *)
(* scan loop whose rules make alerts of what they remember.  Alerts are    *)
(* stored and pushed to those who subscribed to them.                      *)
(*                                                                         *)
(* One workflow.  Time passes in ticks of the alerts' cooldown; a record   *)
(* of the workflow's events is written as they are (the observability      *)
(* service reads the same subscription as all others, and is behind by     *)
(* milliseconds).  The restart is that of the engine: nothing of the       *)
(* supervisor's memory is stored.                                          *)
(***************************************************************************)
EXTENDS Naturals, Sequences, FiniteSets

CONSTANTS Tasks, Endpoints,
          Silence,       \* SILENCE_MS, in ticks
          Threshold,     \* of push failures in a window of one tick
          MaxRuns, MaxReports, MaxFaults, MaxRestarts   \* bounds

VARIABLES
  status,          \* "ready", "running", "finalizing" (after "completed"), "pr-open" or "done"
  runs,            \* starts of runs so far
  runningTasks, lastEventAt, lastAlertAt,   \* the workflow's activity, its times as ages
  pendingCi,       \* pendingCiExhaustion: "no", "recorded" or "alerted"
  recent,          \* recentAlerts: the age of the last alert of a key
  told,            \* the age of the last alert that was stored, of a key
  window,          \* pushFailureWindow
  scan,            \* the scan under way
  timer,           \* the scan loop's timer is set
  subs, sends,     \* alert subscriptions; alerts being pushed
  unstored,        \* an alert could not be stored
  reports, faults, restarts

world == <<status, runs, reports, restarts>>
activity == <<runningTasks, lastEventAt, lastAlertAt>>
alerts == <<recent, told, sends>>
store == <<unstored, faults>>
vars == <<world, activity, pendingCi, alerts, window, scan, timer, subs, store>>

AlertKeys ==
  ({"ci-exhausted", "merge-inconsistent"} \X Tasks)
    \cup {<<"orchestrator-silent">>, <<"boot-recovery-failed">>, <<"push-failures-spike">>}

(* ages count up to "long ago": one tick for alerts, Silence for activity *)
Cooldown == 1
LongAgo == [k \in AlertKeys |-> Cooldown]
NoScan == [stage |-> "off", seen |-> {}, task |-> "none", found |-> "none"]

Init ==
  /\ status = [t \in Tasks |-> "ready"] /\ runs = 0 /\ reports = 0 /\ restarts = 0
  /\ runningTasks = {} /\ lastEventAt = Silence /\ lastAlertAt = Silence
  /\ pendingCi = [t \in Tasks |-> "no"] /\ recent = LongAgo /\ told = LongAgo
  /\ window = 0 /\ scan = NoScan /\ timer = TRUE
  /\ subs = {} /\ sends = {} /\ unstored = FALSE /\ faults = 0

Fails == faults < MaxFaults /\ faults' = faults + 1
-----------------------------------------------------------------------------
(* fireAlert(): one alert of a key in a cooldown; one that cannot be       *)
(* stored is not told, and not remembered as told                          *)
Stored(key) ==
  /\ recent' = [recent EXCEPT ![key] = 0] /\ told' = [told EXCEPT ![key] = 0]
  /\ sends' = sends \cup subs
  /\ UNCHANGED store

(* a slip: the alert is remembered before it is stored *)
fireAlertFirst(key) ==
  \/ recent[key] < Cooldown /\ UNCHANGED <<alerts, store>>
  \/ recent[key] >= Cooldown /\ Stored(key)
  \/ /\ recent[key] >= Cooldown /\ Fails /\ unstored' = TRUE
     /\ recent' = [recent EXCEPT ![key] = 0]
     /\ UNCHANGED <<told, sends>>

fireAlert(key) ==
  \/ recent[key] < Cooldown /\ UNCHANGED <<alerts, store>>
  \/ recent[key] >= Cooldown /\ Stored(key)
  \/ recent[key] >= Cooldown /\ Fails /\ unstored' = TRUE /\ UNCHANGED alerts
-----------------------------------------------------------------------------
(* log records, and what makes the engine write them *)
Terminal == {"finalizing", "done", "pr-open"}

TaskTransitioned(t, to) ==
  /\ status' = [status EXCEPT ![t] = to]
  /\ lastEventAt' = 0
  /\ runningTasks' = IF to \in Terminal THEN runningTasks \ {t}
                     ELSE IF to = "running" THEN runningTasks \cup {t} ELSE runningTasks
  /\ UNCHANGED <<reports, restarts, lastAlertAt, pendingCi, alerts, window, scan, timer, subs, store>>

StartRun(t) ==
  /\ status[t] # "running" /\ runs < MaxRuns /\ runs' = runs + 1
  /\ TaskTransitioned(t, "running")

EndRun(t) ==
  /\ status[t] = "running" /\ UNCHANGED runs
  /\ \E to \in {"ready", "finalizing", "done"} : TaskTransitioned(t, to)

OpenReview(t) == status[t] = "finalizing" /\ UNCHANGED runs /\ TaskTransitioned(t, "pr-open")

Merge(t) == status[t] = "pr-open" /\ UNCHANGED runs /\ TaskTransitioned(t, "done")

Reports == reports < MaxReports /\ reports' = reports + 1 /\ UNCHANGED <<status, runs, restarts>>

(* the babysitter gives a pull request up, when GitHub has answered it: a  *)
(* macrotask, never between the scan's read and what it makes of it        *)
CiAttemptCap(t) ==
  /\ status[t] = "pr-open" /\ scan.stage # "got" /\ Reports
  /\ pendingCi' = [pendingCi EXCEPT ![t] = IF @ = "no" THEN "recorded" ELSE @]
  /\ UNCHANGED <<activity, alerts, window, scan, timer, subs, store>>

MergeInconsistent(t) ==
  /\ status[t] = "pr-open" /\ Reports
  /\ fireAlert(<<"merge-inconsistent", t>>)
  /\ UNCHANGED <<activity, pendingCi, window, scan, timer, subs>>

PushSendFailed ==
  /\ Reports
  /\ IF window = Threshold
     THEN window' = 0 /\ fireAlert(<<"push-failures-spike">>)
     ELSE window' = window + 1 /\ UNCHANGED <<alerts, store>>
  /\ UNCHANGED <<activity, pendingCi, scan, timer, subs>>
-----------------------------------------------------------------------------
(* the scan loop: the rules in their order, a failing one not in the way   *)
ScanStarts ==
  /\ timer /\ scan.stage = "off"
  /\ timer' = FALSE /\ scan' = [NoScan EXCEPT !.stage = "silent"]
  /\ UNCHANGED <<world, activity, pendingCi, alerts, window, subs, store>>

(* orchestrator-silent *)
ScanSilence ==
  /\ scan.stage = "silent" /\ scan' = [scan EXCEPT !.stage = "ci"]
  /\ IF runningTasks # {} /\ lastEventAt >= Silence /\ lastAlertAt >= Silence
     THEN lastAlertAt' = 0 /\ fireAlert(<<"orchestrator-silent">>)
     ELSE UNCHANGED <<lastAlertAt, alerts, store>>
  /\ UNCHANGED <<world, runningTasks, lastEventAt, pendingCi, window, timer, subs>>

(* ci-exhausted: one entry after the other, each after a read *)
ToScan == {t \in Tasks \ scan.seen : pendingCi[t] = "recorded"}

ScanReads(t) ==
  /\ scan.stage = "ci" /\ t \in ToScan
  /\ \/ scan' = [scan EXCEPT !.stage = "got", !.seen = @ \cup {t}, !.task = t, !.found = status[t]]
        /\ UNCHANGED faults
     \/ scan' = [scan EXCEPT !.stage = "over"] /\ Fails
  /\ UNCHANGED <<world, activity, pendingCi, alerts, window, timer, subs, unstored>>

ScanDecides ==
  /\ scan.stage = "got" /\ scan' = [scan EXCEPT !.stage = "ci"]
  /\ IF scan.found = "pr-open"
     THEN /\ pendingCi' = [pendingCi EXCEPT ![scan.task] = "alerted"]
          /\ fireAlert(<<"ci-exhausted", scan.task>>)
     ELSE /\ pendingCi' = [pendingCi EXCEPT ![scan.task] = "no"]
          /\ UNCHANGED <<alerts, store>>
  /\ UNCHANGED <<world, activity, window, timer, subs>>

ScanEnds ==
  /\ scan.stage = "over" \/ (scan.stage = "ci" /\ ToScan = {})
  /\ scan' = NoScan /\ timer' = TRUE
  /\ UNCHANGED <<world, activity, pendingCi, alerts, window, subs, store>>

ScanStep ==
  ScanStarts \/ ScanSilence \/ (\E t \in Tasks : ScanReads(t)) \/ ScanDecides \/ ScanEnds
-----------------------------------------------------------------------------
(* a minute passes, or a cooldown *)
Older(age, most) == IF age < most THEN age + 1 ELSE age

Tick ==
  /\ recent' = [k \in AlertKeys |-> Older(recent[k], Cooldown)]
  /\ told' = [k \in AlertKeys |-> Older(told[k], Cooldown)]
  /\ lastEventAt' = Older(lastEventAt, Silence) /\ lastAlertAt' = Older(lastAlertAt, Silence)
  /\ window' = 0
  /\ UNCHANGED <<world, runningTasks, pendingCi, sends, scan, timer, subs, store>>

(* the engine starts again; its first record is the report of the recovery *)
Restart ==
  /\ restarts < MaxRestarts /\ restarts' = restarts + 1
  /\ runningTasks' = {} /\ lastEventAt' = Silence /\ lastAlertAt' = Silence
  /\ pendingCi' = [t \in Tasks |-> "no"] /\ window' = 0 /\ scan' = NoScan /\ timer' = TRUE
  /\ \/ recent' = LongAgo /\ sends' = {} /\ UNCHANGED <<told, store>>
     \/ recent' = [LongAgo EXCEPT ![<<"boot-recovery-failed">>] = 0] /\ sends' = subs
        /\ told' = [told EXCEPT ![<<"boot-recovery-failed">>] = 0] /\ UNCHANGED store
  /\ UNCHANGED <<status, runs, reports, subs>>

(* POST and DELETE /alerts/subscribe; AlertNotifier.sendOne *)
Subscribe(e) ==
  /\ e \notin subs /\ subs' = subs \cup {e}
  /\ UNCHANGED <<world, activity, pendingCi, alerts, window, scan, timer, store>>

Unsubscribe(e) ==
  /\ e \in subs /\ subs' = subs \ {e}
  /\ UNCHANGED <<world, activity, pendingCi, alerts, window, scan, timer, store>>

SendOne(e) ==
  /\ e \in sends /\ sends' = sends \ {e}
  /\ \/ UNCHANGED <<subs, store>>
     \/ subs' = subs \ {e} /\ Fails
  /\ UNCHANGED <<world, activity, pendingCi, recent, told, window, scan, timer, unstored>>

Next ==
  \/ \E t \in Tasks :
       StartRun(t) \/ EndRun(t) \/ OpenReview(t) \/ Merge(t) \/ CiAttemptCap(t) \/ MergeInconsistent(t)
  \/ PushSendFailed \/ ScanStep \/ Tick \/ Restart
  \/ \E e \in Endpoints : Subscribe(e) \/ Unsubscribe(e) \/ SendOne(e)

Spec == Init /\ [][Next]_vars
-----------------------------------------------------------------------------
(* "Merge state inconsistent" is worth an alert each time: whenever it is  *)
(* reported an alert of it is in the store that is younger than the        *)
(* cooldown, unless the store fails on this very report.                   *)
EveryInconsistencyIsTold ==
  [][\A t \in Tasks : MergeInconsistent(t) =>
       told'[<<"merge-inconsistent", t>>] < Cooldown \/ faults' # faults]_vars

===============================================================================
