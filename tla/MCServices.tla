------------------------------ MODULE MCServices ------------------------------
(***************************************************************************)
(* Instances, for TLC, of the engine's modules that share no state with    *)
(* one another: Worktrees, which is extended, and AgentRun, Supervisor,    *)
(* Services, GithubClient and LogSink.  A behaviour is about one of them;  *)
(* the others rest.  The properties of Worktrees are stated there.         *)
(***************************************************************************)
EXTENDS Worktrees, Integers, Sequences, TLC

CONSTANTS c1, c2, c3,
          Scripts, MaxCrashes,         \* of AgentRun
          Silence, Threshold,          \* of Supervisor
          MaxRuns, MaxReports,
          Endpoints,                   \* the browsers, of Supervisor and of Services
          MaxEvents, MaxRestarts       \* of Services

VARIABLES
  part,    \* what the behaviour is about; it never changes
  (* AgentRun *)
  script, wrote, logged, agent, piped, sentinel, run, engine, task, saved, named, resumed, crashes,
  (* Supervisor *)
  status, runs, runningTasks, lastEventAt, lastAlertAt, pendingCi, recent, told, window, scan,
  timer, subs, sends, unstored, reports,
  (* Services *)
  service, exists, log, at, booting, endpoints, sending, pushed, before,
  (* GithubClient *)
  tokens, age, waiters, timers, request,
  (* LogSink *)
  batchSize, queueCap, queue, flushTimer, dropped, flushes, closed, taken, file, received, toldLost,
  restarts  \* of the supervisor or of the services; faults are counted by Worktrees

worktreeVars   == <<dir, registered, tail, arrivals, call, killed>>
agentVars      == <<script, wrote, logged, agent, piped, sentinel, run, engine, task, saved, named,
                    resumed, crashes>>
supervisorVars == <<status, runs, runningTasks, lastEventAt, lastAlertAt, pendingCi, recent, told,
                    window, scan, timer, subs, sends, unstored, reports>>
serviceVars    == <<service, exists, log, at, booting, endpoints, sending, pushed, before>>
githubVars     == <<tokens, age, waiters, timers, request>>
sinkVars       == <<batchSize, queueCap, queue, flushTimer, dropped, flushes, closed, taken, file,
                    received, toldLost>>
all == <<part, worktreeVars, agentVars, supervisorVars, serviceVars, githubVars, sinkVars,
         faults, restarts>>

Says(provider, lines) == [provider |-> provider, lines |-> lines]

TheScripts ==
  {Says("claude-code", <<"assistant", "result-success">>),
   Says("claude-code", <<"noise", "result-error">>),
   Says("claude-code", <<"system-api_retry", "result-idle-timeout">>),
   Says("codex", <<"thread.started", "turn.completed">>),
   Says("codex", <<"turn.failed", "unknown">>),
   Says("codex", <<"turn.completed", "error">>),
   Says("pi", <<"session", "session">>),
   Says("pi", <<"error", "agent_end">>)}

A == INSTANCE AgentRun

P == INSTANCE Supervisor

S == INSTANCE Services WITH subs <- endpoints

G == INSTANCE GithubClient WITH
       Capacity <- 1, TokenTicks <- 2, MaxPages <- 2, call <- request

L == INSTANCE LogSink WITH
       Sizes <- {1, 2, 9}, MaxRecords <- 3, timer <- flushTimer, told <- toldLost

ASSUME Assumptions == L!LogSinkAssumption /\ A!AgentRunAssumption
-----------------------------------------------------------------------------
Parts == {"worktrees", "agent", "supervisor", "services", "github", "sink"}

Rests(p, state) == part # p => state

MCInit ==
  /\ part \in Parts
  /\ Init /\ Rests("worktrees", \A t \in Tasks : dir[t] = "absent")
  /\ A!InitWith(IF part = "agent" THEN Scripts ELSE {Says("pi", << >>)})
  /\ P!Init
  /\ S!Init /\ Rests("services", service = "push")
  /\ G!Init /\ Rests("github", \A c \in Calls : request[c].method = "one")
  /\ L!Init /\ Rests("sink", batchSize = 1 /\ queueCap = 1)

(* Calls come in order; the third creates a worktree where no command has  *)
(* failed, and one fails only where no caller has been told of a timeout.  *)
WorktreeBounds ==
  /\ call'[c2].stage # "new" => call'[c1].stage # "new"
  /\ call'[c3].stage # "new" => call'[c2].stage # "new" /\ faults' = 0
  /\ call'[c3].kind = "create"
  /\ faults' # faults => \A c \in Calls : call'[c].answer # "timeout"

OnWorktrees(action) ==
  /\ part = "worktrees" /\ action /\ WorktreeBounds
  /\ UNCHANGED <<part, agentVars, supervisorVars, serviceVars, githubVars, sinkVars, restarts>>

OnAgent(action) ==
  /\ part = "agent" /\ action
  /\ UNCHANGED <<part, worktreeVars, supervisorVars, serviceVars, githubVars, sinkVars, restarts>>

OnSupervisor(action) ==
  /\ part = "supervisor" /\ action
  /\ UNCHANGED <<part, worktreeVars, agentVars, serviceVars, githubVars, sinkVars>>

OnServices(action) ==
  /\ part = "services" /\ action
  /\ UNCHANGED <<part, worktreeVars, agentVars, supervisorVars, githubVars, sinkVars>>

OnGithub(action) ==
  /\ part = "github" /\ action
  /\ UNCHANGED <<part, worktreeVars, agentVars, supervisorVars, serviceVars, sinkVars,
                 faults, restarts>>

OnSink(action) ==
  /\ part = "sink" /\ action
  /\ UNCHANGED <<part, worktreeVars, agentVars, supervisorVars, serviceVars, githubVars,
                 faults, restarts>>

MCNext ==
  \/ OnWorktrees(Next) \/ OnAgent(A!Next) \/ OnSupervisor(P!Next)
  \/ OnServices(S!Next) \/ OnGithub(G!Next) \/ OnSink(L!Next)

(* the fairness of GithubClient and LogSink *)
Fairness ==
  /\ WF_all(OnGithub(G!DrainWaiters)) /\ WF_all(OnGithub(G!Tick))
  /\ \A c \in Calls : WF_all(OnGithub(G!Acquire(c))) /\ WF_all(OnGithub(G!Answer(c)))
  /\ WF_all(OnSink(L!TimerFires)) /\ WF_all(OnSink(L!PostReturns))

MCSpec == MCInit /\ [][MCNext]_all /\ Fairness
-----------------------------------------------------------------------------
(* AgentRun: a run ends as its log tells; every line is taken once.        *)
OutcomeFitsLog   == A!OutcomeFitsLog
LinesAreReadOnce == A!LinesAreReadOnce

(* Supervisor: what is worth an alert each time gets it.                   *)
EveryInconsistencyIsTold == P!EveryInconsistencyIsTold

(* Services: no transition falls between a scan and the tail; history is   *)
(* not pushed.                                                             *)
ScanMeetsTail      == S!ScanMeetsTail
HistoryIsNotPushed == S!HistoryIsNotPushed

(* GithubClient: every call gets its token and returns.                    *)
EveryCallIsServed == part = "github" => G!EveryCallIsServed

(* LogSink: every record is delivered or told of as lost.                  *)
EveryRecordIsSettled == L!EveryRecordIsSettled
===============================================================================
