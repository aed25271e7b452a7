------------------------------- MODULE AgentRun -------------------------------
(***************************************************************************)
(* One run of an agent: what it prints goes through a tmux pipe into a log *)
(* file, which TmuxRuntimeBackend.attach() follows and, when the pane is   *)
(* dead, drains; runProvider() cuts it into lines and RunOrchestrator.run  *)
(* makes of them the end of the run.  The engine crashes, is shut down and *)
(* boots again meanwhile.                                                  *)
(*                                                                         *)
(* Data abstraction: offsets count half lines, so that a chunk can end     *)
(* inside a line.  A line is one of Providers.tla; half a line is no JSON  *)
(* and tells nothing.                                                      *)
(***************************************************************************)
EXTENDS Naturals, Sequences, Providers

CONSTANTS Scripts,                \* an agent's provider and the lines it may print
          MaxFaults, MaxCrashes   \* bounds

AgentRunAssumption ==
  \A s \in Scripts : s.provider \in Agents /\ s.lines \in Seq(LineTypes(s.provider))

VARIABLES
  script, wrote, logged,   \* what it prints; halves printed; halves in the log
  agent,                   \* "live", "dead" in its pane, or "gone" with it
  piped, sentinel,         \* the pipe is open; log.done is there
  run,                     \* the orchestrator and its attach()
  engine,                  \* "up", "stopping" (the signal is aborted) or "down"
  task, saved, named,      \* the task's status; its run's outputOffset and providerSessionRef
  resumed,                 \* the run was attached to past the start of its log
  faults, crashes

logging == <<script, wrote, logged>>
vars == <<logging, agent, piped, sentinel, run, engine, task, saved, named, resumed, faults, crashes>>

NoRun == [stage |-> "off", offset |-> 0, got |-> FALSE, todo |-> << >>, last |-> FALSE,
          first |-> 0, seen |-> 0, events |-> << >>, session |-> FALSE,
          fatal |-> FALSE, stall |-> FALSE, final |-> FALSE, caught |-> FALSE, outcome |-> "none",
          idle |-> "off", terminated |-> FALSE, aborted |-> FALSE, failed |-> FALSE]

(* attach() from an offset: the line it falls into is lost *)
Attached(offset) ==
  [NoRun EXCEPT !.stage = "follow", !.offset = offset, !.first = (offset + 1) \div 2,
                 !.seen = (offset + 1) \div 2]

InitWith(scripts) ==
  /\ script \in scripts /\ wrote = 0 /\ logged = 0
  /\ agent = "live" /\ piped = TRUE /\ sentinel = FALSE
  /\ run = Attached(0) /\ engine = "up" /\ task = "running" /\ saved = 0 /\ named = FALSE
  /\ resumed = FALSE /\ faults = 0 /\ crashes = 0

Init == InitWith(Scripts)

Fails == faults < MaxFaults /\ faults' = faults + 1

Stopping == engine = "stopping"

Lines == logged \div 2
-----------------------------------------------------------------------------
(* the agent, the pipe, and cat >> log; touch log.done *)
Write ==
  /\ agent = "live" /\ piped /\ wrote < 2 * Len(script.lines)
  /\ wrote' = wrote + 1
  /\ UNCHANGED <<script, logged, agent, piped, sentinel, run, engine, task, saved, named, resumed, faults, crashes>>

Exit ==
  /\ agent = "live" /\ agent' = "dead"
  /\ UNCHANGED <<logging, piped, sentinel, run, engine, task, saved, named, resumed, faults, crashes>>

Flush ==
  /\ logged < wrote /\ logged' = logged + 1
  /\ UNCHANGED <<script, wrote, agent, piped, sentinel, run, engine, task, saved, named, resumed, faults, crashes>>

PipeEnds ==
  /\ ~piped /\ ~sentinel /\ logged = wrote
  /\ sentinel' = TRUE
  /\ UNCHANGED <<logging, agent, piped, run, engine, task, saved, named, resumed, faults, crashes>>

OthersRest == UNCHANGED <<logging, engine, resumed, crashes>>

To(stage) == run' = [run EXCEPT !.stage = stage]
-----------------------------------------------------------------------------
(* attach() *)
Following == run.stage \in {"follow", "chunk"} /\ ~run.last

PollFindsDead ==
  /\ Following /\ ~run.terminated /\ ~run.aborted /\ ~Stopping
  /\ agent # "live"
  /\ run' = [run EXCEPT !.terminated = TRUE, !.aborted = TRUE]
  /\ OthersRest /\ UNCHANGED <<agent, piped, sentinel, task, saved, named, faults>>

(* no output for too long: the session is stopped, then the log let go *)
IdleTimeout ==
  /\ run.stage = "follow" /\ ~run.terminated /\ ~run.aborted /\ ~Stopping
  /\ run' = [run EXCEPT !.terminated = TRUE, !.idle = "stopping"]
  /\ OthersRest /\ UNCHANGED <<agent, piped, sentinel, task, saved, named, faults>>

IdleStopped ==
  /\ run.idle = "stopping"
  /\ agent' = "gone" /\ piped' = FALSE
  /\ run' = [run EXCEPT !.idle = "stopped", !.aborted = TRUE]
  /\ OthersRest /\ UNCHANGED <<sentinel, task, saved, named, faults>>

(* the lines that a chunk from one offset to another completes; the one    *)
(* that attach() began in is lost                                          *)
LinesOf(from, to) ==
  LET taken == IF from \div 2 < run.first THEN run.first ELSE from \div 2
  IN  [i \in 1..(to \div 2 - taken) |-> taken + i]

Chunk(offset) ==
  run' = [run EXCEPT !.stage = "chunk", !.offset = offset, !.got = TRUE,
                     !.todo = LinesOf(run.offset, offset)]

Read ==
  /\ run.stage = "follow" /\ ~run.aborted /\ ~Stopping
  /\ run.offset < logged
  /\ Chunk(logged)
  /\ OthersRest /\ UNCHANGED <<agent, piped, sentinel, task, saved, named, faults>>

ChunkIsDone ==
  /\ run.stage = "chunk" /\ run.todo = << >> /\ run.events = << >>
  /\ To(IF run.last THEN "ending" ELSE "follow")
  /\ OthersRest /\ UNCHANGED <<agent, piped, sentinel, task, saved, named, faults>>

(* run() catches an error: an aborted signal leaves the task running, and  *)
(* the offset is saved unless the final was seen                           *)
Caught(r, outcome) ==
  IF Stopping THEN [r EXCEPT !.stage = "exit"]
  ELSE [r EXCEPT !.caught = TRUE, !.outcome = outcome, !.todo = << >>, !.events = << >>,
                 !.stage = IF r.got /\ ~r.final THEN "save" ELSE "decide"]

(* a slip: the log is not drained *)
FollowEndsUndrained ==
  /\ run.stage = "follow" /\ (run.aborted \/ Stopping)
  /\ run' = IF run.idle # "off" THEN Caught(run, "recovered")
            ELSE IF Stopping THEN [run EXCEPT !.stage = "exit"]
            ELSE [run EXCEPT !.stage = "ending"]
  /\ OthersRest /\ UNCHANGED <<agent, piped, sentinel, task, saved, named, faults>>

FollowEnds ==
  /\ run.stage = "follow" /\ (run.aborted \/ Stopping)
  /\ run' = IF run.idle # "off" THEN Caught(run, "recovered")
            ELSE IF Stopping THEN [run EXCEPT !.stage = "exit"]
            ELSE [run EXCEPT !.stage = "drain"]
  /\ OthersRest /\ UNCHANGED <<agent, piped, sentinel, task, saved, named, faults>>

(* pipePaneOff *)
Drain ==
  /\ run.stage = "drain"
  /\ \/ To("sentinel") /\ piped' = FALSE /\ UNCHANGED faults
     \/ Fails /\ run' = [Caught(run, "interrupted") EXCEPT !.failed = TRUE] /\ UNCHANGED piped
  /\ OthersRest /\ UNCHANGED <<agent, sentinel, task, saved, named>>

(* the sentinel is there, or the wait for it is over: "a safety net" *)
SentinelSeen ==
  /\ run.stage = "sentinel"
  /\ \/ sentinel /\ run' = [run EXCEPT !.stage = "last"] /\ UNCHANGED faults
     \/ ~sentinel /\ Fails /\ run' = [run EXCEPT !.stage = "last", !.failed = TRUE]
  /\ OthersRest /\ UNCHANGED <<agent, piped, sentinel, task, saved, named>>

(* a slip: the rest is read from the start of the log *)
ReadRestAgain ==
  /\ run.stage = "last"
  /\ sentinel' = FALSE
  /\ run' = [run EXCEPT !.stage = "chunk", !.last = TRUE, !.offset = logged, !.got = TRUE,
                        !.todo = LinesOf(0, logged)]
  /\ OthersRest /\ UNCHANGED <<agent, piped, task, saved, named, faults>>

ReadRest ==
  /\ run.stage = "last"
  /\ sentinel' = FALSE
  /\ run' = IF run.offset < logged
            THEN [run EXCEPT !.stage = "chunk", !.last = TRUE, !.offset = logged, !.got = TRUE,
                             !.todo = LinesOf(run.offset, logged)]
            ELSE [run EXCEPT !.stage = "ending"]
  /\ OthersRest /\ UNCHANGED <<agent, piped, task, saved, named, faults>>
-----------------------------------------------------------------------------
(* runProvider() cuts off a line and parses it *)
NextLine ==
  /\ run.stage = "chunk" /\ run.events = << >> /\ run.todo # << >>
  /\ LET l == Head(run.todo)
         line == script.lines[l]
     IN  run' = [run EXCEPT !.todo = Tail(@), !.seen = l,
                            !.events = parseFrame(script.provider, line, run.session),
                            !.session = @ \/ Names(script.provider, line)]
  /\ OthersRest /\ UNCHANGED <<agent, piped, sentinel, task, saved, named, faults>>

(* run(): the next event; what cannot be persisted is an error *)
Outcome(r) == IF r.fatal THEN "interrupted" ELSE IF r.stall THEN "recovered" ELSE "completed"

Persistent == {"text", "tool_call", "tool_result", "fatal", "stall", "retry"}

Handle ==
  /\ run.stage = "chunk" /\ run.events # << >>
  /\ LET event == Head(run.events)
         rest == [run EXCEPT !.events = Tail(@)]
     IN  \/ /\ event # "final"
            /\ run' = [rest EXCEPT !.fatal = @ \/ event = "fatal", !.stall = @ \/ event = "stall"]
            /\ UNCHANGED faults
         \/ /\ event = "final"
            /\ run' = [rest EXCEPT !.todo = << >>, !.final = TRUE, !.outcome = Outcome(run),
                                   !.stage = IF HasSessionRef(script.provider, run.session) THEN "name" ELSE "decide"]
            /\ UNCHANGED faults
         \/ /\ event \in Persistent /\ Fails
            /\ run' = [Caught(run, "interrupted") EXCEPT !.failed = TRUE]
  /\ OthersRest /\ UNCHANGED <<agent, piped, sentinel, task, saved, named>>

(* update-run with the providerSessionRef: a stale session ends run(), a   *)
(* conflict is skipped, another failure is an error                        *)
NameSession ==
  /\ run.stage = "name"
  /\ IF task # "running" THEN To("exit") /\ UNCHANGED <<named, faults>>
     ELSE \/ To("decide") /\ named' = TRUE /\ UNCHANGED faults
          \/ Fails /\ UNCHANGED named
             /\ \/ To("decide")
                \/ run' = [Caught(run, "interrupted") EXCEPT !.failed = TRUE]
  /\ OthersRest /\ UNCHANGED <<agent, piped, sentinel, task, saved>>

(* the output has ended without a final *)
Ending ==
  /\ run.stage = "ending"
  /\ run' = IF Stopping THEN [run EXCEPT !.stage = "exit"]
            ELSE [run EXCEPT !.outcome = "interrupted", !.stage = IF run.got THEN "save" ELSE "decide"]
  /\ OthersRest /\ UNCHANGED <<agent, piped, sentinel, task, saved, named, faults>>

(* update-run: a stale session ends run(), another failure is logged *)
Save ==
  /\ run.stage = "save"
  /\ IF task # "running" THEN To("exit") /\ UNCHANGED <<saved, faults>>
     ELSE \/ To("decide") /\ saved' = run.offset /\ UNCHANGED faults
          \/ To("decide") /\ UNCHANGED saved /\ Fails
  /\ OthersRest /\ UNCHANGED <<agent, piped, sentinel, task, named>>

(* dispatchWithRetry: a third version conflict is an error, caught once *)
Decide ==
  /\ run.stage = "decide"
  /\ \/ /\ IF task = "running" THEN task' = run.outcome ELSE UNCHANGED task
        /\ To("exit") /\ UNCHANGED faults
     \/ /\ task = "running" /\ Fails /\ UNCHANGED task
        /\ run' = IF run.final /\ ~run.caught
                  THEN [Caught(run, "interrupted") EXCEPT !.failed = TRUE]
                  ELSE [run EXCEPT !.stage = "exit"]
  /\ OthersRest /\ UNCHANGED <<agent, piped, sentinel, saved, named>>
-----------------------------------------------------------------------------
(* the engine; what is not there to be attached to is recovered *)
ShutDown ==
  /\ engine = "up" /\ crashes < MaxCrashes
  /\ engine' = "stopping" /\ crashes' = crashes + 1
  /\ UNCHANGED <<logging, agent, piped, sentinel, run, task, saved, named, resumed, faults>>

GoDown ==
  /\ \/ Stopping /\ run.stage \in {"off", "exit"} /\ UNCHANGED crashes
     \/ engine = "up" /\ crashes < MaxCrashes /\ crashes' = crashes + 1
  /\ engine' = "down" /\ run' = [NoRun EXCEPT !.seen = run.seen]
  /\ UNCHANGED <<logging, agent, piped, sentinel, task, saved, named, resumed, faults>>

Recovered(t) == t = IF agent = "dead" THEN "recovered" ELSE "interrupted"

Boot ==
  /\ engine = "down" /\ engine' = "up"
  /\ IF task = "running" /\ agent = "live"
     THEN run' = Attached(saved) /\ resumed' = (saved > 0) /\ UNCHANGED task
     ELSE /\ IF task = "running" THEN Recovered(task') ELSE UNCHANGED task
          /\ UNCHANGED <<run, resumed>>
  /\ UNCHANGED <<logging, agent, piped, sentinel, saved, named, faults, crashes>>

(* the periodic recovery probes a session that is being drained *)
Scan ==
  /\ engine # "down" /\ task = "running" /\ agent # "live"
  /\ Recovered(task')
  /\ UNCHANGED <<logging, agent, piped, sentinel, run, engine, saved, named, resumed, faults, crashes>>

(* an operator *)
Cancel ==
  /\ engine = "up" /\ task = "running" /\ task' = "cancelled"
  /\ UNCHANGED <<logging, agent, piped, sentinel, run, engine, saved, named, resumed, faults, crashes>>

Next ==
  \/ Write \/ Exit \/ Flush \/ PipeEnds
  \/ PollFindsDead \/ IdleTimeout \/ IdleStopped \/ Read \/ ChunkIsDone \/ FollowEnds
  \/ Drain \/ SentinelSeen \/ ReadRest
  \/ NextLine \/ Handle \/ NameSession \/ Ending \/ Save \/ Decide
  \/ ShutDown \/ GoDown \/ Boot \/ Scan \/ Cancel

Spec == Init /\ [][Next]_vars
-----------------------------------------------------------------------------
(* the log's lines up to and with the first that closes its turn *)
Closed == {l \in 1..Lines : script.lines[l] \in Closing}

Told == {script.lines[l] : l \in {k \in 1..Lines : \A c \in Closed : k <= c}}

(* the orchestrator ends the run *)
Ends(outcome) ==
  run.stage = "decide" /\ run'.stage = "exit" /\ task = "running" /\ task' = outcome

(* How a run ends is what its log tells, whoever the agent is: completed   *)
(* with a turn closed and nothing failed before; recovered after a broken  *)
(* connection or an idle timeout; interrupted only if no turn is closed or *)
(* something failed.  Not so of a run that was attached to past the start  *)
(* of its log, or with a failure of another kind.                          *)
OutcomeFitsLog ==
  [][~resumed /\ ~run.failed =>
       /\ Ends("completed") => Closed # {} /\ Told \cap (Failing \cup Stalling) = {}
       /\ Ends("recovered") => Told \cap Stalling # {} \/ run.idle # "off"
       /\ Ends("interrupted") => Closed = {} \/ Told \cap Failing # {}]_vars

(* An attach() gives every line once and in order, from the replay over    *)
(* the following of the log to the draining after the pane is dead.        *)
LinesAreReadOnce ==
  [][run.todo # << >> /\ run'.seen # run.seen /\ run'.stage # "off" => Head(run.todo) = run.seen + 1]_vars
===============================================================================
