------------------------------- MODULE Providers -------------------------------
(***************************************************************************)
(* parseFrame() of the three agents: what a line of output tells.          *)
(*                                                                         *)
(* Data abstraction: a line is named for its type, with a word for what    *)
(* parseFrame() looks at besides it; "noise" is a line that is no JSON,    *)
(* "unknown" a type nobody has mapped.  An event is its kind; an error is  *)
(* "fatal" (not recoverable), "stall" (of a source that the orchestrator   *)
(* recovers from by itself) or "retry" (recoverable, told and forgotten).  *)
(***************************************************************************)
EXTENDS Sequences

Agents == {"claude-code", "codex", "pi"}

(* the lines that an agent prints, the types of its own and any other *)
LineTypes(provider) ==
  {"noise", "error", "unknown"} \cup
  CASE provider = "claude-code" ->
         {"system", "system-api_retry", "stream_event", "rate_limit_event", "assistant", "user",
          "result-success", "result-idle-timeout", "result-socket-closed", "result-error"}
    [] provider = "codex" ->
         {"thread.started", "turn.started", "turn.completed", "turn.failed", "item.started",
          "item.updated", "item.completed", "item.completed-message", "item.completed-error"}
    [] provider = "pi" ->
         {"session", "agent_start", "turn_end", "message_end", "tool_execution_start",
          "tool_execution_end", "auto_retry_start", "auto_retry_end", "auto_retry_end-failed",
          "agent_end"}

(* a line, and whether this instance has seen the start of a conversation *)
ClaudeFrame(line) ==
  CASE line \in {"noise", "system", "stream_event", "rate_limit_event"} -> << >>
    [] line = "system-api_retry" -> <<"retry">>
    [] line = "assistant" -> <<"text", "tool_call">>
    [] line = "user" -> <<"tool_result">>
    [] line = "result-success" -> <<"usage", "final">>
    [] line \in {"result-idle-timeout", "result-socket-closed"} -> <<"stall", "usage", "final">>
    [] line = "result-error" -> <<"fatal", "usage", "final">>
    [] OTHER -> <<"fatal">>

CodexFrame(line) ==
  CASE line \in {"noise", "thread.started", "turn.started", "item.updated"} -> << >>
    [] line = "turn.completed" -> <<"usage", "final">>
    [] line = "turn.failed" -> <<"fatal", "final">>
    [] line = "item.started" -> <<"tool_call">>
    [] line = "item.completed-message" -> <<"text">>
    [] line = "item.completed" -> <<"tool_result">>
    [] line = "item.completed-error" -> <<"retry">>
    [] OTHER -> <<"fatal">>

PiFrame(line) ==
  CASE line \in {"noise", "session", "agent_start", "turn_end", "auto_retry_end"} -> << >>
    [] line = "message_end" -> <<"text">>
    [] line = "tool_execution_start" -> <<"tool_call">>
    [] line = "tool_execution_end" -> <<"tool_result">>
    [] line \in {"auto_retry_start", "auto_retry_end-failed"} -> <<"retry">>
    [] line = "agent_end" -> <<"usage", "final">>
    [] OTHER -> <<"fatal">>

(* the line that names the conversation *)
Names(provider, line) ==
  \/ provider = "codex" /\ line = "thread.started"
  \/ provider = "pi" /\ line = "session"

(* A second such line makes parseFrame() throw; runProvider() tells that   *)
(* as a recoverable error of no source that is recovered from.             *)
parseFrame(provider, line, named) ==
  IF Names(provider, line) /\ named THEN <<"retry">>
  ELSE CASE provider = "claude-code" -> ClaudeFrame(line)
         [] provider = "codex" -> CodexFrame(line)
         [] provider = "pi" -> PiFrame(line)

(* the final event carries a reference to the conversation *)
HasSessionRef(provider, named) == provider = "claude-code" \/ named

(* What the lines mean, said again without the events: the last one of a   *)
(* turn, one that tells a failure, and one that tells a broken connection. *)
Closing == {"result-success", "result-idle-timeout", "result-socket-closed", "result-error",
            "turn.completed", "turn.failed", "agent_end"}

Failing == {"result-error", "turn.failed", "error", "unknown"}

Stalling == {"result-idle-timeout", "result-socket-closed"}
===============================================================================
