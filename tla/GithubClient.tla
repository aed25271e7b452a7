----------------------------- MODULE GithubClient -----------------------------
(***************************************************************************)
(* The calls of the GitHub client through its token bucket: every request, *)
(* and every page of a list, takes a token first; who finds none waits for *)
(* a timer to hand one on.                                                 *)
(*                                                                         *)
(* Data abstraction: time is counted in ticks, a token is TokenTicks of    *)
(* them, and the bucket counts its content in ticks too.  A timer is set   *)
(* for the time of one token, of which the runtime may drop a fraction of  *)
(* a tick.  What a call asks for is modelled by GithubDelivery.            *)
(***************************************************************************)
EXTENDS Integers, Sequences, FiniteSets

CONSTANTS Calls, Capacity, TokenTicks, MaxPages

Full == Capacity * TokenTicks

VARIABLES
  tokens,     \* what the bucket held at the last refill
  age,        \* the time since then (what is past a full bucket makes no difference)
  waiters,    \* the calls that wait for a token, in order
  timers,     \* timers[left]: how many timers have so many ticks left
  call

clientVars == <<tokens, age, waiters, timers, call>>

Least(a, b) == IF a < b THEN a ELSE b

Init ==
  /\ tokens = Full /\ age = 0 /\ waiters = <<>> /\ timers = [left \in 0..TokenTicks |-> 0]
  /\ call \in [Calls -> {[method |-> m, stage |-> "new", pages |-> 0] : m \in {"one", "list"}}]

Move(c, stage) == call' = [call EXCEPT ![c].stage = stage]

Refilled == Least(Full, tokens + age)

ScheduleWaiterDrain(ts) == [ts EXCEPT ![TokenTicks] = @ + 1]

(* acquire(): a token that is there is taken, whoever waits *)
Acquire(c) ==
  /\ call[c].stage = "new" /\ age' = 0
  /\ IF Refilled >= TokenTicks
     THEN /\ tokens' = Refilled - TokenTicks /\ Move(c, "requesting")
          /\ UNCHANGED <<waiters, timers>>
     ELSE /\ tokens' = Refilled /\ waiters' = Append(waiters, c) /\ timers' = ScheduleWaiterDrain(timers)
          /\ Move(c, "waiting")

(* the waiters a drain serves, and what is left after it *)
Served == Least(Len(waiters), Refilled \div TokenTicks)

Drained(left) ==
  /\ tokens' = Refilled - Served * TokenTicks /\ age' = 0
  /\ call' = [c \in Calls |-> IF \E i \in 1..Served : waiters[i] = c
                              THEN [call[c] EXCEPT !.stage = "requesting"] ELSE call[c]]
  /\ waiters' = SubSeq(waiters, Served + 1, Len(waiters))

(* a slip: the timer is not set again for those who still wait *)
DrainOnce ==
  \E left \in {0, 1} :
    /\ timers[left] > 0 /\ Drained(left) /\ timers' = [timers EXCEPT ![left] = @ - 1]

DrainWaiters ==
  \E left \in {0, 1} :
    /\ timers[left] > 0 /\ Drained(left)
    /\ LET fired == [timers EXCEPT ![left] = @ - 1]
       IN timers' = IF waiters' = <<>> THEN fired ELSE ScheduleWaiterDrain(fired)

(* an answer: an error or the last page ends the call, another page needs a token *)
Answer(c) ==
  /\ call[c].stage = "requesting"
  /\ \/ Move(c, "returned")
     \/ /\ call[c].method = "list" /\ call[c].pages + 1 < MaxPages
        /\ call' = [call EXCEPT ![c].stage = "new", ![c].pages = @ + 1]
  /\ UNCHANGED <<tokens, age, waiters, timers>>

Tick ==
  /\ \/ age < Full \/ \E left \in 1..TokenTicks : timers[left] > 0
  /\ age' = Least(Full, age + 1)
  /\ timers' = [left \in 0..TokenTicks |->
       (IF left < TokenTicks THEN timers[left + 1] ELSE 0) + (IF left = 0 THEN timers[0] ELSE 0)]
  /\ UNCHANGED <<tokens, waiters, call>>

Next == DrainWaiters \/ Tick \/ \E c \in Calls : Acquire(c) \/ Answer(c)

(* timers fire, time goes on, code that can run does, and requests are answered *)
Fairness ==
  /\ WF_clientVars(DrainWaiters) /\ WF_clientVars(Tick)
  /\ \A c \in Calls : WF_clientVars(Acquire(c)) /\ WF_clientVars(Answer(c))

Spec == Init /\ [][Next]_clientVars /\ Fairness
-----------------------------------------------------------------------------
(* Every call gets its token in the end and returns: a drain that comes too early *)
(* or finds too little sets the timer again.                                      *)
EveryCallIsServed == <>(\A c \in Calls : call[c].stage = "returned")
=============================================================================
