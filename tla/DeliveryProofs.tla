--------------------------- MODULE DeliveryProofs ---------------------------
(***************************************************************************)
(* Local delivery, for any number of tasks, runs, crashes and version      *)
(* conflicts.  First the quality gate: no late check of an earlier run     *)
(* passes the run that waits.  Then the clone: however the finalizers of   *)
(* several tasks overlap, what a task's status says of its work is true of *)
(* the clone; and the same of the behaviours of MCDelivery, which    *)
(* are about one kind of delivery at a time.                               *)
(*                                                                         *)
(* Then the restacks, for any graph and any number of operations, moves of *)
(* the ancestor and restarts: the one that completes has brought the new   *)
(* head of the ancestor into every branch that can be reached.             *)
(***************************************************************************)
EXTENDS MCDelivery, TLAPS

AtGate == {"completed", "quality-pending"}

GateStages == {"get", "start", "startMissing", "missing", "config", "run"}
IsGate(g) == g \in [task : Tasks, run : Nat, stage : GateStages, aborted : BOOLEAN]

(* the run that is checked still waits *)
Waits(g) == status[g.task] \in AtGate /\ g.run = attempts[g.task]

(* the event that aborts the check is the next one to be consumed *)
Leaving(t) ==
  gateEvents # << >> /\ Head(gateEvents).task = t /\ Head(gateEvents).to # "completed"

(* A check that has looked at its task, and is not aborted, is one of the  *)
(* run that waits, or is about to be aborted.                              *)
Watched(g) == g.aborted \/ g.stage = "get" \/ Waits(g) \/ Leaving(g.task)

IInv ==
  /\ status = [t \in Tasks |-> status[t]]
  /\ attempts \in [Tasks -> Nat]
  /\ \/ gateEvents = << >>
     \/ gateEvents = <<Head(gateEvents)>> /\ Head(gateEvents).task \in Tasks
  /\ gates # {} => gateSub # "off"
  /\ \A g \in gates : IsGate(g) /\ Watched(g)

LEMMA GateInit == L!Init => IInv
  BY DEF L!Init, L!InitWith, IInv

LEMMA GateFields ==
  ASSUME NEW g, IsGate(g), NEW stage \in GateStages
  PROVE  LET h == [g EXCEPT !.stage = stage]
             x == [g EXCEPT !.aborted = TRUE]
         IN  /\ IsGate(h) /\ h.task = g.task /\ h.run = g.run /\ h.stage = stage
             /\ h.aborted = g.aborted
             /\ IsGate(x) /\ x.task = g.task /\ x.run = g.run /\ x.stage = g.stage
             /\ x.aborted = TRUE
  BY DEF IsGate

LEMMA NewGateFields ==
  ASSUME IInv, NEW t \in Tasks
  PROVE  IsGate(L!NewGate(t)) /\ L!NewGate(t).stage = "get"
  BY DEF IInv, IsGate, L!NewGate, GateStages

(* a transition of t, as the gate service sees it *)
Becomes(t, to) ==
  LET event == [task |-> t, from |-> status[t], to |-> to]
  IN  /\ status' = [status EXCEPT ![t] = to]
      /\ gateEvents' = L!Told(gateSub, gateEvents, event,
                            event.to = "completed" \/ L!LeavesGate(event))

LEMMA TransitBecomes ==
  ASSUME NEW t, NEW kind, NEW passed, L!Transit(t, kind, passed)
  PROVE  Becomes(t, L!Target([executionStatus |-> status[t], artifacts |-> {}],
                           [kind |-> kind, passed |-> passed]))
  BY DEF L!Transit, Becomes

(* The event of a transition away from the gate is the next one, as the    *)
(* queue is empty when the transition is made.                             *)
LEMMA TransitionIsHeard ==
  ASSUME IInv, gateEvents = << >>, NEW t \in Tasks, NEW to, Becomes(t, to),
         \/ attempts' = attempts
         \/ status[t] \notin AtGate /\ attempts' = [attempts EXCEPT ![t] = @ + 1],
         NEW g \in gates
  PROVE  Watched(g)'
  <1> DEFINE event == [task |-> t, from |-> status[t], to |-> to]
  <1>0. /\ event.task = t /\ event.from = status[t] /\ event.to = to
        /\ status' = [status EXCEPT ![t] = to]
        /\ gateEvents' = L!Told(gateSub, gateEvents, event,
                              event.to = "completed" \/ L!LeavesGate(event))
        /\ gateSub # "off" /\ Watched(g)
    BY DEF Becomes, IInv
  <1> HIDE DEF event
  <1>1. CASE g.aborted \/ g.stage = "get"
    BY <1>1 DEF Watched
  <1>2. CASE ~g.aborted /\ g.stage # "get"
    <2>1. status[g.task] \in AtGate /\ g.run = attempts[g.task]
      BY <1>0, <1>2 DEF Watched, Leaving, Waits
    <2>2. CASE g.task # t
      <3>1. status'[g.task] = status[g.task] /\ attempts'[g.task] = attempts[g.task]
        BY <1>0, <2>2 DEF IInv, IsGate
      <3>2. QED
        BY <2>1, <3>1 DEF Watched, Waits
    <2>3. CASE g.task = t /\ to \in AtGate
      <3>1. status'[t] = to /\ attempts' = attempts
        BY <1>0, <2>1, <2>3 DEF IInv
      <3>2. QED
        BY <2>1, <2>3, <3>1 DEF Watched, Waits
    <2>4. CASE g.task = t /\ to \notin AtGate
      <3>1. L!LeavesGate(event)
        BY <1>0, <2>1, <2>4 DEF L!LeavesGate, AtGate
      <3>2. gateEvents' = Append(gateEvents, event)
        BY <1>0, <3>1 DEF L!Told
      <3>3. gateEvents' # << >> /\ Head(gateEvents') = event
        BY <3>2
      <3>4. to # "completed"
        BY <2>4 DEF AtGate
      <3>5. QED
        BY <1>0, <2>4, <3>3, <3>4 DEF Watched, Leaving
    <2>5. QED
      BY <2>2, <2>3, <2>4
  <1>3. QED
    BY <1>1, <1>2

(* whether a run is watched does not depend on how far its check is *)
LEMMA WatchedMoves ==
  ASSUME NEW g, NEW h, Watched(g)', g.stage # "get",
         h.task = g.task, h.run = g.run, h.aborted = g.aborted
  PROVE  Watched(h)'
  BY DEF Watched, Waits

Settled ==
  gateEvents = << >> /\ \A g \in gates : g.stage # "get"

(* of a callback: it makes at most one transition, of one task, and moves  *)
(* or ends the checks there are                                            *)
Quietly == UNCHANGED <<status, gateEvents, attempts>>

Acts(t) ==
  \E to : /\ Becomes(t, to)
          /\ \/ attempts' = attempts
             \/ status[t] \notin AtGate /\ attempts' = [attempts EXCEPT ![t] = @ + 1]

ChecksMove ==
  /\ gateSub' = gateSub
  /\ \A h \in gates' : /\ IsGate(h)
                       /\ \E g \in gates : /\ h.task = g.task /\ h.run = g.run
                                           /\ h.aborted = g.aborted

LEMMA CallbackKeepsIt ==
  ASSUME IInv, Settled, NEW t \in Tasks, Quietly \/ Acts(t), ChecksMove
  PROVE  IInv'
  <1>1. /\ status' = [u \in Tasks |-> status'[u]]
        /\ attempts' \in [Tasks -> Nat]
    <2>1. CASE Quietly
      BY <2>1 DEF Quietly, IInv
    <2>2. CASE Acts(t)
      <3>1. PICK to : status' = [status EXCEPT ![t] = to]
        BY <2>2 DEF Acts, Becomes
      <3>2. status' = [u \in Tasks |-> status'[u]]
        BY <3>1 DEF IInv
      <3>3. attempts' = attempts \/ attempts' = [attempts EXCEPT ![t] = @ + 1]
        BY <2>2 DEF Acts
      <3>4. attempts' \in [Tasks -> Nat]
        BY <3>3 DEF IInv
      <3>5. QED
        BY <3>2, <3>4
    <2>3. QED
      BY <2>1, <2>2
  <1>6. gateEvents' = << >> \/ \E e : gateEvents' = <<e>> /\ e.task \in Tasks
    <2>1. CASE Quietly
      BY <2>1 DEF Quietly, Settled
    <2>2. CASE Acts(t)
      <3>1. PICK to : Becomes(t, to)
        BY <2>2 DEF Acts
      <3>2. gateEvents' = << >> \/ gateEvents' = Append(<< >>, [task |-> t, from |-> status[t], to |-> to])
        BY <3>1 DEF Becomes, L!Told, Settled
      <3>3. QED
        BY <3>2
    <2>3. QED
      BY <2>1, <2>2
  <1>2. gates' # {} => gateSub' # "off"
    BY DEF ChecksMove, IInv
  <1>3. \A g \in gates : Watched(g)'
    <2>1. CASE Quietly
      BY <2>1 DEF Quietly, IInv, Watched, Waits, Leaving
    <2>2. CASE Acts(t)
      BY <2>2, TransitionIsHeard DEF Acts, Settled
    <2>3. QED
      BY <2>1, <2>2
  <1>4. \A h \in gates' : IsGate(h) /\ Watched(h)'
    BY <1>3, WatchedMoves DEF ChecksMove, Settled
  <1>7. (gateEvents = << >> \/ (gateEvents = <<Head(gateEvents)>> /\ Head(gateEvents).task \in Tasks))'
    BY <1>6
  <1>8. QED
    BY <1>1, <1>2, <1>4, <1>7 DEF IInv, IsGate

LEMMA SameChecksMove ==
  ASSUME IInv, UNCHANGED <<gateSub, gates>> PROVE ChecksMove
  BY DEF IInv, ChecksMove

(* a command of a service *)
LEMMA CommandActs ==
  ASSUME NEW t, NEW kind, NEW passed, L!Command(t, kind, passed), attempts' = attempts
  PROVE  Quietly \/ Acts(t)
  <1>1. CASE L!Untold
    BY <1>1 DEF L!Untold, Quietly
  <1>2. CASE L!Transit(t, kind, passed)
    BY <1>2, TransitBecomes DEF Acts
  <1>3. QED
    BY <1>1, <1>2 DEF L!Command

(* where a transition leads to the finalizer *)
Commanded == {"complete-runtime", "mark-running", "cancel-task", "start-quality-gate",
              "complete-quality-gate", "complete-without-pr", "merge-conflict"}

LEMMA OnlyPassesFinalize ==
  ASSUME NEW s, NEW kind \in Commanded, NEW passed \in BOOLEAN,
         L!Target([executionStatus |-> s, artifacts |-> {}],
                [kind |-> kind, passed |-> passed]) = "finalizing"
  PROVE  kind = "complete-quality-gate" /\ passed
  BY DEF L!Target, Commanded

Passes(t) == status[t] = "quality-pending" /\ status'[t] = "finalizing"

LEMMA TransitPasses ==
  ASSUME IInv, NEW t \in Tasks, NEW kind \in Commanded, NEW passed \in BOOLEAN,
         L!Transit(t, kind, passed) \/ status' = status,
         NEW u \in Tasks, Passes(u)
  PROVE  u = t /\ kind = "complete-quality-gate" /\ passed
  <1>1. L!Transit(t, kind, passed)
    BY DEF Passes
  <1>2. status' = [status EXCEPT ![t] =
                     L!Target([executionStatus |-> status[t], artifacts |-> {}],
                            [kind |-> kind, passed |-> passed])]
    BY <1>1 DEF L!Transit
  <1>3. u = t
    BY <1>2 DEF Passes, IInv
  <1>4. L!Target([executionStatus |-> status[t], artifacts |-> {}],
               [kind |-> kind, passed |-> passed]) = "finalizing"
    BY <1>2, <1>3 DEF Passes, IInv
  <1>5. QED
    BY <1>3, <1>4, OnlyPassesFinalize

LEMMA CommandPasses ==
  ASSUME IInv, NEW t \in Tasks, NEW kind \in Commanded, NEW passed \in BOOLEAN,
         L!Command(t, kind, passed), NEW u \in Tasks, Passes(u)
  PROVE  u = t /\ kind = "complete-quality-gate" /\ passed
  BY TransitPasses DEF L!Command, L!Untold

(* the checks' own steps *)
OwnPass ==
  \A t \in Tasks :
    Passes(t) => \E g \in gates \ gates' : g.task = t /\ g.run = attempts[t]

Good == IInv' /\ OwnPass

LEMMA JudgeKeepsIt ==
  ASSUME IInv, Settled, NEW g \in gates, g.task \in Tasks, NEW passed \in BOOLEAN,
         L!Judge(g, passed), UNCHANGED <<attempts, gateSub>>,
         passed => ~g.aborted
  PROVE  Good
  <1>1. gates' = gates \ {g} /\ L!Command(g.task, "complete-quality-gate", passed)
    BY DEF L!Judge, L!GateEnds
  <1>2. ChecksMove
    BY <1>1 DEF ChecksMove, IInv
  <1>3. IInv'
    BY <1>1, <1>2, CommandActs, CallbackKeepsIt
  <1>4. ASSUME NEW t \in Tasks, Passes(t)
        PROVE  \E h \in gates \ gates' : h.task = t /\ h.run = attempts[t]
    <2>1. t = g.task /\ passed
      BY <1>1, <1>4, CommandPasses DEF Commanded
    <2>2. Waits(g)
      BY <2>1 DEF IInv, Settled, Watched, Leaving
    <2>3. QED
      BY <1>1, <2>1, <2>2 DEF Waits
  <1>5. QED
    BY <1>3, <1>4 DEF Good, OwnPass

LEMMA NothingPasses ==
  ASSUME status' = status \/ \A t \in Tasks : ~Passes(t)
  PROVE  OwnPass
  BY DEF OwnPass, Passes

LEMMA GateStepKeepsIt ==
  ASSUME IInv, Settled, NEW g \in gates, L!GateStep(g)
  PROVE  Good
  <1>1. g.task \in Tasks /\ IsGate(g) /\ g.aborted \in BOOLEAN
    BY DEF IInv, IsGate
  <1>2. attempts' = attempts /\ gateSub' = gateSub
    BY DEF L!GateStep, L!GateStart, L!GateMissing, L!GateConfig, L!GateRun
  <1>3. ASSUME NEW stage \in GateStages, L!GateMoves(g, stage) PROVE ChecksMove
    <2>1. ASSUME NEW h \in gates'
          PROVE  IsGate(h) /\ \E k \in gates : /\ h.task = k.task /\ h.run = k.run
                                               /\ h.aborted = k.aborted
      <3>1. CASE h \in gates
        BY <3>1 DEF IInv
      <3>2. CASE h \notin gates
        <4>1. h = [g EXCEPT !.stage = stage]
          BY <1>3, <3>2 DEF L!GateMoves
        <4>2. IsGate(h) /\ h.task = g.task /\ h.run = g.run /\ h.aborted = g.aborted
          BY <1>1, <1>3, <4>1 DEF IsGate
        <4>3. QED
          BY <4>2
      <3>3. QED
        BY <3>1, <3>2
    <2>2. QED
      BY <1>2, <2>1 DEF ChecksMove
  <1>4. ASSUME L!GateEnds(g) PROVE ChecksMove
    BY <1>2, <1>4 DEF L!GateEnds, ChecksMove, IInv
  <1>5. ASSUME L!Quiet, ChecksMove PROVE Good
    <2>1. Quietly /\ status' = status
      BY <1>2, <1>5 DEF L!Quiet, L!Untold, Quietly
    <2>2. QED
      BY <1>1, <1>5, <2>1, CallbackKeepsIt, NothingPasses DEF Good
  <1>6. CASE L!GateStart(g)
    <2>1. L!Command(g.task, "start-quality-gate", FALSE) /\ ChecksMove
      BY <1>3, <1>4, <1>6 DEF L!GateStart, GateStages
    <2>2. \A t \in Tasks : ~Passes(t)
      BY <1>1, <2>1, CommandPasses DEF Commanded
    <2>3. QED
      BY <1>1, <1>2, <2>1, <2>2, CommandActs, CallbackKeepsIt, NothingPasses DEF Good
  <1>7. CASE L!GateMissing(g)
    BY <1>1, <1>2, <1>7, JudgeKeepsIt DEF L!GateMissing
  <1>8. CASE L!GateConfig(g)
    <2>1. CASE L!Judge(g, FALSE)
      BY <1>1, <1>2, <2>1, JudgeKeepsIt
    <2>2. CASE ~g.aborted /\ L!Judge(g, TRUE)
      BY <1>1, <1>2, <2>2, JudgeKeepsIt
    <2>3. CASE L!GateMoves(g, "run") /\ L!Quiet
      BY <1>3, <1>5, <2>3 DEF GateStages
    <2>4. CASE L!GateEnds(g) /\ L!Quiet
      BY <1>4, <1>5, <2>4
    <2>5. QED
      BY <1>8, <2>1, <2>2, <2>3, <2>4 DEF L!GateConfig
  <1>9. CASE L!GateRun(g)
    <2>1. CASE L!Judge(g, FALSE)
      BY <1>1, <1>2, <2>1, JudgeKeepsIt
    <2>2. CASE ~g.aborted /\ L!Judge(g, TRUE)
      BY <1>1, <1>2, <2>2, JudgeKeepsIt
    <2>3. CASE L!GateEnds(g) /\ L!Quiet
      BY <1>4, <1>5, <2>3
    <2>4. QED
      BY <1>9, <2>1, <2>2, <2>3 DEF L!GateRun
  <1>10. QED
    BY <1>6, <1>7, <1>8, <1>9 DEF L!GateStep

(* what an agent, an operator, a scan or a finalizer does *)
LEMMA OtherTransitKeepsIt ==
  ASSUME IInv, Settled, NEW t \in Tasks, NEW kind \in Commanded, L!Transit(t, kind, FALSE),
         UNCHANGED <<gateSub, gates>>,
         \/ attempts' = attempts
         \/ status[t] \notin AtGate /\ attempts' = [attempts EXCEPT ![t] = @ + 1]
  PROVE  Good
  <1>1. Acts(t)
    BY TransitBecomes DEF Acts
  <1>2. \A u \in Tasks : ~Passes(u)
    BY TransitPasses
  <1>3. QED
    BY <1>1, <1>2, SameChecksMove, CallbackKeepsIt, NothingPasses DEF Good

LEMMA GateUntouched ==
  ASSUME IInv, UNCHANGED <<status, attempts, gateSub, gateEvents, gates>>
  PROVE  Good
  BY NothingPasses DEF Good, IInv, IsGate, Watched, Waits, Leaving

LEMMA TaskStepKeepsIt ==
  ASSUME IInv, Settled, NEW t \in Tasks,
         L!AgentCompletes(t) \/ L!Retry(t) \/ L!Cancel(t) \/ L!ProbeGate(t) \/ L!FinalStep(t)
  PROVE  Good
  <1>1. CASE L!AgentCompletes(t)
    BY <1>1, OtherTransitKeepsIt DEF L!AgentCompletes, Commanded
  <1>2. CASE L!Retry(t)
    <2>1. /\ L!Transit(t, "mark-running", FALSE) /\ UNCHANGED <<gateSub, gates>>
          /\ status[t] \notin AtGate /\ attempts' = [attempts EXCEPT ![t] = @ + 1]
      BY <1>2 DEF L!Retry, AtGate
    <2>2. QED
      BY <2>1, OtherTransitKeepsIt DEF Commanded
  <1>3. CASE L!Cancel(t)
    BY <1>3, OtherTransitKeepsIt DEF L!Cancel, Commanded
  <1>4. CASE L!ProbeGate(t)
    BY <1>4, OtherTransitKeepsIt DEF L!ProbeGate, Commanded
  <1>5. CASE L!Settle(t)
    <2>1. /\ UNCHANGED <<attempts, gateSub, gates>>
          /\ \/ L!Command(t, "complete-without-pr", FALSE)
             \/ L!Command(t, "merge-conflict", FALSE)
      BY <1>5 DEF L!Settle
    <2>2. Quietly \/ Acts(t)
      BY <2>1, CommandActs
    <2>3. \A u \in Tasks : ~Passes(u)
      BY <2>1, CommandPasses DEF Commanded
    <2>4. QED
      BY <2>1, <2>2, <2>3, SameChecksMove, CallbackKeepsIt, NothingPasses DEF Good
  <1>6. CASE \/ L!Compare(t) \/ L!ResolveBase(t) \/ L!FastForward(t) \/ L!MergeNoFf(t)
             \/ L!MergeEnds(t) \/ L!AbortMerge(t) \/ L!ResetBase(t)
    <2>1. L!Elsewhere
      BY <1>6 DEF L!Compare, L!ResolveBase, L!FastForward, L!MergeNoFf, L!MergeEnds, L!AbortMerge, L!ResetBase
    <2>2. QED
      BY <2>1, GateUntouched DEF L!Elsewhere, L!tasksVars, L!gateVars
  <1>7. QED
    BY <1>1, <1>2, <1>3, <1>4, <1>5, <1>6 DEF L!FinalStep
-----------------------------------------------------------------------------
(* The microtasks: new checks have yet to look at their tasks, and a check *)
(* whose run leaves the gate is aborted by the event of it.                *)
LEMMA SpawnKeepsIt ==
  ASSUME IInv, NEW ts \in SUBSET Tasks, L!SpawnGates(ts)
  PROVE  \A h \in gates' : h \in gates \/ (IsGate(h) /\ h.stage = "get")
  <1> SUFFICES ASSUME NEW h \in gates', h \notin gates
               PROVE  IsGate(h) /\ h.stage = "get"
    OBVIOUS
  <1>1. PICK t \in ts : h = L!NewGate(t)
    BY DEF L!SpawnGates
  <1>2. QED
    BY <1>1, NewGateFields

LEMMA GateAttachedKeepsIt == ASSUME IInv, L!GateAttached PROVE Good
  <1>1. UNCHANGED <<status, attempts, gateEvents>> /\ gateSub' = "on"
    BY DEF L!GateAttached, L!tasksVars
  <1>2. \A h \in gates' : IsGate(h) /\ Watched(h)'
    BY <1>1, SpawnKeepsIt DEF L!GateAttached, IInv, Watched, Waits, Leaving
  <1>3. QED
    BY <1>1, <1>2, NothingPasses DEF Good, IInv, IsGate

LEMMA GateConsumeKeepsIt == ASSUME IInv, L!GateConsume PROVE Good
  <1> DEFINE event == Head(gateEvents)
  <1>1. /\ UNCHANGED <<status, attempts, gateSub>> /\ gateSub = "on"
        /\ gateEvents # << >> /\ gateEvents' = Tail(gateEvents)
    BY DEF L!GateConsume, L!tasksVars
  <1>2. gateEvents = <<event>> /\ event.task \in Tasks
    BY <1>1 DEF IInv
  <1>3. gateEvents' = << >>
    <2>1. \A e : Tail(<<e>>) = << >>
      OBVIOUS
    <2>2. QED
      BY <1>1, <1>2, <2>1
  <1>4. CASE event.to = "completed"
    <2>1. L!SpawnGates({event.task})
      BY <1>4 DEF L!GateConsume
    <2>2. \A h \in gates' : IsGate(h) /\ Watched(h)'
      BY <1>1, <1>2, <1>4, <2>1, SpawnKeepsIt DEF IInv, Watched, Waits, Leaving
    <2>3. QED
      BY <1>1, <1>3, <2>2, NothingPasses DEF Good, IInv, IsGate
  <1>5. CASE event.to # "completed"
    <2>1. gates' = {L!AbortedGate(g, event.task) : g \in gates}
      BY <1>5 DEF L!GateConsume
    <2>2. ASSUME NEW h \in gates' PROVE IsGate(h) /\ Watched(h)'
      <3>0. PICK g \in gates : h = L!AbortedGate(g, event.task)
        BY <2>1
      <3>1. IsGate(g) /\ Watched(g)
        BY DEF IInv
      <3>2. CASE g.task = event.task
        <4>1. h = [g EXCEPT !.aborted = TRUE]
          BY <3>0, <3>2 DEF L!AbortedGate
        <4>2. g.stage \in GateStages
          BY <3>1 DEF IsGate
        <4>3. QED
          BY <3>1, <4>1, <4>2, GateFields DEF Watched
      <3>3. CASE g.task # event.task
        <4>1. h = g
          BY <3>0, <3>3 DEF L!AbortedGate
        <4>2. Watched(g)'
          BY <1>1, <3>1, <3>3 DEF Watched, Waits, Leaving
        <4>3. QED
          BY <3>1, <4>1, <4>2
      <3>4. QED
        BY <3>2, <3>3
    <2>3. \A h \in gates' : IsGate(h) /\ Watched(h)'
      BY <2>1, <2>2
    <2>4. gates' # {} => gates # {}
      BY <2>1
    <2>5. QED
      BY <1>1, <1>3, <2>3, <2>4, NothingPasses DEF Good, IInv, IsGate
  <1>6. QED
    BY <1>4, <1>5

LEMMA GateGetKeepsIt == ASSUME IInv, NEW g \in gates, L!GateGet(g) PROVE Good
  <1>1. UNCHANGED <<status, attempts, gateSub, gateEvents>>
    BY DEF L!GateGet, L!tasksVars
  <1>2. IsGate(g) /\ attempts \in [Tasks -> Nat] /\ g.task \in Tasks
    BY DEF IInv, IsGate
  <1>3. \A h \in gates : IsGate(h) /\ Watched(h)'
    BY <1>1 DEF IInv, Watched, Waits, Leaving
  <1>4. CASE status[g.task] # "completed"
    <2>1. gates' = gates \ {g}
      BY <1>4 DEF L!GateGet, L!GateEnds
    <2>2. QED
      BY <1>1, <1>3, <2>1, NothingPasses DEF Good, IInv, IsGate
  <1>5. CASE status[g.task] = "completed"
    <2>1. PICK stage \in {"start", "startMissing"} :
            gates' = (gates \ {g}) \cup
                       {[g EXCEPT !.run = attempts[g.task], !.stage = stage]}
      BY <1>5 DEF L!GateGet
    <2>2. ASSUME NEW h \in gates' PROVE IsGate(h) /\ Watched(h)'
      <3>1. CASE h \in gates
        BY <1>3, <3>1
      <3>2. CASE h \notin gates
        <4>1. h = [g EXCEPT !.run = attempts[g.task], !.stage = stage]
          BY <2>1, <3>2
        <4>2. h = [task |-> g.task, run |-> attempts[g.task], stage |-> stage,
                   aborted |-> g.aborted]
          BY <1>2, <4>1 DEF IsGate
        <4>3. IsGate(h) /\ h.task = g.task /\ h.run = attempts[g.task]
          BY <1>2, <4>2 DEF IsGate, GateStages
        <4>4. QED
          BY <1>1, <1>5, <4>3 DEF Watched, Waits, AtGate
      <3>3. QED
        BY <3>1, <3>2
    <2>3. QED
      BY <1>1, <2>2, NothingPasses DEF Good, IInv, IsGate
  <1>6. QED
    BY <1>4, <1>5

LEMMA RestartKeepsIt == ASSUME IInv, L!Restart PROVE Good
  BY NothingPasses DEF L!Restart, L!tasksVars, Good, IInv

LEMMA StepIsGood == ASSUME IInv, [L!Next]_L!vars PROVE Good
  <1> SUFFICES ASSUME IInv, [L!Next]_L!vars PROVE Good
    OBVIOUS
  <1>1. CASE L!FinalAttached \/ L!FinalConsume
    BY <1>1, GateUntouched DEF L!FinalAttached, L!FinalConsume, L!tasksVars, L!gateVars
  <1>2. CASE L!Microtasks
    BY <1>1, <1>2, GateAttachedKeepsIt, GateConsumeKeepsIt, GateGetKeepsIt DEF L!Microtasks
  <1>3. CASE L!MicrotasksAreDone /\ L!Callbacks
    <2>1. Settled
      BY <1>3 DEF L!MicrotasksAreDone, Settled
    <2>2. CASE \E h \in Branches : L!Checkout(h)
      BY <2>2, GateUntouched DEF L!Checkout, L!tasksVars, L!gateVars
    <2>3. QED
      BY <1>3, <2>1, <2>2, TaskStepKeepsIt, GateStepKeepsIt DEF L!Callbacks
  <1>4. CASE UNCHANGED L!vars
    BY <1>4, GateUntouched DEF L!vars, L!tasksVars, L!gateVars
  <1>5. QED
    BY <1>2, <1>3, <1>4, RestartKeepsIt DEF L!Next

(* A check is of the run that waits, or aborted before it can judge.       *)
THEOREM ChecksAreWatched == L!Spec => []IInv
  <1>1. IInv /\ [L!Next]_L!vars => IInv'
    BY StepIsGood DEF Good
  <1>2. QED
    BY GateInit, <1>1, PTL DEF L!Spec

(* No pass of a check that was begun for an earlier run, or that recovery  *)
(* has given up, is taken for the pass of the run that waits now: the      *)
(* abort signal of quality-gate-service.ts:231 is enough.                  *)
THEOREM OwnGatePasses == L!Spec => L!OnlyOwnGatePasses
  <1>1. IInv /\ [L!Next]_L!vars =>
          [\A t \in Tasks :
             status[t] = "quality-pending" /\ status'[t] = "finalizing" =>
               \E g \in gates \ gates' : g.task = t /\ g.run = attempts[t]]_L!vars
    BY StepIsGood DEF Good, OwnPass, Passes
  <1>2. QED
    BY <1>1, ChecksAreWatched, PTL DEF L!Spec, L!OnlyOwnGatePasses
-----------------------------------------------------------------------------
Changes == Tasks \X Nat

Finalizer == [stage : L!FinalStages, head : SUBSET Changes]

Early == {"get", "start", "startMissing"}

BaseTypes ==
  /\ branch \in [Tasks -> SUBSET Changes]
  /\ clone \in [Branches -> SUBSET Changes] /\ checkedOut \in Branches
  /\ into \in [Tasks -> Branches \cup {Unset}]
  /\ finals \in [Tasks -> Finalizer \cup {Unset}]

(* A check that has not begun is not aborted, is the only such one of its  *)
(* task, and, once it has looked, the task is as it saw it.                *)
EarlyFit ==
  /\ gateSub = "reading" => gateEvents = << >>
  /\ gateEvents # << >> => /\ \A g \in gates : g.stage # "get"
                           /\ status[Head(gateEvents).task] = Head(gateEvents).to
  /\ \A g \in gates : g.stage \in Early =>
       /\ ~g.aborted /\ (g.stage # "get" => status[g.task] = "completed")
       /\ \A h \in gates : h.stage \in Early /\ h.task = g.task => h = g

(* a finalizer is at work, or about to be told, where its task is finalizing *)
FinalsFit ==
  /\ \A t \in Tasks : finals[t] # Unset => status[t] \in {"finalizing", "cancelled"}
  /\ \/ finalEvents = << >>
     \/ /\ finalEvents = <<Head(finalEvents)>>
        /\ Head(finalEvents).task \in Tasks /\ status[Head(finalEvents).task] = "finalizing"

(* the changes that are in some branch of the clone *)
Based == UNION {clone[h] : h \in Branches}

(* a change is of a run there was, and found in a branch of another task   *)
(* by way of the clone                                                     *)
OwnOrBased(t, x) == x \in Based \/ (x[1] = t /\ x[2] <= attempts[t])

ChangesFit ==
  /\ \A x \in Based : x[2] <= attempts[x[1]]
  /\ \A t \in Tasks : \A x \in branch[t] : OwnOrBased(t, x)

IsBased(t) == status[t] = "merged" \/ L!At(t, "accept")

StatusFits(t) ==
  /\ IsBased(t) => into[t] \in Branches /\ branch[t] \subseteq clone[into[t]]
  /\ <<t, attempts[t]>> \in Based => IsBased(t) \/ status[t] = "cancelled"

BaseFits == ~undone /\ ~dropped => ChangesFit /\ \A t \in Tasks : StatusFits(t)

BaseInv == BaseTypes /\ EarlyFit /\ FinalsFit /\ BaseFits
Inv == IInv /\ BaseInv
-----------------------------------------------------------------------------
LEMMA BaseTells == ASSUME Inv PROVE L!StatusTellsBase
  <1> SUFFICES ASSUME ~undone, ~dropped, NEW t \in Tasks
               PROVE  /\ status[t] = "merged" =>
                           into[t] \in Branches /\ branch[t] \subseteq clone[into[t]]
                      /\ status[t] = "needs-review" =>
                           \A h \in Branches : <<t, attempts[t]>> \notin clone[h]
    BY DEF L!StatusTellsBase
  <1>1. StatusFits(t) /\ (finals[t] # Unset => status[t] \in {"finalizing", "cancelled"})
    BY DEF Inv, BaseInv, BaseFits, FinalsFit
  <1>2. QED
    BY <1>1 DEF StatusFits, IsBased, L!At, Based

-----------------------------------------------------------------------------
(* the git steps of a finalizer *)
GitSteps(t) == \/ L!Compare(t) \/ L!ResolveBase(t) \/ L!FastForward(t) \/ L!MergeNoFf(t)
               \/ L!MergeEnds(t) \/ L!AbortMerge(t) \/ L!ResetBase(t)

LEMMA FinalFields ==
  ASSUME BaseTypes, NEW t \in Tasks, NEW stage \in L!FinalStages, L!At(t, "accept") \/ finals[t] # Unset,
         finals' = [finals EXCEPT ![t].stage = stage]
  PROVE  /\ finals' \in [Tasks -> Finalizer \cup {Unset}]
         /\ finals'[t] # Unset /\ finals'[t].stage = stage
         /\ \A u \in Tasks : u # t => finals'[u] = finals[u]
  <1>1. finals[t] \in Finalizer
    BY DEF BaseTypes, L!At
  <1>2. [finals[t] EXCEPT !.stage = stage] \in Finalizer
        /\ [finals[t] EXCEPT !.stage = stage].stage = stage
    BY <1>1 DEF Finalizer
  <1>3. Unset \notin Finalizer
    BY Assumptions DEF L!LocalDeliveryAssumption, Finalizer, Changes
  <1>4. QED
    BY <1>1, <1>2, <1>3 DEF BaseTypes

LEMMA SameStage ==
  ASSUME BaseFits, UNCHANGED <<status, attempts, branch, clone, into, dropped>>, undone => undone',
         \A u \in Tasks : L!At(u, "accept")' <=> L!At(u, "accept")
  PROVE  BaseFits'
  BY DEF BaseFits, ChangesFit, OwnOrBased, StatusFits, IsBased, Based

LEMMA EarlySame ==
  ASSUME EarlyFit, UNCHANGED <<gateSub, gateEvents, gates, status>> PROVE EarlyFit'
  BY DEF EarlyFit

LEMMA GitStepKeepsIt ==
  ASSUME Inv, NEW t \in Tasks, GitSteps(t)
  PROVE  BaseInv'
  <1>0. /\ UNCHANGED <<status, attempts, branch, dropped, gateSub, gateEvents, gates, finalEvents>>
        /\ finals[t] # Unset
        /\ checkedOut' = checkedOut
        /\ \/ clone' = clone
           \/ clone' = [clone EXCEPT ![checkedOut] = @ \cup branch[t]]
           \/ clone' = [clone EXCEPT ![checkedOut] = finals[t].head]
        /\ into' = into \/ into' = [into EXCEPT ![t] = checkedOut]
    BY DEF GitSteps, L!Compare, L!ResolveBase, L!FastForward, L!MergeNoFf, L!MergeEnds,
           L!AbortMerge, L!ResetBase, L!Elsewhere, L!tasksVars, L!gateVars, L!budget, L!At,
           L!gitVars, L!cloneVars
  <1>1. BaseTypes /\ EarlyFit /\ FinalsFit /\ BaseFits
    BY DEF Inv, BaseInv
  <1>2. /\ clone' \in [Branches -> SUBSET Changes] /\ checkedOut' \in Branches
        /\ into' \in [Tasks -> Branches \cup {Unset}]
    <2>1. finals[t].head \in SUBSET Changes /\ branch[t] \in SUBSET Changes
      BY <1>0, <1>1 DEF BaseTypes, Finalizer
    <2>2. clone' \in [Branches -> SUBSET Changes]
      BY <1>0, <1>1, <2>1 DEF BaseTypes
    <2>3. QED
      BY <1>0, <1>1, <2>2 DEF BaseTypes
  <1>3. ASSUME NEW stage \in L!FinalStages, L!GoTo(t, stage)
        PROVE  /\ finals' \in [Tasks -> Finalizer \cup {Unset}]
               /\ finals'[t] # Unset /\ finals'[t].stage = stage
               /\ \A u \in Tasks : u # t => finals'[u] = finals[u]
    BY <1>0, <1>1, <1>3, FinalFields DEF L!GoTo
  <1>4. ASSUME finals' \in [Tasks -> Finalizer \cup {Unset}],
               \A u \in Tasks : u # t => finals'[u] = finals[u]
        PROVE  BaseTypes' /\ EarlyFit' /\ FinalsFit'
    <2>1. BaseTypes'
      BY <1>0, <1>1, <1>2, <1>4 DEF BaseTypes
    <2>2. EarlyFit'
      BY <1>0, <1>1, EarlySame
    <2>3. \A u \in Tasks : finals'[u] # Unset => finals[u] # Unset
      BY <1>0, <1>4
    <2>4. FinalsFit'
      BY <1>0, <1>1, <2>3 DEF FinalsFit
    <2>5. QED
      BY <2>1, <2>2, <2>4
  <1>5. ASSUME NEW stage \in L!FinalStages \ {"accept"}, L!GoTo(t, stage), ~L!At(t, "accept"),
               UNCHANGED <<clone, into>>, undone => undone'
        PROVE  BaseInv'
    <2>1. \A u \in Tasks : L!At(u, "accept")' <=> L!At(u, "accept")
      BY <1>3, <1>5 DEF L!At
    <2>2. BaseFits'
      BY <1>0, <1>1, <1>5, <2>1, SameStage
    <2>3. QED
      BY <1>3, <1>4, <1>5, <2>2 DEF BaseInv
  <1>6. CASE L!Compare(t)
    BY <1>5, <1>6 DEF L!Compare, L!gitVars, L!cloneVars, L!At, L!FinalStages
  <1>7. CASE L!ResolveBase(t)
    <2>0. PICK head : head = clone[TargetOf[t]]
      OBVIOUS
    <2>1. /\ finals' = [finals EXCEPT ![t] = [stage |-> "ff", head |-> head]]
          /\ UNCHANGED <<clone, into, undone>> /\ ~L!At(t, "accept") /\ TargetOf[t] \in Branches
      BY <1>7, <2>0 DEF L!ResolveBase, L!gitVars, L!cloneVars, L!At
    <2>2. [stage |-> "ff", head |-> head] \in Finalizer
      BY <1>1, <2>0, <2>1 DEF BaseTypes, Finalizer, L!FinalStages
    <2>3. /\ finals' \in [Tasks -> Finalizer \cup {Unset}]
          /\ \A u \in Tasks : u # t => finals'[u] = finals[u]
          /\ finals'[t].stage = "ff"
      BY <1>1, <2>1, <2>2 DEF BaseTypes
    <2>4. \A u \in Tasks : L!At(u, "accept")' <=> L!At(u, "accept")
      BY <2>1, <2>3 DEF L!At
    <2>5. BaseFits'
      BY <1>0, <1>1, <2>1, <2>4, SameStage
    <2>6. QED
      BY <1>4, <2>3, <2>5 DEF BaseInv
  <1>8. CASE L!FastForward(t)
    BY <1>5, <1>8 DEF L!FastForward, L!At, L!FinalStages
  <1>9. CASE L!MergeNoFf(t)
    BY <1>5, <1>9 DEF L!MergeNoFf, L!At, L!FinalStages
  <1>10. CASE L!AbortMerge(t)
    BY <1>5, <1>10 DEF L!AbortMerge, L!At, L!FinalStages
  <1>11. CASE L!MergeEnds(t)
    <2>1. ~L!At(t, "accept") /\ undone' = undone
      BY <1>11 DEF L!MergeEnds, L!At
    <2>2. CASE L!GoTo(t, "abort") /\ UNCHANGED <<clone, into>>
      BY <1>5, <2>1, <2>2 DEF L!FinalStages
    <2>3. CASE /\ L!GoTo(t, "accept")
               /\ clone' = [clone EXCEPT ![checkedOut] = @ \cup branch[t]]
               /\ into' = [into EXCEPT ![t] = checkedOut]
      <3>1. /\ finals' \in [Tasks -> Finalizer \cup {Unset}]
            /\ finals'[t] # Unset /\ finals'[t].stage = "accept"
            /\ \A u \in Tasks : u # t => finals'[u] = finals[u]
        BY <1>3, <2>3 DEF L!FinalStages
      <3>2. L!At(t, "accept")' /\ \A u \in Tasks : u # t => (L!At(u, "accept")' <=> L!At(u, "accept"))
        BY <3>1 DEF L!At
      <3>3. SUFFICES BaseFits'
        BY <1>4, <3>1 DEF BaseInv
      <3>4. SUFFICES ASSUME ~undone, ~dropped
                     PROVE  ChangesFit' /\ \A u \in Tasks : StatusFits(u)'
        BY <1>0, <2>1 DEF BaseFits
      <3>5. ChangesFit /\ \A u \in Tasks : StatusFits(u)
        BY <1>1, <3>4 DEF BaseFits
      <3>6. \A x \in branch[t] : x \in Based \/ (x[1] = t /\ x[2] <= attempts[t])
        BY <3>5 DEF ChangesFit, OwnOrBased
      <3>10. /\ checkedOut \in Branches /\ clone \in [Branches -> SUBSET Changes]
             /\ into \in [Tasks -> Branches \cup {Unset}]
        BY <1>1 DEF BaseTypes
      <3>11. /\ \A h \in Branches : clone[h] \subseteq clone'[h]
             /\ clone'[checkedOut] = clone[checkedOut] \cup branch[t]
             /\ Based' = Based \cup branch[t]
        BY <2>3, <3>10 DEF Based
      <3>12. into'[t] = checkedOut /\ \A u \in Tasks : u # t => into'[u] = into[u]
        BY <2>3, <3>10
      <3>7. ChangesFit'
        BY <1>0, <3>5, <3>6, <3>11 DEF ChangesFit, OwnOrBased
      <3>8. ASSUME NEW u \in Tasks PROVE StatusFits(u)'
        <4>1. CASE u = t
          BY <1>0, <3>2, <3>10, <3>11, <3>12, <4>1 DEF StatusFits, IsBased
        <4>2. CASE u # t
          <5>1. <<u, attempts[u]>> \in Based' => <<u, attempts[u]>> \in Based
            BY <3>6, <3>11, <4>2
          <5>2. IsBased(u)' <=> IsBased(u)
            BY <1>0, <3>2, <4>2 DEF IsBased
          <5>3. IsBased(u) => into'[u] \in Branches /\ branch[u] \subseteq clone'[into'[u]]
            BY <3>5, <3>11, <3>12, <4>2 DEF StatusFits
          <5>4. QED
            BY <1>0, <3>5, <5>1, <5>2, <5>3 DEF StatusFits
        <4>3. QED
          BY <4>1, <4>2
      <3>9. QED
        BY <3>7, <3>8
    <2>4. QED
      BY <1>11, <2>2, <2>3 DEF L!MergeEnds
  <1>12. CASE L!ResetBase(t)
    <2>1. L!GoTo(t, "reject") /\ ~L!At(t, "accept")
      BY <1>12 DEF L!ResetBase, L!At
    <2>2. CASE UNCHANGED <<clone, into>> /\ (undone => undone')
      BY <1>5, <2>1, <2>2 DEF L!FinalStages
    <2>3. CASE undone'
      <3>1. BaseFits'
        BY <2>3 DEF BaseFits
      <3>2. QED
        BY <1>3, <1>4, <2>1, <3>1 DEF BaseInv, L!FinalStages
    <2>4. (UNCHANGED <<clone, into>> /\ (undone => undone')) \/ undone'
      BY <1>12 DEF L!ResetBase
    <2>5. QED
      BY <2>2, <2>3, <2>4
  <1>13. QED
    BY <1>6, <1>7, <1>8, <1>9, <1>10, <1>11, <1>12 DEF GitSteps
-----------------------------------------------------------------------------
(* what a transition of t may bring with it: a commit, or a new run, for   *)
(* which the branch may be rebased                                         *)
Grows(t) ==
  \/ UNCHANGED <<attempts, branch>>
  \/ /\ finals[t] = Unset /\ attempts' = attempts
     /\ branch' = [branch EXCEPT ![t] = @ \cup {<<t, attempts[t]>>}]
  \/ /\ finals[t] = Unset /\ attempts' = [attempts EXCEPT ![t] = @ + 1]
     /\ branch' = branch \/ \E h \in Branches : branch' = [branch EXCEPT ![t] = @ \cup clone[h]]

(* a transition of t, as the finalizers see it *)
Tells(t, to) ==
  /\ status' = [status EXCEPT ![t] = to]
  /\ \/ finalEvents' = << >>
     \/ to = "finalizing" /\ finalEvents' = <<[task |-> t, from |-> status[t], to |-> to]>>

LEMMA TellsFinalizers ==
  ASSUME Inv, NEW t \in Tasks, NEW to, Tells(t, to), finals' = finals,
         finals[t] = Unset \/ to = "cancelled"
  PROVE  FinalsFit'
  <1>1. \A u \in Tasks : status'[u] = IF u = t THEN to ELSE status[u]
    BY DEF Tells, Inv, IInv
  <1>2. \A u \in Tasks : finals[u] # Unset => status'[u] \in {"finalizing", "cancelled"}
    BY <1>1 DEF Inv, BaseInv, FinalsFit
  <1>3. CASE finalEvents' = << >>
    BY <1>2, <1>3 DEF FinalsFit
  <1>4. CASE to = "finalizing" /\ finalEvents' = <<[task |-> t, from |-> status[t], to |-> to]>>
    <2>1. Head(finalEvents') = [task |-> t, from |-> status[t], to |-> to]
      BY <1>4
    <2>2. Head(finalEvents').task = t /\ finalEvents' = <<Head(finalEvents')>>
      BY <1>4, <2>1
    <2>3. QED
      BY <1>1, <1>2, <1>4, <2>2 DEF FinalsFit
  <1>5. QED
    BY <1>3, <1>4 DEF Tells

LEMMA MoveKeepsIt ==
  ASSUME Inv, NEW t \in Tasks, NEW to, Tells(t, to), Grows(t),
         status[t] \notin {"merged", "cancelled"}, to # "merged",
         finals[t] = Unset \/ to = "cancelled",
         UNCHANGED <<clone, checkedOut, into, finals, undone, dropped>>
  PROVE  BaseTypes' /\ FinalsFit' /\ BaseFits'
  <1>0. /\ attempts \in [Tasks -> Nat] /\ branch \in [Tasks -> SUBSET Changes]
        /\ clone \in [Branches -> SUBSET Changes] /\ BaseTypes /\ BaseFits /\ FinalsFit
    BY DEF Inv, IInv, BaseInv, BaseTypes
  <1>1. \A u \in Tasks : status'[u] = IF u = t THEN to ELSE status[u]
    BY DEF Tells, Inv, IInv
  <1>2. /\ attempts' \in [Tasks -> Nat] /\ branch' \in [Tasks -> SUBSET Changes]
        /\ \A u \in Tasks : u # t => attempts'[u] = attempts[u] /\ branch'[u] = branch[u]
    BY <1>0 DEF Grows, Changes
  <1>3. /\ attempts'[t] = attempts[t] \/ attempts'[t] = attempts[t] + 1
        /\ branch'[t] \subseteq branch[t] \cup Based \cup {<<t, attempts[t]>>}
        /\ finals[t] # Unset => attempts' = attempts /\ branch' = branch
    BY <1>0 DEF Grows, Based
  <1>4. BaseTypes'
    BY <1>0, <1>2 DEF BaseTypes
  <1>5. FinalsFit'
    BY TellsFinalizers
  <1>6. ASSUME ~undone, ~dropped PROVE ChangesFit' /\ \A u \in Tasks : StatusFits(u)'
    <2>1. ChangesFit /\ \A u \in Tasks : StatusFits(u)
      BY <1>0, <1>6 DEF BaseFits
    <2>8. Based' = Based
      BY DEF Based
    <2>2. \A x \in Changes : x[1] \in Tasks /\ x[2] \in Nat
      BY DEF Changes
    <2>3. \A x \in Based : x[2] <= attempts'[x[1]]
      <3>1. Based \subseteq Changes
        BY <1>0 DEF Based
      <3>2. ASSUME NEW x \in Based PROVE x[2] <= attempts'[x[1]]
        <4>1. /\ x[1] \in Tasks /\ x[2] \in Nat /\ x[2] <= attempts[x[1]]
              /\ attempts'[x[1]] = attempts[x[1]] \/ attempts'[x[1]] = attempts[x[1]] + 1
          BY <1>2, <1>3, <2>1, <2>2, <3>1 DEF ChangesFit
        <4>2. QED
          BY <1>0, <4>1
      <3>3. QED
        BY <3>2
    <2>4. ASSUME NEW u \in Tasks, NEW x \in branch'[u]
          PROVE  x \in Based \/ (x[1] = u /\ x[2] <= attempts'[u])
      <3>1. CASE u # t
        BY <1>2, <2>1, <2>4, <3>1 DEF ChangesFit, OwnOrBased
      <3>2. CASE u = t
        <4>1. CASE x \in branch[t]
          <5>1. x \in Based \/ (x[1] = t /\ x[2] <= attempts[t])
            BY <2>1, <4>1 DEF ChangesFit, OwnOrBased
          <5>2. x \in Changes
            BY <1>0, <4>1
          <5>3. QED
            BY <1>0, <1>3, <2>2, <3>2, <5>1, <5>2
        <4>2. CASE x \in Based
          BY <4>2
        <4>3. CASE x = <<t, attempts[t]>>
          BY <1>0, <1>3, <3>2, <4>3
        <4>4. QED
          BY <1>3, <2>4, <3>2, <4>1, <4>2, <4>3
      <3>3. QED
        BY <3>1, <3>2
    <2>5. ChangesFit'
      BY <2>3, <2>4, <2>8 DEF ChangesFit, OwnOrBased
    <2>6. ASSUME NEW u \in Tasks PROVE StatusFits(u)'
      <3>1. L!At(u, "accept")' <=> L!At(u, "accept")
        BY DEF L!At
      <3>2. CASE u # t
        BY <1>1, <1>2, <2>1, <2>8, <3>1, <3>2 DEF StatusFits, IsBased
      <3>3. CASE u = t
        <4>1. IsBased(t)' => L!At(t, "accept") /\ finals[t] # Unset
          BY <1>1, <3>1, <3>3 DEF IsBased, L!At
        <4>2. IsBased(t)' => into[t] \in Branches /\ branch'[t] \subseteq clone[into[t]]
          BY <1>3, <2>1, <4>1 DEF StatusFits, IsBased
        <4>3. <<t, attempts'[t]>> \in Based => attempts'[t] = attempts[t]
          BY <1>0, <1>3, <2>1 DEF ChangesFit
        <4>4. <<t, attempts'[t]>> \in Based => L!At(t, "accept")
          BY <2>1, <4>3 DEF StatusFits, IsBased
        <4>5. QED
          BY <2>8, <3>1, <3>3, <4>2, <4>4 DEF StatusFits, IsBased
      <3>4. QED
        BY <3>2, <3>3
    <2>7. QED
      BY <2>5, <2>6
  <1>7. QED
    BY <1>4, <1>5, <1>6 DEF BaseFits

(* the event of it in the gate's queue *)
TellsGate(t, to) ==
  /\ status' = [status EXCEPT ![t] = to]
  /\ gateEvents' = << >> \/ gateEvents' = <<[task |-> t, from |-> status[t], to |-> to]>>

GoesTo(t, kind, passed) ==
  L!Target([executionStatus |-> status[t], artifacts |-> {}], [kind |-> kind, passed |-> passed])

LEMMA TransitTells ==
  ASSUME L!MicrotasksAreDone, NEW t, NEW kind, NEW passed,
         L!Transit(t, kind, passed)
  PROVE  Tells(t, GoesTo(t, kind, passed)) /\ TellsGate(t, GoesTo(t, kind, passed))
  <1> DEFINE to == GoesTo(t, kind, passed)
             event == [task |-> t, from |-> status[t], to |-> to]
  <1>1. /\ status' = [status EXCEPT ![t] = to]
        /\ gateEvents' = L!Told(gateSub, gateEvents, event,
                                event.to = "completed" \/ L!LeavesGate(event))
        /\ finalEvents' = L!Told(finalSub, finalEvents, event, event.to = "finalizing")
    BY DEF L!Transit, GoesTo
  <1>2. event.to = to /\ Append(<< >>, event) = <<event>>
    OBVIOUS
  <1> HIDE DEF to
  <1>3. Tells(t, to)
    BY <1>1, <1>2 DEF Tells, L!Told, L!MicrotasksAreDone
  <1>4. TellsGate(t, to)
    BY <1>1, <1>2 DEF TellsGate, L!Told, L!MicrotasksAreDone
  <1>5. QED
    BY <1>3, <1>4 DEF to

LEMMA EarlyMoves ==
  ASSUME Inv, L!MicrotasksAreDone, gateSub' = gateSub,
         \A h \in gates' : h.stage \in Early => h \in gates,
         \/ UNCHANGED <<status, gateEvents>>
         \/ \E t \in Tasks : \E to :
              TellsGate(t, to) /\ \A h \in gates' : h.stage \in Early => h.task # t
  PROVE  EarlyFit'
  <1>0. /\ gateSub # "reading" /\ gateEvents = << >> /\ EarlyFit
        /\ \A g \in gates : g.stage # "get" /\ g.task \in Tasks
    BY DEF L!MicrotasksAreDone, Inv, IInv, BaseInv, IsGate
  <1>1. \A h \in gates' : h.stage \in Early =>
          /\ h \in gates /\ h.stage # "get" /\ h.task \in Tasks
          /\ ~h.aborted /\ status[h.task] = "completed"
          /\ \A k \in gates' : k.stage \in Early /\ k.task = h.task => k = h
    BY <1>0 DEF EarlyFit
  <1>2. \A h \in gates' : h.stage # "get"
    BY <1>1 DEF Early
  <1>3. CASE UNCHANGED <<status, gateEvents>>
    BY <1>0, <1>1, <1>2, <1>3 DEF EarlyFit
  <1>4. CASE \E t \in Tasks : \E to :
               TellsGate(t, to) /\ \A h \in gates' : h.stage \in Early => h.task # t
    <2>0. PICK t \in Tasks :
            \E to : TellsGate(t, to) /\ \A h \in gates' : h.stage \in Early => h.task # t
      BY <1>4
    <2>1. PICK to :
            TellsGate(t, to) /\ \A h \in gates' : h.stage \in Early => h.task # t
      BY <2>0
    <2>2. \A u \in Tasks : status'[u] = IF u = t THEN to ELSE status[u]
      BY <2>1 DEF TellsGate, Inv, IInv
    <2>3. gateEvents' # << >> => Head(gateEvents').task = t /\ Head(gateEvents').to = to
      <3>1. \A e : Head(<<e>>) = e
        OBVIOUS
      <3>2. QED
        BY <2>1, <3>1 DEF TellsGate
    <2>4. gateEvents' # << >> => status'[Head(gateEvents').task] = Head(gateEvents').to
      BY <2>2, <2>3
    <2>5. \A h \in gates' : h.stage \in Early => status'[h.task] = "completed"
      BY <1>1, <2>1, <2>2
    <2>6. QED
      BY <1>0, <1>1, <1>2, <2>4, <2>5 DEF EarlyFit
  <1>5. QED
    BY <1>3, <1>4

(* a transition that is not a check's *)
LEMMA TaskMoveKeepsIt ==
  ASSUME Inv, L!MicrotasksAreDone, NEW t \in Tasks, NEW kind, NEW passed,
         L!Transit(t, kind, passed), Grows(t),
         status[t] \notin {"merged", "cancelled", "completed"},
         GoesTo(t, kind, passed) # "merged",
         finals[t] = Unset \/ GoesTo(t, kind, passed) = "cancelled",
         UNCHANGED <<clone, checkedOut, into, finals, undone, dropped, gateSub, gates>>
  PROVE  BaseInv'
  <1> DEFINE to == GoesTo(t, kind, passed)
  <1>1. Tells(t, to) /\ TellsGate(t, to)
    BY TransitTells
  <1>2. BaseTypes' /\ FinalsFit' /\ BaseFits'
    BY <1>1, MoveKeepsIt
  <1>3. \A h \in gates : h.stage \in Early => h.task # t
    BY DEF Inv, BaseInv, EarlyFit, L!MicrotasksAreDone
  <1>4. EarlyFit'
    BY <1>1, <1>3, EarlyMoves
  <1>5. QED
    BY <1>2, <1>4 DEF BaseInv

(* where a task of this model can go *)
LEMMA Goes ==
  ASSUME NEW t, NEW passed \in BOOLEAN
  PROVE  /\ GoesTo(t, "complete-runtime", passed) = "completed"
         /\ GoesTo(t, "mark-running", passed) = "running"
         /\ GoesTo(t, "cancel-task", passed) = "cancelled"
         /\ GoesTo(t, "start-quality-gate", passed) = "quality-pending"
         /\ GoesTo(t, "complete-quality-gate", passed) = IF passed THEN "finalizing" ELSE "needs-review"
         /\ GoesTo(t, "complete-without-pr", passed) = "merged"
         /\ GoesTo(t, "merge-conflict", passed) = "needs-review"
  BY DEF GoesTo, L!Target

LEMMA Sources ==
  /\ L!From("complete-runtime") = {"running"}
  /\ L!From("start-quality-gate") = {"completed", "finalizing"}
  /\ L!From("complete-quality-gate") = {"quality-pending"}
  /\ L!From("complete-without-pr") = {"finalizing"}
  /\ L!From("merge-conflict") = {"pr-open", "finalizing", "ci-pending"}
  BY DEF L!From

LEMMA AloneWith ==
  ASSUME Inv, NEW t \in Tasks, status[t] \notin {"finalizing", "cancelled"}
  PROVE  finals[t] = Unset
  BY DEF Inv, BaseInv, FinalsFit

LEMMA OthersKeepIt ==
  ASSUME Inv, L!MicrotasksAreDone, NEW t \in Tasks,
         L!AgentCompletes(t) \/ L!Retry(t) \/ L!Cancel(t) \/ L!ProbeGate(t)
  PROVE  BaseInv'
  <1>1. CASE L!AgentCompletes(t)
    <2>1. /\ status[t] = "running" /\ L!Transit(t, "complete-runtime", FALSE)
          /\ UNCHANGED <<attempts, clone, checkedOut, into, finals, undone, dropped, gateSub, gates>>
          /\ branch' \in {branch, [branch EXCEPT ![t] = @ \cup {<<t, attempts[t]>>}]}
      BY <1>1, Sources DEF L!AgentCompletes, L!Accepts, L!budget, L!cloneVars
    <2>2. finals[t] = Unset
      BY <2>1, AloneWith
    <2>3. Grows(t)
      BY <2>1, <2>2 DEF Grows
    <2>4. QED
      BY <2>1, <2>2, <2>3, Goes, TaskMoveKeepsIt
  <1>2. CASE L!Retry(t)
    <2>1. /\ status[t] = "needs-review" /\ L!Transit(t, "mark-running", FALSE)
          /\ UNCHANGED <<clone, checkedOut, into, finals, undone, dropped, gateSub, gates>>
          /\ attempts' = [attempts EXCEPT ![t] = @ + 1]
          /\ branch' \in {branch} \cup {[branch EXCEPT ![t] = @ \cup clone[h]] : h \in Branches}
      BY <1>2 DEF L!Retry, L!budget, L!cloneVars
    <2>2. finals[t] = Unset
      BY <2>1, AloneWith
    <2>3. Grows(t)
      BY <2>1, <2>2 DEF Grows
    <2>4. QED
      BY <2>1, <2>2, <2>3, Goes, TaskMoveKeepsIt
  <1>3. CASE L!Cancel(t)
    <2>1. /\ status[t] \in {"finalizing", "quality-pending"} /\ L!Transit(t, "cancel-task", FALSE)
          /\ UNCHANGED <<attempts, branch, clone, checkedOut, into, finals, undone, dropped, gateSub,
                         gates>>
      BY <1>3 DEF L!Cancel, L!budget, L!gitVars, L!cloneVars
    <2>2. Grows(t)
      BY <2>1 DEF Grows
    <2>3. QED
      BY <2>1, <2>2, Goes, TaskMoveKeepsIt
  <1>4. CASE L!ProbeGate(t)
    <2>1. /\ status[t] = "quality-pending" /\ L!Transit(t, "complete-quality-gate", FALSE)
          /\ UNCHANGED <<attempts, branch, clone, checkedOut, into, finals, undone, dropped, gateSub,
                         gates>>
      BY <1>4 DEF L!ProbeGate, L!budget, L!gitVars, L!cloneVars
    <2>2. Grows(t) /\ finals[t] = Unset
      BY <2>1, AloneWith DEF Grows
    <2>3. QED
      BY <2>1, <2>2, Goes, TaskMoveKeepsIt
  <1>5. QED
    BY <1>1, <1>2, <1>3, <1>4
-----------------------------------------------------------------------------
(* a step that no finalizer, and no branch, notices *)
LEMMA NoMoveKeepsIt ==
  ASSUME Inv, UNCHANGED <<status, attempts, branch, clone, checkedOut, into, finals, finalEvents, undone>>,
         dropped => dropped'
  PROVE  BaseTypes' /\ FinalsFit' /\ BaseFits'
  <1>1. BaseTypes' /\ FinalsFit'
    BY DEF Inv, BaseInv, BaseTypes, FinalsFit
  <1>2. BaseFits'
    BY DEF Inv, BaseInv, BaseFits, ChangesFit, OwnOrBased, StatusFits, IsBased, Based, L!At
  <1>3. QED
    BY <1>1, <1>2

LEMMA GateCommandKeepsIt ==
  ASSUME Inv, L!MicrotasksAreDone, NEW t \in Tasks, NEW kind, NEW passed,
         L!Command(t, kind, passed),
         L!Accepts(t, kind) => status[t] \in {"completed", "quality-pending"},
         GoesTo(t, kind, passed) # "merged",
         UNCHANGED <<attempts, branch, clone, checkedOut, into, finals, undone, gateSub>>,
         \A h \in gates' : h.stage \in Early => h \in gates /\ h.task # t
  PROVE  BaseInv'
  <1>1. CASE L!Untold /\ (dropped => dropped')
    BY <1>1, NoMoveKeepsIt, EarlyMoves DEF BaseInv, L!Untold
  <1>2. CASE L!Accepts(t, kind) /\ L!Transit(t, kind, passed) /\ dropped' = dropped
    <2>1. Tells(t, GoesTo(t, kind, passed)) /\ TellsGate(t, GoesTo(t, kind, passed))
      BY <1>2, TransitTells
    <2>2. finals[t] = Unset /\ Grows(t)
      BY <1>2, AloneWith DEF Grows
    <2>3. BaseTypes' /\ FinalsFit' /\ BaseFits'
      BY <1>2, <2>1, <2>2, MoveKeepsIt
    <2>4. EarlyFit'
      BY <2>1, EarlyMoves
    <2>5. QED
      BY <2>3, <2>4 DEF BaseInv
  <1>3. QED
    BY <1>1, <1>2 DEF L!Command

LEMMA GateStepKeepsBase ==
  ASSUME Inv, L!MicrotasksAreDone, NEW g \in gates, L!GateStep(g)
  PROVE  BaseInv'
  <1>0. /\ g.task \in Tasks /\ IsGate(g) /\ EarlyFit
        /\ UNCHANGED <<attempts, branch, clone, checkedOut, into, finals, undone, gateSub>>
    BY DEF Inv, IInv, BaseInv, IsGate, L!GateStep, L!GateStart, L!GateMissing, L!GateConfig,
           L!GateRun, L!gitVars, L!cloneVars
  <1>1. ASSUME L!GateEnds(g), NEW h \in gates', h.stage \in Early
        PROVE  h \in gates /\ h # g
    BY <1>1 DEF L!GateEnds
  <1>2. ASSUME NEW stage \in GateStages \ Early, L!GateMoves(g, stage),
               NEW h \in gates', h.stage \in Early
        PROVE  h \in gates /\ h # g
    <2>1. [g EXCEPT !.stage = stage].stage = stage
      BY <1>0 DEF IsGate
    <2>2. QED
      BY <1>2, <2>1 DEF L!GateMoves
  <1>3. ASSUME NEW passed \in BOOLEAN, L!Judge(g, passed), g.stage \notin Early PROVE BaseInv'
    <2>1. L!Command(g.task, "complete-quality-gate", passed) /\ L!GateEnds(g)
      BY <1>3 DEF L!Judge
    <2>2. CASE status[g.task] = "quality-pending"
      <3>1. \A h \in gates' : h.stage \in Early => h \in gates /\ h.task # g.task
        BY <1>0, <1>1, <2>1, <2>2 DEF EarlyFit, L!MicrotasksAreDone
      <3>2. GoesTo(g.task, "complete-quality-gate", passed) # "merged"
        BY Goes
      <3>3. QED
        BY <1>0, <2>1, <2>2, <3>1, <3>2, GateCommandKeepsIt
    <2>3. CASE status[g.task] # "quality-pending"
      <3>1. L!Untold /\ dropped' = dropped
        BY <2>1, <2>3, Sources DEF L!Command, L!Accepts
      <3>2. \A h \in gates' : h.stage \in Early => h \in gates
        BY <1>1, <2>1
      <3>3. QED
        BY <1>0, <3>1, <3>2, NoMoveKeepsIt, EarlyMoves DEF BaseInv, L!Untold
    <2>4. QED
      BY <2>2, <2>3
  <1>4. ASSUME L!Quiet, \A h \in gates' : h.stage \in Early => h \in gates PROVE BaseInv'
    BY <1>0, <1>4, NoMoveKeepsIt, EarlyMoves DEF BaseInv, L!Quiet, L!Untold
  <1>5. CASE L!GateStart(g)
    <2>1. /\ g.stage \in {"start", "startMissing"}
          /\ L!Command(g.task, "start-quality-gate", FALSE)
          /\ L!GateMoves(g, "missing") \/ L!GateMoves(g, "config") \/ L!GateEnds(g)
      BY <1>5 DEF L!GateStart
    <2>2. status[g.task] = "completed"
      BY <1>0, <2>1 DEF EarlyFit, Early
    <2>3. ASSUME NEW h \in gates', h.stage \in Early
          PROVE  h \in gates /\ h.task # g.task
      <3>1. h \in gates /\ h # g
        BY <1>1, <1>2, <2>1, <2>3 DEF GateStages, Early
      <3>2. QED
        BY <1>0, <2>1, <2>3, <3>1 DEF EarlyFit, Early
    <2>4. GoesTo(g.task, "start-quality-gate", FALSE) # "merged"
      BY Goes
    <2>5. QED
      BY <1>0, <2>1, <2>2, <2>3, <2>4, GateCommandKeepsIt
  <1>6. CASE L!GateMissing(g)
    BY <1>3, <1>6 DEF L!GateMissing, Early
  <1>7. CASE L!GateConfig(g)
    <2>1. g.stage \notin Early
      BY <1>7 DEF L!GateConfig, Early
    <2>2. CASE L!Judge(g, FALSE) \/ L!Judge(g, TRUE)
      BY <1>3, <2>1, <2>2
    <2>3. CASE L!GateMoves(g, "run") /\ L!Quiet
      <3>1. \A h \in gates' : h.stage \in Early => h \in gates
        BY <1>2, <2>3 DEF GateStages, Early
      <3>2. QED
        BY <1>4, <2>3, <3>1
    <2>4. CASE L!GateEnds(g) /\ L!Quiet
      BY <1>1, <1>4, <2>4
    <2>5. QED
      BY <1>7, <2>2, <2>3, <2>4 DEF L!GateConfig
  <1>8. CASE L!GateRun(g)
    <2>1. g.stage \notin Early
      BY <1>8 DEF L!GateRun, Early
    <2>2. CASE L!Judge(g, FALSE) \/ L!Judge(g, TRUE)
      BY <1>3, <2>1, <2>2
    <2>3. CASE L!GateEnds(g) /\ L!Quiet
      BY <1>1, <1>4, <2>3
    <2>4. QED
      BY <1>8, <2>2, <2>3 DEF L!GateRun
  <1>9. QED
    BY <1>5, <1>6, <1>7, <1>8 DEF L!GateStep

LEMMA SettleKeepsIt ==
  ASSUME Inv, L!MicrotasksAreDone, NEW t \in Tasks, L!Settle(t)
  PROVE  BaseInv'
  <1> DEFINE kind == IF L!At(t, "accept") THEN "complete-without-pr" ELSE "merge-conflict"
             to == GoesTo(t, kind, FALSE)
  <1>0. /\ BaseTypes /\ EarlyFit /\ FinalsFit /\ BaseFits /\ finalEvents = << >>
        /\ L!Command(t, kind, FALSE) /\ finals[t] # Unset
        /\ finals' = [finals EXCEPT ![t] = Unset]
        /\ UNCHANGED <<attempts, branch, clone, checkedOut, into, undone, gateSub, gates>>
    BY DEF Inv, BaseInv, L!Settle, L!gitVars, L!cloneVars, L!At, L!MicrotasksAreDone
  <1>1. finals' \in [Tasks -> Finalizer \cup {Unset}]
        /\ \A u \in Tasks : finals'[u] = IF u = t THEN Unset ELSE finals[u]
    BY <1>0 DEF BaseTypes
  <1>2. status[t] \in {"finalizing", "cancelled"}
    BY <1>0 DEF FinalsFit
  <1>3. BaseTypes'
    BY <1>0, <1>1 DEF BaseTypes
  <1>4. \A u \in Tasks : u # t => (L!At(u, "accept")' <=> L!At(u, "accept"))
    BY <1>1 DEF L!At
  <1>5. ~L!At(t, "accept")'
    BY <1>1 DEF L!At
  <1>6. kind \in {"complete-without-pr", "merge-conflict"}
        /\ (L!Accepts(t, kind) <=> status[t] = "finalizing")
    BY <1>2, Sources DEF L!Accepts
  <1>7. CASE ~(L!Accepts(t, kind) /\ L!Transit(t, kind, FALSE) /\ dropped' = dropped)
    <2>0. L!Untold /\ (dropped' \/ (dropped' = dropped /\ status[t] = "cancelled"))
      <3> HIDE DEF kind
      <3>1. QED
        BY <1>0, <1>2, <1>6, <1>7 DEF L!Command
    <2>1. UNCHANGED <<status, finalEvents, gateEvents>>
      BY <2>0 DEF L!Untold
    <2>2. FinalsFit'
      BY <1>0, <1>1, <2>1 DEF FinalsFit
    <2>3. EarlyFit'
      BY <1>0, <2>1, EarlySame
    <2>4. ASSUME ~undone, ~dropped, status[t] = "cancelled", NEW u \in Tasks PROVE StatusFits(u)'
      <3>1. StatusFits(u)
        BY <1>0, <2>4 DEF BaseFits
      <3>2. CASE u = t
        BY <1>5, <2>1, <2>4, <3>2 DEF StatusFits, IsBased, Based
      <3>3. CASE u # t
        BY <1>0, <1>4, <2>1, <3>1, <3>3 DEF StatusFits, IsBased, Based
      <3>4. QED
        BY <3>2, <3>3
    <2>5. BaseFits'
      BY <1>0, <2>0, <2>4 DEF BaseFits, ChangesFit, OwnOrBased, Based
    <2>6. QED
      BY <1>3, <2>2, <2>3, <2>5 DEF BaseInv
  <1>8. CASE L!Accepts(t, kind) /\ L!Transit(t, kind, FALSE) /\ dropped' = dropped
    <2>1. Tells(t, to) /\ TellsGate(t, to)
      BY <1>8, TransitTells
    <2>2. to = IF L!At(t, "accept") THEN "merged" ELSE "needs-review"
      BY Goes
    <2> HIDE DEF to, kind
    <2>3. finalEvents' = << >> /\ \A u \in Tasks : status'[u] = IF u = t THEN to ELSE status[u]
      BY <2>1, <2>2 DEF Tells, Inv, IInv
    <2>4. FinalsFit'
      BY <1>0, <1>1, <2>3 DEF FinalsFit
    <2>5. \A h \in gates : h.stage \in Early => h.task # t
      BY <1>0, <1>2 DEF EarlyFit, L!MicrotasksAreDone
    <2>6. EarlyFit'
      BY <1>0, <2>1, <2>5, EarlyMoves
    <2>7. ASSUME ~undone, ~dropped, NEW u \in Tasks PROVE StatusFits(u)'
      <3>1. StatusFits(u)
        BY <1>0, <2>7 DEF BaseFits
      <3>2. CASE u = t
        BY <1>0, <1>2, <1>5, <1>6, <1>8, <2>2, <2>3, <3>1, <3>2 DEF StatusFits, IsBased, Based
      <3>3. CASE u # t
        BY <1>0, <1>4, <2>3, <3>1, <3>3 DEF StatusFits, IsBased, Based
      <3>4. QED
        BY <3>2, <3>3
    <2>8. BaseFits'
      BY <1>0, <1>8, <2>7 DEF BaseFits, ChangesFit, OwnOrBased, Based
    <2>9. QED
      BY <1>3, <2>4, <2>6, <2>8 DEF BaseInv
  <1>9. QED
    BY <1>7, <1>8
-----------------------------------------------------------------------------
(* The microtasks: a check is begun where none is that has not been        *)
(* aborted.                                                                *)
EarlyAlone ==
  \A g \in gates : g.stage \in Early =>
    /\ ~g.aborted /\ (g.stage # "get" => status[g.task] = "completed")
    /\ \A h \in gates : h.stage \in Early /\ h.task = g.task => h = g

LEMMA SpawnKeepsEarly ==
  ASSUME Inv, NEW ts \in SUBSET Tasks, L!SpawnGates(ts), status' = status
  PROVE  EarlyAlone'
  <1> DEFINE spawned == {L!NewGate(t) : t \in {u \in ts : ~L!Controlled(u)}}
  <1>1. gates' = gates \cup spawned
    BY DEF L!SpawnGates
  <1>2. EarlyAlone
    BY DEF Inv, BaseInv, EarlyFit, EarlyAlone
  <1>3. ASSUME NEW h \in spawned
        PROVE  /\ h.stage = "get" /\ ~h.aborted
               /\ \A g \in gates : g.task = h.task => g.stage \notin Early
               /\ \A k \in spawned : k.task = h.task => k = h
    <2>1. PICK t \in ts : ~L!Controlled(t) /\ h = L!NewGate(t)
      OBVIOUS
    <2>2. \A u \in ts : L!NewGate(u).task = u /\ L!NewGate(u).stage = "get"
                        /\ ~L!NewGate(u).aborted
      BY DEF L!NewGate
    <2>3. \A g \in gates : g.task = t => g.aborted
      BY <2>1 DEF L!Controlled
    <2>4. QED
      BY <1>2, <2>1, <2>2, <2>3 DEF EarlyAlone
  <1> HIDE DEF spawned
  <1>4. QED
    BY <1>1, <1>2, <1>3 DEF EarlyAlone

LEMMA GateAttachedKeepsBase == ASSUME Inv, L!GateAttached PROVE BaseInv'
  <1>1. /\ UNCHANGED <<status, attempts, branch, clone, checkedOut, into, finals, finalEvents, undone, dropped,
                       gateEvents>>
        /\ gateSub = "reading" /\ gateSub' = "on"
    BY DEF L!GateAttached, L!tasksVars, L!finalVars, L!gitVars, L!cloneVars, L!budget
  <1>2. EarlyAlone'
    BY <1>1, SpawnKeepsEarly DEF L!GateAttached
  <1>3. gateEvents' = << >>
    BY <1>1 DEF Inv, BaseInv, EarlyFit
  <1>4. EarlyFit'
    BY <1>1, <1>2, <1>3 DEF EarlyFit, EarlyAlone
  <1>5. QED
    BY <1>1, <1>4, NoMoveKeepsIt DEF BaseInv

LEMMA GateConsumeKeepsBase == ASSUME Inv, L!GateConsume PROVE BaseInv'
  <1> DEFINE event == Head(gateEvents)
  <1>1. /\ UNCHANGED <<status, attempts, branch, clone, checkedOut, into, finals, finalEvents, undone, dropped,
                       gateSub>>
        /\ gateSub = "on" /\ gateEvents # << >> /\ gateEvents' = Tail(gateEvents)
    BY DEF L!GateConsume, L!tasksVars, L!finalVars, L!gitVars, L!cloneVars, L!budget
  <1>2. /\ gateEvents = <<event>> /\ event.task \in Tasks /\ status[event.task] = event.to
        /\ EarlyAlone /\ \A g \in gates : g.stage # "get"
    BY <1>1 DEF Inv, IInv, BaseInv, EarlyFit, EarlyAlone
  <1>3. gateEvents' = << >>
    <2>1. \A e : Tail(<<e>>) = << >>
      OBVIOUS
    <2>2. QED
      BY <1>1, <1>2, <2>1
  <1>4. EarlyAlone'
    <2>1. CASE event.to = "completed"
      <3>1. L!SpawnGates({event.task})
        BY <2>1 DEF L!GateConsume
      <3>2. QED
        BY <1>1, <1>2, <3>1, SpawnKeepsEarly
    <2>2. CASE event.to # "completed"
      <3>1. gates' = {L!AbortedGate(g, event.task) : g \in gates}
        BY <2>2 DEF L!GateConsume
      <3>2. ASSUME NEW h \in gates', h.stage \in Early PROVE h \in gates
        <4>1. PICK g \in gates : h = L!AbortedGate(g, event.task)
          BY <3>1
        <4>2. IsGate(g)
          BY DEF Inv, IInv
        <4>3. CASE g.task = event.task
          <5>1. h.stage = g.stage
            BY <4>1, <4>2, <4>3 DEF L!AbortedGate, IsGate
          <5>2. QED
            BY <1>2, <2>2, <3>2, <4>3, <5>1 DEF EarlyAlone
        <4>4. CASE g.task # event.task
          BY <4>1, <4>4 DEF L!AbortedGate
        <4>5. QED
          BY <4>3, <4>4
      <3>3. QED
        BY <1>1, <1>2, <3>2 DEF EarlyAlone
    <2>3. QED
      BY <2>1, <2>2
  <1>5. EarlyFit'
    BY <1>3, <1>4 DEF EarlyFit, EarlyAlone
  <1>6. QED
    BY <1>1, <1>5, NoMoveKeepsIt DEF BaseInv

LEMMA GateGetKeepsBase == ASSUME Inv, NEW g \in gates, L!GateGet(g) PROVE BaseInv'
  <1>1. /\ UNCHANGED <<status, attempts, branch, clone, checkedOut, into, finals, finalEvents, undone, dropped,
                       gateSub, gateEvents>>
        /\ g.stage = "get"
    BY DEF L!GateGet, L!tasksVars, L!finalVars, L!gitVars, L!cloneVars, L!budget
  <1>2. /\ EarlyAlone /\ g.stage \in Early /\ IsGate(g) /\ gateEvents = << >>
        /\ g.task \in Tasks /\ attempts \in [Tasks -> Nat]
    BY <1>1 DEF Inv, IInv, BaseInv, EarlyFit, EarlyAlone, Early, IsGate
  <1>3. EarlyAlone'
    <2>1. CASE status[g.task] # "completed"
      BY <1>1, <1>2, <2>1 DEF L!GateGet, L!GateEnds, EarlyAlone
    <2>2. CASE status[g.task] = "completed"
      <3>1. PICK stage \in {"start", "startMissing"} :
              gates' = (gates \ {g}) \cup
                         {[g EXCEPT !.run = attempts[g.task], !.stage = stage]}
        BY <2>2 DEF L!GateGet
      <3> DEFINE new == [g EXCEPT !.run = attempts[g.task], !.stage = stage]
      <3>2. new.task = g.task /\ new.aborted = g.aborted
        BY <1>2 DEF IsGate
      <3>3. gates' = (gates \ {g}) \cup {new}
        BY <3>1
      <3> HIDE DEF new
      <3>4. \A h \in gates : h.stage \in Early /\ h.task = g.task => h = g
        BY <1>2 DEF EarlyAlone
      <3>5. QED
        BY <1>1, <1>2, <2>2, <3>2, <3>3, <3>4 DEF EarlyAlone
    <2>3. QED
      BY <2>1, <2>2
  <1>4. EarlyFit'
    BY <1>1, <1>2, <1>3 DEF EarlyFit, EarlyAlone
  <1>5. QED
    BY <1>1, <1>4, NoMoveKeepsIt DEF BaseInv

LEMMA FinalsSpawned ==
  ASSUME Inv, NEW ts \in SUBSET Tasks, L!SpawnFinals(ts),
         \A t \in ts : status[t] = "finalizing",
         UNCHANGED <<status, attempts, branch, clone, checkedOut, into, undone, dropped, gateSub, gateEvents, gates>>,
         finalEvents' = finalEvents \/ finalEvents' = << >>
  PROVE  BaseInv'
  <1>1. /\ BaseTypes /\ EarlyFit /\ FinalsFit /\ BaseFits
        /\ [stage |-> "compare", head |-> {}] \in Finalizer
    BY DEF Inv, BaseInv, Finalizer, L!FinalStages
  <1>2. /\ finals' \in [Tasks -> Finalizer \cup {Unset}]
        /\ \A u \in Tasks : finals'[u] = IF u \in ts /\ finals[u] = Unset
                                         THEN [stage |-> "compare", head |-> {}] ELSE finals[u]
    BY <1>1 DEF L!SpawnFinals, BaseTypes
  <1>3. \A u \in Tasks : L!At(u, "accept")' <=> L!At(u, "accept")
    BY <1>2 DEF L!At
  <1>4. BaseTypes'
    BY <1>1, <1>2 DEF BaseTypes
  <1>5. FinalsFit'
    BY <1>1, <1>2 DEF FinalsFit
  <1>6. EarlyFit' /\ BaseFits'
    BY <1>1, <1>3, EarlySame, SameStage
  <1>7. QED
    BY <1>4, <1>5, <1>6 DEF BaseInv

LEMMA FinalTasksKeepIt == ASSUME Inv, L!FinalAttached \/ L!FinalConsume PROVE BaseInv'
  <1>0. UNCHANGED <<status, attempts, branch, clone, checkedOut, into, undone, dropped, gateSub, gateEvents, gates>>
    BY DEF L!FinalAttached, L!FinalConsume, L!tasksVars, L!gateVars, L!gitVars, L!cloneVars, L!budget
  <1>1. CASE L!FinalAttached
    BY <1>0, <1>1, FinalsSpawned DEF L!FinalAttached
  <1>2. CASE L!FinalConsume
    <2>1. /\ finalEvents # << >> /\ finalEvents' = Tail(finalEvents)
          /\ L!SpawnFinals({Head(finalEvents).task})
      BY <1>2 DEF L!FinalConsume
    <2>2. /\ finalEvents = <<Head(finalEvents)>> /\ Head(finalEvents).task \in Tasks
          /\ status[Head(finalEvents).task] = "finalizing"
      BY <2>1 DEF Inv, BaseInv, FinalsFit
    <2>3. \A e : Tail(<<e>>) = << >>
      OBVIOUS
    <2>4. finalEvents' = << >>
      BY <2>1, <2>2, <2>3
    <2>5. QED
      BY <1>0, <2>1, <2>2, <2>4, FinalsSpawned
  <1>3. QED
    BY <1>1, <1>2

LEMMA RestartKeepsBase == ASSUME Inv, L!Restart PROVE BaseInv'
  <1>1. /\ UNCHANGED <<status, attempts, branch, clone, checkedOut, into, dropped>>
        /\ gates' = {} /\ gateEvents' = << >> /\ finalEvents' = << >>
        /\ finals' = [t \in Tasks |-> Unset]
        /\ undone' = (undone \/ \E t \in Tasks : finals[t] # Unset)
    BY DEF L!Restart, L!tasksVars
  <1>2. BaseTypes' /\ EarlyFit' /\ FinalsFit'
    BY <1>1 DEF Inv, BaseInv, BaseTypes, EarlyFit, FinalsFit
  <1>3. CASE \E t \in Tasks : finals[t] # Unset
    BY <1>1, <1>2, <1>3 DEF BaseInv, BaseFits
  <1>4. CASE \A t \in Tasks : finals[t] = Unset
    <2>1. \A t \in Tasks : L!At(t, "accept")' <=> L!At(t, "accept")
      BY <1>1, <1>4 DEF L!At
    <2>2. BaseFits'
      BY <1>1, <2>1, SameStage DEF Inv, BaseInv
    <2>3. QED
      BY <1>2, <2>2 DEF BaseInv
  <1>5. QED
    BY <1>3, <1>4

(* what a branch holds does not depend on which one is checked out *)
LEMMA CheckoutKeepsBase == ASSUME Inv, NEW h \in Branches, L!Checkout(h) PROVE BaseInv'
  <1>1. /\ UNCHANGED <<status, attempts, branch, clone, into, finals, finalEvents, undone, dropped,
                       gateSub, gateEvents, gates>>
        /\ checkedOut' \in Branches
    BY DEF L!Checkout, L!tasksVars, L!gateVars, L!finalVars, L!budget
  <1>2. BaseTypes' /\ EarlyFit' /\ FinalsFit'
    BY <1>1 DEF Inv, BaseInv, BaseTypes, EarlyFit, FinalsFit
  <1>3. BaseFits'
    BY <1>1, SameStage DEF Inv, BaseInv, L!At
  <1>4. QED
    BY <1>2, <1>3 DEF BaseInv

LEMMA LocalStepKeepsIt == ASSUME Inv, [L!Next]_L!vars PROVE Inv'
  <1> SUFFICES ASSUME Inv, [L!Next]_L!vars PROVE BaseInv'
    BY StepIsGood DEF Inv, Good
  <1>1. CASE L!Microtasks
    BY <1>1, GateAttachedKeepsBase, GateConsumeKeepsBase, GateGetKeepsBase, FinalTasksKeepIt
       DEF L!Microtasks
  <1>2. CASE L!MicrotasksAreDone /\ L!Callbacks
    <2>1. CASE \E t \in Tasks :
                 L!AgentCompletes(t) \/ L!Retry(t) \/ L!Cancel(t) \/ L!ProbeGate(t)
      BY <1>2, <2>1, OthersKeepIt
    <2>2. CASE \E t \in Tasks : L!FinalStep(t)
      BY <1>2, <2>2, GitStepKeepsIt, SettleKeepsIt DEF L!FinalStep, GitSteps
    <2>3. CASE \E g \in gates : L!GateStep(g)
      BY <1>2, <2>3, GateStepKeepsBase
    <2>4. CASE \E h \in Branches : L!Checkout(h)
      BY <2>4, CheckoutKeepsBase
    <2>5. QED
      BY <1>2, <2>1, <2>2, <2>3, <2>4 DEF L!Callbacks
  <1>3. CASE L!Restart
    BY <1>3, RestartKeepsBase
  <1>4. CASE UNCHANGED L!vars
    BY <1>4 DEF L!vars, L!tasksVars, L!gateVars, L!finalVars, L!gitVars, L!cloneVars, L!budget, Inv, BaseInv,
                BaseTypes, EarlyFit, FinalsFit, BaseFits, ChangesFit, OwnOrBased, StatusFits,
                IsBased, Based, L!At
  <1>5. QED
    BY <1>1, <1>2, <1>3, <1>4 DEF L!Next
-----------------------------------------------------------------------------
LEMMA LocalInitFits ==
  ASSUME NEW statuses \in [Tasks -> {"running", "finalizing", "cancelled"}],
         NEW branches \in [Tasks -> SUBSET Changes], NEW subscriptions \in {"on", "reading"},
         \A t \in Tasks : branches[t] \subseteq {<<t, 1>>},
         L!InitWith(statuses, branches, subscriptions)
  PROVE  Inv
  <1>1. IInv
    BY DEF L!InitWith, IInv
  <1>2. BaseTypes /\ EarlyFit /\ FinalsFit
    BY DEF L!InitWith, BaseTypes, EarlyFit, FinalsFit
  <1>3. \A t \in Tasks : ~IsBased(t)
    <2>1. \A t \in Tasks : finals[t] = Unset /\ status[t] # "merged"
      BY DEF L!InitWith
    <2>2. \A t \in Tasks : ~L!At(t, "accept")
      BY <2>1 DEF L!At
    <2>3. QED
      BY <2>1, <2>2 DEF IsBased
  <1>4. BaseFits
    <2>1. Based = {} /\ branch = branches /\ attempts = [t \in Tasks |-> 1]
      BY DEF L!InitWith, Based
    <2>2. ASSUME NEW t \in Tasks, NEW x \in branch[t] PROVE OwnOrBased(t, x)
      BY <2>1, <2>2 DEF OwnOrBased
    <2>3. QED
      BY <1>3, <2>1, <2>2 DEF BaseFits, ChangesFit, StatusFits
  <1>5. QED
    BY <1>1, <1>2, <1>4 DEF Inv, BaseInv

(* A task that is called merged has its changes in the branch that the     *)
(* clone had checked out at the merge, which need not be its merge target; *)
(* those of a run that was sent to review are in no branch -- however the  *)
(* finalizers and the user's checkouts overlap in the unguarded clone,     *)
(* unless a finalizer was killed at work, has reset a branch or has lost   *)
(* its transition (local-finalize-service.ts:211-260).                     *)
THEOREM LocalStatusTellsBase == L!Spec => []L!StatusTellsBase
  <1>1. L!Init => Inv
    <2> SUFFICES ASSUME L!Init PROVE Inv
      OBVIOUS
    <2>1. PICK statuses : statuses = [t \in Tasks |-> "running"]
      OBVIOUS
    <2>2. PICK branches : branches = [t \in Tasks |-> {}]
      OBVIOUS
    <2>3. L!InitWith(statuses, branches, "on")
      BY <2>1, <2>2 DEF L!Init
    <2>4. statuses \in [Tasks -> {"running", "finalizing", "cancelled"}]
      BY <2>1
    <2>5. branches \in [Tasks -> SUBSET Changes] /\ \A t \in Tasks : branches[t] \subseteq {<<t, 1>>}
      BY <2>2
    <2>6. QED
      BY <2>3, <2>4, <2>5, LocalInitFits
  <1>2. Inv /\ [L!Next]_L!vars => Inv'
    BY LocalStepKeepsIt
  <1>3. Inv => L!StatusTellsBase
    BY BaseTells
  <1>4. QED
    BY <1>1, <1>2, <1>3, PTL DEF L!Spec

(* of a behaviour that is about a local delivery *)
InvIfLocal == part \in LocalParts => Inv

LEMMA PartsStartFit == ASSUME Init PROVE InvIfLocal
  <1>1. PICK statuses, branches :
          /\ statuses = IF part = "gate" THEN OneTask("running") ELSE [t \in Tasks |-> "finalizing"]
          /\ branches = IF part = "gate" THEN [t \in Tasks |-> {}] ELSE [t \in Tasks |-> {<<t, 1>>}]
    OBVIOUS
  <1>2. /\ statuses \in [Tasks -> {"running", "finalizing", "cancelled"}]
        /\ branches \in [Tasks -> SUBSET Changes]
        /\ \A t \in Tasks : branches[t] \subseteq {<<t, 1>>}
    BY <1>1 DEF OneTask, Changes
  <1>3. ASSUME part \in LocalParts PROVE Inv
    <2>1. PICK subscriptions \in {"on", "reading"} : L!InitWith(statuses, branches, subscriptions)
      BY <1>1, <1>3 DEF Init, LocalParts
    <2>2. QED
      BY <1>2, <2>1, LocalInitFits
  <1>4. QED
    BY <1>3 DEF InvIfLocal

LEMMA PartStep ==
  ASSUME [Next]_all
  PROVE  /\ part' = part
         /\ part \in LocalParts => [L!Next]_L!vars
  <1>1. CASE Locally(L!Next)
    BY <1>1 DEF Locally
  <1>2. CASE OnGithub(G!Next)
    BY <1>2 DEF OnGithub, LocalParts, GithubParts
  <1>3. CASE Restacks(R!Next)
    BY <1>3 DEF Restacks, LocalParts
  <1>4. CASE UNCHANGED all
    BY <1>4 DEF all, localOnly, shared, L!vars, L!tasksVars, L!gateVars, L!finalVars, L!gitVars, L!cloneVars, L!budget
  <1>5. QED
    BY <1>1, <1>2, <1>3, <1>4 DEF Next

(* The invariant of a behaviour that is about one kind of delivery.        *)
THEOREM LocalStaysFit == Spec => []InvIfLocal
  <1>1. InvIfLocal /\ [Next]_all => InvIfLocal'
    BY PartStep, LocalStepKeepsIt DEF InvIfLocal
  <1>2. Init => InvIfLocal
    BY PartsStartFit
  <1>3. QED
    BY <1>1, <1>2, PTL DEF Spec

(* The same of the behaviours that TLC explores, whatever they are about:  *)
(* a status tells what the clone holds.                                    *)
THEOREM WhatStatusTells == Spec => []StatusTellsBase
  <1>1. InvIfLocal => StatusTellsBase
    BY BaseTells DEF InvIfLocal, StatusTellsBase
  <1>2. QED
    BY <1>1, LocalStaysFit, PTL
-----------------------------------------------------------------------------
(* Restacking *)

(* what can be in the ancestor's branch, and what a task has of it *)
Below == {v \in Stack : Ancestor = v \/ Ancestor \in R!Descendants(v)}
Trunk == {<<u, 0>> : u \in Below} \cup {<<Ancestor, n>> : n \in Nat}
Own(t) == content[t] \cap Trunk
HeadsHad == {heads[i] : i \in DOMAIN heads}

HeadsFit ==
  /\ heads \in Seq(R!Commits) /\ heads # << >>
  /\ heads[Len(heads)] = content[Ancestor]
  /\ \A i \in DOMAIN heads : heads[i] \subseteq Trunk
  /\ \A i, j \in DOMAIN heads : i <= j => heads[i] \subseteq heads[j]

OperationsTyped(w) == w.operations \in [OpIds -> R!GraphOperation \cup {Unset}]

BasesFit ==
  /\ bases = [o \in OpIds |-> bases[o]]
  /\ \A o \in R!Requested(wf) :
       \E i, j \in DOMAIN heads : i <= j /\ bases[o] = <<heads[i], heads[j]>>

(* what was asked for and what is scanned is an operation *)
ScanFits ==
  /\ asked \in Seq(OpIds)
  /\ \A i \in DOMAIN asked : asked[i] \in R!Requested(wf)
  /\ \A action \in scan : action.op \in R!Requested(wf) /\ action.attempt \in Nat

(* what is still to be rebased is the end of the plan *)
ExecFits ==
  /\ exec \in R!Executors \cup {Unset}
  /\ exec # Unset =>
       /\ exec.op \in R!Requested(wf)
       /\ Len(exec.todo) <= Len(RestackOrder)
       /\ \A i \in DOMAIN exec.todo :
            exec.todo[i] = RestackOrder[Len(RestackOrder) - Len(exec.todo) + i]
       /\ exec.conflict => broken
       /\ DOMAIN exec.shas \subseteq R!Dependents \cup {Ancestor}

Awaits(t) == exec # Unset /\ \E i \in DOMAIN exec.todo : exec.todo[i] = t

(* the executor takes what it can reach from one head of the ancestor to another *)
Carries(old, new) ==
  LET from == bases[exec.op][1]
      to   == bases[exec.op][2]
  IN  IF from = to THEN exec.todo = << >>
      ELSE /\ to \cup (old \ from) = new
           /\ Ancestor \in DOMAIN exec.shas /\ exec.shas[Ancestor] = <<from, to>>
           /\ \A u \in R!Reachable : ~Awaits(u) =>
                /\ u \in DOMAIN exec.shas
                /\ exec.shas[u][1] \cap Trunk = old /\ exec.shas[u][2] \cap Trunk = new

(* As long as no executor has died half-way or met a conflict, all branches *)
(* that can be reached have the same head of the ancestor, but for those    *)
(* that the executor has still to rebase.                                   *)
OnLevel(old, new) ==
  /\ \A t \in R!Reachable : Own(t) = IF Awaits(t) THEN old ELSE new
  /\ exec # Unset => Carries(old, new)

Level == ~broken => \E old, new \in HeadsHad : OnLevel(old, new)

RestackInv ==
  /\ OperationsTyped(wf) /\ content \in [Stack -> R!Commits] /\ broken \in BOOLEAN
  /\ HeadsFit /\ BasesFit /\ ScanFits /\ ExecFits /\ Level

(* What depends on a descendant is one; each depends on the ancestor or on *)
(* another; descendants of a descendant are descendants.                   *)
LEMMA DescendantsClosed ==
  ASSUME NEW u \in Stack
  PROVE  /\ R!Descendants(u) \subseteq Stack
         /\ R!ClosedUnderDependents(u, R!Descendants(u))
  BY DEF R!Descendants, R!ClosedUnderDependents

LEMMA EachDependsOnOne ==
  ASSUME NEW u \in Stack, NEW t \in R!Descendants(u)
  PROVE  \E p \in StackDeps[t] : p \in R!Descendants(u) \/ p = u
  <1> DEFINE others == R!Descendants(u) \ {t}
  <1>1. SUFFICES ASSUME StackDeps[t] \cap (R!Descendants(u) \cup {u}) = {} PROVE FALSE
    OBVIOUS
  <1>2. t \in Stack /\ R!ClosedUnderDependents(u, R!Descendants(u)) /\ others \in SUBSET Stack
    BY DescendantsClosed
  <1>3. R!ClosedUnderDependents(u, others)
    <2>1. ASSUME NEW x \in Stack, StackDeps[x] \cap (others \cup {u}) # {} PROVE x \in others
      <3>1. x \in R!Descendants(u)
        BY <1>2, <2>1 DEF R!ClosedUnderDependents
      <3>2. x # t
        BY <1>1, <2>1
      <3>3. QED
        BY <3>1, <3>2
    <2>2. QED
      BY <2>1 DEF R!ClosedUnderDependents
  <1>4. \A S \in SUBSET Stack : R!ClosedUnderDependents(u, S) => t \in S
    BY DEF R!Descendants
  <1>5. t \in others
    BY <1>2, <1>3, <1>4
  <1>6. QED
    BY <1>5

LEMMA DescendantsOfDescendants ==
  ASSUME NEW u \in Stack, NEW v \in R!Descendants(u)
  PROVE  R!Descendants(v) \subseteq R!Descendants(u)
  <1>1. v \in Stack /\ R!Descendants(u) \in SUBSET Stack
    BY DescendantsClosed
  <1>2. R!ClosedUnderDependents(u, R!Descendants(u))
    BY DescendantsClosed
  <1>3. R!ClosedUnderDependents(v, R!Descendants(u))
    BY <1>1, <1>2 DEF R!ClosedUnderDependents
  <1>4. QED
    BY <1>1, <1>3 DEF R!Descendants

LEMMA RestackConstants ==
  /\ StackDeps \in [Stack -> SUBSET Stack] /\ Ancestor \in Stack
  /\ RestackOrder \in Seq(Stack)
  /\ {RestackOrder[i] : i \in DOMAIN RestackOrder} = R!Dependents
  /\ \A i, j \in DOMAIN RestackOrder :
       /\ RestackOrder[i] = RestackOrder[j] => i = j
       /\ RestackOrder[i] \in StackDeps[RestackOrder[j]] => i < j
  /\ KeyOf \in [OpIds -> Keys]
  /\ Unset \notin R!GraphOperation /\ Unset \notin R!Executors
  BY Assumptions DEF R!RestackingAssumption

(* The first of the plan depends on the ancestor alone, which is therefore *)
(* not among its own descendants.                                          *)
LEMMA AncestorApart == Ancestor \notin R!Dependents
  <1> SUFFICES ASSUME Ancestor \in R!Dependents PROVE FALSE
    OBVIOUS
  <1>1. DOMAIN RestackOrder = 1 .. Len(RestackOrder) /\ Len(RestackOrder) \in Nat
    BY RestackConstants
  <1>2. 1 \in DOMAIN RestackOrder
    BY <1>1, RestackConstants
  <1>3. RestackOrder[1] \in R!Dependents
    BY <1>2, RestackConstants
  <1>4. PICK p \in StackDeps[RestackOrder[1]] : p \in R!Dependents
    BY <1>3, EachDependsOnOne, RestackConstants DEF R!Dependents
  <1>5. PICK i \in DOMAIN RestackOrder : RestackOrder[i] = p
    BY <1>4, RestackConstants
  <1>6. i < 1
    BY <1>2, <1>4, <1>5, RestackConstants
  <1>7. QED
    BY <1>1, <1>5, <1>6

(* What a reachable task depends on is the ancestor, or reachable, or no   *)
(* descendant of the ancestor.                                             *)
LEMMA ParentsReachable ==
  ASSUME NEW t \in R!Reachable, NEW p \in StackDeps[t], p \in R!Dependents
  PROVE  p \in R!Reachable
  <1>1. t \in R!Dependents /\ t \in Stack /\ p \in Stack /\ Ancestor \in Stack
    BY DescendantsClosed, RestackConstants DEF R!Reachable, R!Dependents
  <1>2. R!ClosedUnderDependents(p, R!Descendants(p))
    BY <1>1, DescendantsClosed
  <1>3. t \in R!Descendants(p)
    BY <1>1, <1>2 DEF R!ClosedUnderDependents
  <1>4. ASSUME NEW u \in R!Dependents, p = u \/ p \in R!Descendants(u) PROVE u \in worktrees
    <2>1. u \in Stack
      BY <1>1, DescendantsClosed DEF R!Dependents
    <2>2. t \in R!Descendants(u)
      BY <1>3, <1>4, <2>1, DescendantsOfDescendants
    <2>3. QED
      BY <2>2 DEF R!Reachable
  <1>5. QED
    BY <1>4 DEF R!Reachable

LEMMA ReachableFits == R!Reachable \subseteq R!Dependents /\ R!Reachable \subseteq worktrees
                       /\ R!Dependents \subseteq Stack
  <1>1. R!Dependents \subseteq Stack
    BY DescendantsClosed, RestackConstants DEF R!Dependents
  <1>2. QED
    BY <1>1 DEF R!Reachable

-----------------------------------------------------------------------------
(* At first every branch has what is below it, and so what the ancestor's has. *)
LEMMA RestackInit == R!Init => RestackInv
  <1> SUFFICES ASSUME R!Init PROVE RestackInv
    OBVIOUS
  <1>1. /\ content = [t \in Stack |-> {<<u, 0>> : u \in {v \in Stack : t = v \/ t \in R!Descendants(v)}}]
        /\ heads = << content[Ancestor] >> /\ exec = Unset /\ broken = FALSE /\ scan = {}
        /\ asked = << >> /\ bases = [o \in OpIds |-> Unset] /\ wf = R!NewWorkflow
    BY DEF R!Init
  <1>2. OperationsTyped(wf) /\ R!Requested(wf) = {}
    BY <1>1 DEF OperationsTyped, R!NewWorkflow, R!Requested
  <1>3. content \in [Stack -> R!Commits]
    BY <1>1 DEF R!Commits
  <1>4. content[Ancestor] = {<<u, 0>> : u \in Below} /\ content[Ancestor] \in R!Commits
    BY <1>1, <1>3, RestackConstants DEF Below
  <1>5. HeadsFit
    <2>1. heads \in Seq(R!Commits) /\ heads # << >> /\ Len(heads) = 1 /\ DOMAIN heads = {1}
          /\ heads[1] = content[Ancestor]
      BY <1>1, <1>4
    <2>2. content[Ancestor] \subseteq Trunk
      BY <1>4 DEF Trunk
    <2>3. QED
      BY <2>1, <2>2 DEF HeadsFit
  <1>6. BasesFit
    BY <1>1, <1>2 DEF BasesFit
  <1>7. ScanFits /\ ExecFits
    BY <1>1 DEF ScanFits, ExecFits
  <1>8. ASSUME NEW t \in R!Reachable PROVE Own(t) = content[Ancestor]
    <2>1. t \in R!Descendants(Ancestor) /\ t \in Stack
      BY ReachableFits DEF R!Dependents
    <2>2. \A v \in Below : t \in R!Descendants(v)
      BY <2>1, DescendantsOfDescendants DEF Below
    <2>3. content[t] = {<<u, 0>> : u \in {v \in Stack : t = v \/ t \in R!Descendants(v)}}
      BY <1>1, <2>1
    <2>4. {<<u, 0>> : u \in Below} \subseteq content[t]
      BY <2>2, <2>3 DEF Below
    <2>5. Ancestor \in Below
      BY RestackConstants DEF Below
    <2>6. ASSUME NEW x \in content[t], x \in Trunk PROVE x \in {<<u, 0>> : u \in Below}
      BY <2>3, <2>5, <2>6 DEF Trunk
    <2>7. QED
      BY <1>4, <2>4, <2>6 DEF Own, Trunk
  <1>9. Level
    <2>1. content[Ancestor] \in HeadsHad
      <3>1. 1 \in DOMAIN heads /\ heads[1] = content[Ancestor]
        BY <1>1
      <3>2. QED
        BY <3>1 DEF HeadsHad
    <2>2. OnLevel(content[Ancestor], content[Ancestor])
      BY <1>1, <1>8 DEF OnLevel
    <2>3. QED
      BY <2>1, <2>2 DEF Level
  <1>10. QED
    BY <1>1, <1>2, <1>3, <1>5, <1>6, <1>7, <1>9 DEF RestackInv

-----------------------------------------------------------------------------
(* The operations of the workflow: one moves, or one is new. *)
Moves(w, n, id, to) ==
  n.operations = [w.operations EXCEPT ![id] = R!MovedOperation(@, to)]

HasMoved(w, n, id, to) ==
  /\ OperationsTyped(n)
  /\ R!Requested(n) = R!Requested(w)
  /\ n.operations[id].status = to
  /\ \A o \in OpIds : o # id => n.operations[o] = w.operations[o]

LEMMA OperationMoves ==
  ASSUME NEW w, NEW n, OperationsTyped(w), NEW id \in R!Requested(w), NEW to \in R!OperationStatuses,
         Moves(w, n, id, to)
  PROVE  HasMoved(w, n, id, to)
  <1>1. id \in OpIds /\ w.operations[id] \in R!GraphOperation
    BY DEF OperationsTyped, R!Requested
  <1>2. /\ R!MovedOperation(w.operations[id], to) \in R!GraphOperation
        /\ R!MovedOperation(w.operations[id], to).status = to
    BY <1>1 DEF R!MovedOperation, R!GraphOperation
  <1>3. R!MovedOperation(w.operations[id], to) # Unset
    BY <1>2, RestackConstants
  <1>4. /\ n.operations[id] = R!MovedOperation(w.operations[id], to)
        /\ \A o \in OpIds : o # id => n.operations[o] = w.operations[o]
    BY <1>1 DEF OperationsTyped, Moves
  <1>5. OperationsTyped(n)
    BY <1>1, <1>2 DEF OperationsTyped, Moves
  <1>6. R!Requested(n) = R!Requested(w)
    BY <1>3, <1>4 DEF R!Requested
  <1>7. QED
    BY <1>2, <1>4, <1>5, <1>6 DEF HasMoved

(* what a command of the executor or of an operator does to operations *)
StatusAfter(kind) ==
  IF kind = "start-restack" THEN "running"
  ELSE IF kind = "complete-restack" THEN "completed" ELSE "conflict"

LEMMA CommandMoves ==
  ASSUME NEW w, OperationsTyped(w), NEW command, NEW id \in OpIds, command.operationId = id,
         R!Outcome(w, command) = "ok", NEW n, n = R!Apply(w, command),
         command.kind \in {"start-restack", "mark-restack-conflict", "complete-restack"}
  PROVE  id \in R!Requested(w) /\ HasMoved(w, n, id, StatusAfter(command.kind))
  <1>1. id \in R!Requested(w)
    BY DEF R!Outcome, R!OperationOutcome
  <1>2. Moves(w, n, id, StatusAfter(command.kind))
    <2>1. CASE command.kind = "start-restack"
      BY <2>1 DEF R!Apply, R!StartRestack, R!MoveOperation, R!NextVersion, StatusAfter, Moves
    <2>2. CASE command.kind = "complete-restack"
      BY <2>2 DEF R!Apply, R!CompleteRestack, R!NextVersion, StatusAfter, Moves
    <2>3. CASE command.kind = "mark-restack-conflict"
      BY <2>3 DEF R!Apply, R!MarkRestackConflict, R!MoveOperation, R!NextVersion, StatusAfter, Moves
    <2>4. QED
      BY <2>1, <2>2, <2>3
  <1>3. StatusAfter(command.kind) \in R!OperationStatuses
    BY DEF StatusAfter, R!OperationStatuses
  <1>4. QED
    BY <1>1, <1>2, <1>3, OperationMoves

(* What does not touch the branches of descendants keeps them on a level. *)
LEMMA LevelKept ==
  ASSUME Level, exec' = exec, worktrees' = worktrees, HeadsHad \subseteq HeadsHad', broken' = broken,
         \A t \in R!Dependents : content'[t] = content[t],
         exec # Unset => bases'[exec.op] = bases[exec.op]
  PROVE  Level'
  <1> SUFFICES ASSUME ~broken' PROVE \E old, new \in HeadsHad' : OnLevel(old, new)'
    BY DEF Level
  <1>1. PICK old, new \in HeadsHad : OnLevel(old, new)
    BY DEF Level
  <1>2. R!Reachable' = R!Reachable
    BY DEF R!Reachable
  <1>3. \A t : Awaits(t)' = Awaits(t)
    BY DEF Awaits
  <1>4. \A t \in R!Reachable : Own(t)' = Own(t)
    BY ReachableFits DEF Own
  <1>5. exec # Unset => Carries(old, new)'
    BY <1>1, <1>2, <1>3 DEF Carries, OnLevel
  <1>6. OnLevel(old, new)'
    BY <1>1, <1>2, <1>3, <1>4, <1>5 DEF OnLevel
  <1>7. QED
    BY <1>1, <1>6

-----------------------------------------------------------------------------
(* the steps that leave the operations, the heads or the executor alone *)
LEMMA BasesKept ==
  ASSUME BasesFit, R!Requested(wf') = R!Requested(wf), bases' = bases, heads' = heads
  PROVE  BasesFit'
  BY DEF BasesFit

LEMMA ExecKept ==
  ASSUME ExecFits, R!Requested(wf) \subseteq R!Requested(wf'), exec' = exec, broken => broken'
  PROVE  ExecFits'
  BY DEF ExecFits

LEMMA ScanKept ==
  ASSUME ScanFits, R!Requested(wf) \subseteq R!Requested(wf'), asked' = asked, scan' \subseteq scan
  PROVE  ScanFits'
  BY DEF ScanFits

LEMMA HeadsKept == ASSUME HeadsFit, heads' = heads, content'[Ancestor] = content[Ancestor] PROVE HeadsFit'
  BY DEF HeadsFit

(* The ancestor gets a head beyond its last one. *)
LEMMA AdvanceFits == ASSUME RestackInv, R!Advance PROVE RestackInv'
  <1>1. /\ content' = [content EXCEPT ![Ancestor] = @ \cup {<<Ancestor, Len(heads)>>}]
        /\ heads' = Append(heads, content'[Ancestor])
        /\ UNCHANGED <<wf, asked, bases, resumed, worktrees, scan, exec, broken>>
    BY DEF R!Advance, R!restacked
  <1>2. Ancestor \in Stack /\ content \in [Stack -> R!Commits] /\ HeadsFit
    BY RestackConstants DEF RestackInv
  <1>3. PICK n \in Nat : n = Len(heads) /\ n >= 1 /\ DOMAIN heads = 1 .. n /\ heads[n] = content[Ancestor]
    BY <1>2 DEF HeadsFit
  <1>4. /\ content'[Ancestor] = heads[n] \cup {<<Ancestor, n>>}
        /\ content' \in [Stack -> R!Commits]
        /\ \A t \in Stack : t # Ancestor => content'[t] = content[t]
    BY <1>1, <1>2, <1>3 DEF R!Commits
  <1>5. /\ DOMAIN heads' = 1 .. n + 1 /\ heads'[n + 1] = content'[Ancestor] /\ Len(heads') = n + 1
        /\ heads' \in Seq(R!Commits) /\ \A i \in 1 .. n : heads'[i] = heads[i]
    BY <1>1, <1>2, <1>3, <1>4 DEF HeadsFit
  <1>6. HeadsFit'
    <2>1. n \in DOMAIN heads /\ heads'[n + 1] \subseteq Trunk
      BY <1>2, <1>3, <1>4, <1>5 DEF HeadsFit, Trunk
    <2>2. \A i \in 1 .. n : heads[i] \subseteq Trunk /\ heads[i] \subseteq heads[n]
      BY <1>2, <1>3 DEF HeadsFit
    <2>3. ASSUME NEW i \in DOMAIN heads', NEW j \in DOMAIN heads', i <= j PROVE heads'[i] \subseteq heads'[j]
      <3>1. CASE j = n + 1
        BY <1>3, <1>4, <1>5, <2>2, <2>3, <3>1
      <3>2. CASE j # n + 1
        BY <1>2, <1>3, <1>5, <2>3, <3>2 DEF HeadsFit
      <3>3. QED
        BY <3>1, <3>2
    <2>4. \A i \in DOMAIN heads' : heads'[i] \subseteq Trunk
      BY <1>5, <2>1, <2>2
    <2>5. QED
      BY <1>5, <2>3, <2>4 DEF HeadsFit
  <1>7. BasesFit'
    <2>1. R!Requested(wf)' = R!Requested(wf) /\ BasesFit
      BY <1>1 DEF RestackInv
    <2>2. ASSUME NEW o \in R!Requested(wf)
          PROVE  \E i, j \in DOMAIN heads' : i <= j /\ bases[o] = <<heads'[i], heads'[j]>>
      <3>1. PICK i, j \in DOMAIN heads : i <= j /\ bases[o] = <<heads[i], heads[j]>>
        BY <2>1 DEF BasesFit
      <3>2. i \in DOMAIN heads' /\ j \in DOMAIN heads' /\ heads'[i] = heads[i] /\ heads'[j] = heads[j]
        BY <1>3, <1>5
      <3>3. QED
        BY <3>1, <3>2
    <2>3. QED
      BY <1>1, <2>1, <2>2 DEF BasesFit
  <1>8. Level'
    <2>1. HeadsHad \subseteq HeadsHad'
      BY <1>3, <1>5 DEF HeadsHad
    <2>2. \A t \in R!Dependents : content'[t] = content[t]
      BY <1>4, AncestorApart, ReachableFits
    <2>3. QED
      BY <1>1, <2>1, <2>2, LevelKept DEF RestackInv
  <1>9. OperationsTyped(wf)' /\ ScanFits' /\ ExecFits' /\ broken' \in BOOLEAN
    BY <1>1, ScanKept, ExecKept DEF RestackInv, OperationsTyped
  <1>10. QED
    BY <1>4, <1>6, <1>7, <1>8, <1>9 DEF RestackInv

(* A new operation is between two heads that there are. *)
LEMMA AskFits == ASSUME RestackInv, NEW o \in OpIds, R!Ask(o) PROVE RestackInv'
  <1>1. /\ wf.operations[o] = Unset /\ asked' = Append(asked, o)
        /\ wf' = R!RequestRestack(wf, o, Ancestor, KeyOf[o]) /\ wf' # wf
        /\ UNCHANGED <<resumed, content, heads, worktrees, scan, exec, broken>>
    BY DEF R!Ask, R!branches
  <1>2. PICK i \in DOMAIN heads : bases' = [bases EXCEPT ![o] = <<heads[i], heads[Len(heads)]>>]
    BY DEF R!Ask
  <1>3. wf'.operations = [wf.operations EXCEPT ![o] = R!RestackOperation(Ancestor, KeyOf[o])]
    BY <1>1 DEF R!RequestRestack, R!NextVersion
  <1>4. OperationsTyped(wf)
    BY DEF RestackInv
  <1>5. R!RestackOperation(Ancestor, KeyOf[o]) \in R!GraphOperation
    <2>1. R!Descendants(Ancestor) \in SUBSET Stack /\ KeyOf[o] \in Keys
      BY DescendantsClosed, RestackConstants
    <2>2. QED
      BY <2>1 DEF R!RestackOperation, R!GraphOperation, R!OperationStatuses
  <1>6. OperationsTyped(wf')
    BY <1>3, <1>4, <1>5 DEF OperationsTyped
  <1>7. R!Requested(wf') = R!Requested(wf) \cup {o} /\ o \notin R!Requested(wf)
    BY <1>1, <1>3, <1>4, <1>5, RestackConstants DEF OperationsTyped, R!Requested
  <1>8. HeadsFit /\ HeadsFit' /\ Len(heads) \in DOMAIN heads /\ i <= Len(heads)
    BY <1>1, <1>2 DEF RestackInv, HeadsFit
  <1>9. BasesFit'
    <2>1. BasesFit
      BY DEF RestackInv
    <2>2. bases' = [p \in OpIds |-> bases'[p]] /\ bases'[o] = <<heads[i], heads[Len(heads)]>>
          /\ \A p \in OpIds : p # o => bases'[p] = bases[p]
      BY <1>2, <2>1 DEF BasesFit
    <2>3. ASSUME NEW p \in R!Requested(wf')
          PROVE  \E k, l \in DOMAIN heads' : k <= l /\ bases'[p] = <<heads'[k], heads'[l]>>
      <3>1. CASE p = o
        BY <1>1, <1>2, <1>8, <2>2, <3>1
      <3>2. CASE p # o
        <4>1. p \in R!Requested(wf) /\ p \in OpIds
          BY <1>7, <3>2 DEF R!Requested
        <4>2. PICK k, l \in DOMAIN heads : k <= l /\ bases[p] = <<heads[k], heads[l]>>
          BY <2>1, <4>1 DEF BasesFit
        <4>3. QED
          BY <1>1, <2>2, <3>2, <4>1, <4>2
      <3>3. QED
        BY <3>1, <3>2
    <2>4. QED
      BY <2>2, <2>3 DEF BasesFit
  <1>10. ScanFits'
    <2>1. ScanFits
      BY DEF RestackInv
    <2>2. asked' \in Seq(OpIds) /\ \A k \in DOMAIN asked' : asked'[k] \in R!Requested(wf')
      BY <1>1, <1>7, <2>1 DEF ScanFits
    <2>3. QED
      BY <1>1, <1>7, <2>1, <2>2 DEF ScanFits
  <1>11. Level'
    <2>1. exec # Unset => bases'[exec.op] = bases[exec.op]
      <3>1. exec # Unset => exec.op \in R!Requested(wf)
        BY DEF RestackInv, ExecFits
      <3>2. QED
        BY <1>2, <1>7, <3>1 DEF RestackInv, BasesFit, R!Requested
    <2>2. QED
      BY <1>1, <2>1, LevelKept DEF RestackInv, HeadsHad
  <1>12. ExecFits' /\ broken' \in BOOLEAN /\ content' \in [Stack -> R!Commits]
    BY <1>1, <1>7, ExecKept DEF RestackInv
  <1>13. QED
    BY <1>6, <1>8, <1>9, <1>10, <1>11, <1>12 DEF RestackInv

(* a command that touches nothing but operations that there are *)
LEMMA OnlyOperationsMove ==
  ASSUME RestackInv, OperationsTyped(wf'), R!Requested(wf') = R!Requested(wf),
         UNCHANGED <<asked, bases, content, heads, worktrees, exec, broken>>, scan' \subseteq scan
  PROVE  RestackInv'
  <1>1. HeadsFit' /\ BasesFit' /\ ScanFits' /\ ExecFits'
    BY HeadsKept, BasesKept, ScanKept, ExecKept DEF RestackInv
  <1>2. Level'
    BY LevelKept DEF RestackInv, HeadsHad
  <1>3. QED
    BY <1>1, <1>2 DEF RestackInv

LEMMA SettleFits ==
  ASSUME RestackInv, NEW o \in OpIds, R!Settle(o)
  PROVE  /\ RestackInv'
         /\ \A p \in OpIds : wf'.operations[p].status = "completed" =>
                wf'.operations[p] = wf.operations[p]
  <1>1. UNCHANGED <<asked, bases, resumed, content, heads, worktrees, scan, exec, broken>>
    BY DEF R!Settle, R!branches
  <1>2. PICK kind \in {"start-restack", "mark-restack-conflict"} :
               /\ R!Outcome(wf, [kind |-> kind, operationId |-> o]) = "ok"
               /\ wf' = R!Apply(wf, [kind |-> kind, operationId |-> o])
    BY DEF R!Settle
  <1>3. PICK command : command = [kind |-> kind, operationId |-> o]
    OBVIOUS
  <1>4. command.operationId = o /\ command.kind = kind /\ R!Outcome(wf, command) = "ok" /\ wf' = R!Apply(wf, command)
    BY <1>2, <1>3
  <1>5. OperationsTyped(wf)
    BY DEF RestackInv
  <1>6. /\ OperationsTyped(wf') /\ R!Requested(wf') = R!Requested(wf)
        /\ wf'.operations[o].status = StatusAfter(kind)
        /\ \A p \in OpIds : p # o => wf'.operations[p] = wf.operations[p]
    BY <1>2, <1>4, <1>5, CommandMoves DEF HasMoved
  <1>7. StatusAfter(kind) # "completed"
    BY <1>2 DEF StatusAfter
  <1>8. QED
    BY <1>1, <1>6, <1>7, OnlyOperationsMove

(* The scan reads the operations that were asked for. *)
LEMMA StartScanFits == ASSUME RestackInv, R!StartScan PROVE RestackInv'
  <1>1. UNCHANGED <<wf, asked, bases, resumed, content, heads, worktrees, exec, broken>>
    BY DEF R!StartScan, R!branches, R!restacked
  <1>2. ScanFits /\ OperationsTyped(wf)
    BY DEF RestackInv
  <1>3. \A i \in DOMAIN asked : /\ asked[i] \in R!Requested(wf)
                               /\ wf.operations[asked[i]].attempt \in Nat
    BY <1>2 DEF ScanFits, OperationsTyped, R!Requested, R!GraphOperation
  <1>4. ASSUME NEW action \in scan' PROVE action.op \in R!Requested(wf) /\ action.attempt \in Nat
    <2>1. PICK i \in DOMAIN asked :
                 action = [at |-> i, op |-> asked[i], status |-> wf.operations[asked[i]].status,
                           attempt |-> wf.operations[asked[i]].attempt]
      BY DEF R!StartScan
    <2>2. QED
      BY <1>3, <2>1
  <1>5. ScanFits'
    BY <1>1, <1>2, <1>4 DEF ScanFits
  <1>6. HeadsFit' /\ BasesFit' /\ ExecFits'
    BY <1>1, HeadsKept, BasesKept, ExecKept DEF RestackInv
  <1>7. Level'
    BY <1>1, LevelKept DEF RestackInv, HeadsHad
  <1>8. QED
    BY <1>1, <1>5, <1>6, <1>7 DEF RestackInv

-----------------------------------------------------------------------------
(* The executor *)

(* With two heads of the ancestor the move of a third is one of them. *)
LEMMA MovedHead ==
  ASSUME HeadsFit, NEW from \in HeadsHad, NEW to \in HeadsHad, NEW old \in HeadsHad, from \subseteq to
  PROVE  to \cup (old \ from) \in HeadsHad
  <1>1. PICK i, j, l \in DOMAIN heads : from = heads[i] /\ to = heads[j] /\ old = heads[l]
    BY DEF HeadsHad
  <1>2. DOMAIN heads \subseteq Nat
    BY DEF HeadsFit
  <1>3. CASE l <= j
    BY <1>1, <1>3 DEF HeadsFit
  <1>4. CASE j <= l
    <2>1. to \subseteq old
      BY <1>1, <1>4 DEF HeadsFit
    <2>2. QED
      BY <2>1
  <1>5. QED
    BY <1>1, <1>2, <1>3, <1>4

(* A new executor has all that can be reached before it, or nothing if the *)
(* ancestor has not moved.                                                 *)
LEMMA ExecutorStarts ==
  ASSUME RestackInv, exec = Unset, NEW action \in scan, exec' = R!Executor(action),
         OperationsTyped(wf'), R!Requested(wf') = R!Requested(wf),
         UNCHANGED <<asked, bases, content, heads, worktrees, broken>>, scan' \subseteq scan
  PROVE  RestackInv'
  <1> DEFINE o == action.op
             from == bases[o][1]
             to == bases[o][2]
  <1>1. o \in R!Requested(wf) /\ o \in OpIds /\ action.attempt \in Nat
    BY DEF RestackInv, ScanFits, R!Requested
  <1>2. PICK i, j \in DOMAIN heads : i <= j /\ bases[o] = <<heads[i], heads[j]>>
    BY <1>1 DEF RestackInv, BasesFit
  <1>3. /\ from \in HeadsHad /\ to \in HeadsHad /\ from \subseteq to /\ bases[o] = <<from, to>>
        /\ from \in R!Commits /\ to \in R!Commits
    BY <1>2 DEF RestackInv, HeadsFit, HeadsHad
  <1>4. PICK shas : shas = [t \in {Ancestor} |-> bases[o]]
    OBVIOUS
  <1>5. PICK todo : todo = IF from = to THEN << >> ELSE RestackOrder
    OBVIOUS
  <1>6. exec' = [op |-> o, key |-> <<o, action.attempt>>, conflict |-> FALSE, todo |-> todo, shas |-> shas]
    BY <1>4, <1>5 DEF R!Executor, R!ResumeKey
  <1>7. shas \in UNION {[known -> R!Commits \X R!Commits] : known \in SUBSET Stack}
    <2>1. shas \in [{Ancestor} -> R!Commits \X R!Commits] /\ {Ancestor} \in SUBSET Stack
      BY <1>3, <1>4, RestackConstants
    <2>2. QED
      BY <2>1
  <1>8. todo \in Seq(Stack)
    BY <1>5, RestackConstants
  <1>9. exec' \in R!Executors /\ exec' # Unset
    <2>1. exec' \in R!Executors
      BY <1>1, <1>6, <1>7, <1>8 DEF R!Executors
    <2>2. QED
      BY <2>1, RestackConstants
  <1>10. /\ exec'.op = o /\ exec'.todo = todo /\ exec'.shas = shas /\ exec'.conflict = FALSE
         /\ DOMAIN shas = {Ancestor} /\ shas[Ancestor] = <<from, to>>
    BY <1>3, <1>4, <1>6
  <1>11. ExecFits'
    <2>1. Len(todo) <= Len(RestackOrder)
      BY <1>5, RestackConstants
    <2>2. \A k \in DOMAIN todo : todo[k] = RestackOrder[Len(RestackOrder) - Len(todo) + k]
      BY <1>5, RestackConstants
    <2>3. QED
      BY <1>1, <1>9, <1>10, <2>1, <2>2 DEF ExecFits
  <1>12. Level'
    <2>1. SUFFICES ASSUME ~broken PROVE \E old, new \in HeadsHad : OnLevel(old, new)'
      BY DEF Level, HeadsHad
    <2>2. PICK was, is \in HeadsHad : OnLevel(was, is)
      BY <2>1 DEF RestackInv, Level
    <2>3. \A t \in R!Reachable : Own(t)' = is
      BY <2>2 DEF OnLevel, Awaits, Own
    <2>4. R!Reachable' = R!Reachable
      BY DEF R!Reachable
    <2>5. CASE from = to
      <3>1. \A t : ~Awaits(t)'
        BY <1>5, <1>10, <2>5 DEF Awaits
      <3>2. Carries(is, is)'
        BY <1>5, <1>10, <2>5 DEF Carries
      <3>3. OnLevel(is, is)'
        BY <2>3, <2>4, <3>1, <3>2 DEF OnLevel
      <3>4. QED
        BY <3>3
    <2>6. CASE from # to
      <3>1. PICK new \in HeadsHad : new = to \cup (is \ from)
        BY <1>3, MovedHead DEF RestackInv
      <3>2. \A t \in R!Reachable : Awaits(t)'
        <4>1. ASSUME NEW t \in R!Reachable PROVE \E k \in DOMAIN todo : todo[k] = t
          BY <1>5, <2>6, ReachableFits, RestackConstants
        <4>2. QED
          BY <1>9, <1>10, <4>1 DEF Awaits
      <3>3. Carries(is, new)'
        BY <1>10, <2>4, <2>6, <3>1, <3>2 DEF Carries
      <3>4. OnLevel(is, new)'
        BY <2>3, <2>4, <3>2, <3>3 DEF OnLevel
      <3>5. QED
        BY <3>1, <3>4
    <2>7. QED
      BY <2>5, <2>6
  <1>13. HeadsFit' /\ BasesFit' /\ ScanFits'
    BY HeadsKept, BasesKept, ScanKept DEF RestackInv
  <1>14. QED
    BY <1>11, <1>12, <1>13 DEF RestackInv

LEMMA ResumeFits == ASSUME RestackInv, NEW action \in scan, R!Resume(action) PROVE RestackInv'
  <1>1. exec = Unset /\ UNCHANGED <<asked, bases, resumed, content, heads, worktrees, broken>>
    BY DEF R!Resume, R!branches
  <1>2. CASE scan' \subseteq scan /\ UNCHANGED <<wf, exec>>
    <2>1. OperationsTyped(wf') /\ R!Requested(wf') = R!Requested(wf)
      BY <1>2 DEF RestackInv
    <2>2. QED
      BY <1>1, <1>2, <2>1, OnlyOperationsMove
  <1>3. CASE scan' = scan \ {action} /\ exec' = R!Executor(action) /\ UNCHANGED wf
    <2>1. OperationsTyped(wf') /\ R!Requested(wf') = R!Requested(wf) /\ scan' \subseteq scan
      BY <1>3 DEF RestackInv
    <2>2. QED
      BY <1>1, <1>3, <2>1, ExecutorStarts
  <1>4. CASE /\ scan' = scan \ {action} /\ exec' = R!Executor(action)
             /\ wf' = R!StartRestack(wf, action.op)
    <2>1. action.op \in R!Requested(wf) /\ OperationsTyped(wf)
      BY DEF RestackInv, ScanFits
    <2>2. Moves(wf, wf', action.op, "running")
      BY <1>4 DEF R!StartRestack, R!MoveOperation, R!NextVersion, Moves
    <2>3. HasMoved(wf, wf', action.op, "running")
      BY <2>1, <2>2, OperationMoves DEF R!OperationStatuses
    <2>4. scan' \subseteq scan
      BY <1>4
    <2>5. QED
      BY <1>1, <1>4, <2>3, <2>4, ExecutorStarts DEF HasMoved
  <1>5. QED
    BY <1>2, <1>3, <1>4 DEF R!Resume

(* The executor stops: half-way and with a fault, or when all is done. *)
LEMMA ExecutorStops ==
  ASSUME RestackInv, exec' = Unset, broken' \in BOOLEAN, broken => broken',
         ~broken' /\ exec # Unset => exec.todo = << >>,
         OperationsTyped(wf'), R!Requested(wf') = R!Requested(wf),
         UNCHANGED <<asked, bases, content, heads, worktrees>>, scan' \subseteq scan
  PROVE  RestackInv'
  <1>1. ExecFits'
    BY DEF ExecFits
  <1>2. Level'
    <2>1. SUFFICES ASSUME ~broken' PROVE \E old, new \in HeadsHad : OnLevel(old, new)'
      BY DEF Level, HeadsHad
    <2>2. PICK old, new \in HeadsHad : OnLevel(old, new)
      BY <2>1 DEF RestackInv, Level
    <2>3. \A t : ~Awaits(t) /\ ~Awaits(t)'
      BY <2>1 DEF Awaits
    <2>4. \A t \in R!Reachable : Own(t)' = new
      BY <2>2, <2>3 DEF OnLevel, Own
    <2>5. R!Reachable' = R!Reachable
      BY DEF R!Reachable
    <2>6. OnLevel(old, new)'
      BY <2>3, <2>4, <2>5 DEF OnLevel
    <2>7. QED
      BY <2>6
  <1>3. HeadsFit' /\ BasesFit' /\ ScanFits'
    BY HeadsKept, BasesKept, ScanKept DEF RestackInv
  <1>4. QED
    BY <1>1, <1>2, <1>3 DEF RestackInv

LEMMA FailuresFit ==
  ASSUME RestackInv, R!ExecutorFails \/ R!Crash PROVE RestackInv'
  <1>1. /\ exec' = Unset /\ broken' \in BOOLEAN /\ (broken => broken') /\ scan' = {}
        /\ UNCHANGED <<wf, asked, bases, content, heads, worktrees>>
        /\ ~broken' /\ exec # Unset => exec.todo = << >>
    BY DEF R!ExecutorFails, R!Crash, R!restacked, R!branches, RestackInv
  <1>2. OperationsTyped(wf') /\ R!Requested(wf') = R!Requested(wf) /\ scan' \subseteq scan
    BY <1>1 DEF RestackInv
  <1>3. QED
    BY <1>1, <1>2, ExecutorStops

(* the command that settles the operation of the executor *)
Settling ==
  IF exec.conflict THEN [kind |-> "mark-restack-conflict", operationId |-> exec.op]
  ELSE [kind |-> "complete-restack", operationId |-> exec.op,
        artifactsByTaskId |-> [t \in Stack |-> {}]]

LEMMA FinishFits ==
  ASSUME RestackInv, R!Finish
  PROVE  /\ RestackInv'
         /\ \A o \in OpIds : wf'.operations[o] # wf.operations[o] => o = exec.op
         /\ exec.todo = << >> \/ broken
  <1>1. /\ exec # Unset /\ exec' = Unset
        /\ UNCHANGED <<asked, bases, content, heads, worktrees, broken>>
        /\ exec.todo = << >> \/ exec.conflict
    BY DEF R!Finish, R!branches
  <1>2. exec.op \in OpIds /\ (exec.conflict => broken) /\ OperationsTyped(wf)
    BY <1>1 DEF RestackInv, ExecFits, R!Requested
  <1>3. \/ wf' = wf /\ scan' = {}
        \/ R!Outcome(wf, Settling) = "ok" /\ wf' = R!Apply(wf, Settling) /\ scan' = scan
    BY DEF R!Finish, Settling
  <1>4. /\ OperationsTyped(wf') /\ R!Requested(wf') = R!Requested(wf) /\ scan' \subseteq scan
        /\ \A o \in OpIds : wf'.operations[o] # wf.operations[o] => o = exec.op
    <2>1. CASE wf' = wf /\ scan' = {}
      BY <1>2, <2>1
    <2>2. CASE R!Outcome(wf, Settling) = "ok" /\ wf' = R!Apply(wf, Settling) /\ scan' = scan
      <3>1. /\ Settling.operationId = exec.op
            /\ Settling.kind \in {"start-restack", "mark-restack-conflict", "complete-restack"}
        BY DEF Settling
      <3>2. HasMoved(wf, wf', exec.op, StatusAfter(Settling.kind))
        BY <1>2, <2>2, <3>1, CommandMoves
      <3>3. QED
        BY <2>2, <3>2 DEF HasMoved
    <2>3. QED
      BY <1>3, <2>1, <2>2
  <1>5. RestackInv'
    <2>1. broken' \in BOOLEAN /\ (broken => broken')
      BY <1>1 DEF RestackInv
    <2>2. ~broken' /\ exec # Unset => exec.todo = << >>
      BY <1>1, <1>2
    <2>3. QED
      BY <1>1, <1>4, <2>1, <2>2, ExecutorStops
  <1>6. QED
    BY <1>1, <1>2, <1>4, <1>5

(* A rebase that conflicts ends what can be said of the level. *)
LEMMA RebaseConflictsFits == ASSUME RestackInv, R!RebaseConflicts PROVE RestackInv'
  <1>1. /\ exec # Unset /\ exec' = [exec EXCEPT !.conflict = TRUE] /\ broken'
        /\ broken' = TRUE
        /\ UNCHANGED <<wf, asked, bases, content, heads, worktrees, scan>>
    BY DEF R!RebaseConflicts, R!restacked, R!branches
  <1>2. exec \in R!Executors
    BY <1>1 DEF RestackInv, ExecFits
  <1>3. /\ exec' \in R!Executors /\ exec'.op = exec.op /\ exec'.todo = exec.todo
        /\ exec'.shas = exec.shas
    BY <1>1, <1>2 DEF R!Executors
  <1>4. ExecFits'
    BY <1>1, <1>3, RestackConstants DEF RestackInv, ExecFits
  <1>5. OperationsTyped(wf') /\ content' \in [Stack -> R!Commits] /\ broken' \in BOOLEAN
    BY <1>1 DEF RestackInv
  <1>6. HeadsFit' /\ BasesFit' /\ ScanFits'
    BY <1>1, HeadsKept, BasesKept, ScanKept DEF RestackInv
  <1>7. Level'
    BY <1>1 DEF Level
  <1>8. QED
    BY <1>4, <1>5, <1>6, <1>7 DEF RestackInv

(* what is still to be rebased, place by place *)
LEMMA EndOfPlan ==
  ASSUME ExecFits, exec # Unset, exec.todo # << >>
  PROVE  \E n, m \in Nat :
           /\ Len(exec.todo) = n /\ n >= 1 /\ DOMAIN exec.todo = 1 .. n
           /\ Len(RestackOrder) = m /\ n <= m /\ DOMAIN RestackOrder = 1 .. m
           /\ \A i \in 1 .. n : m - n + i \in 1 .. m /\ exec.todo[i] = RestackOrder[m - n + i]
           /\ Head(exec.todo) = exec.todo[1]
  <1>1. exec.todo \in Seq(Stack)
    BY DEF ExecFits, R!Executors
  <1>2. PICK n \in Nat : n = Len(exec.todo) /\ n >= 1 /\ DOMAIN exec.todo = 1 .. n
    BY <1>1
  <1>3. PICK m \in Nat : m = Len(RestackOrder) /\ DOMAIN RestackOrder = 1 .. m
    BY RestackConstants
  <1>4. n <= m /\ \A i \in 1 .. n : exec.todo[i] = RestackOrder[m - n + i]
    BY <1>2, <1>3 DEF ExecFits
  <1>5. \A i \in 1 .. n : m - n + i \in 1 .. m
    BY <1>4
  <1>6. Head(exec.todo) = exec.todo[1]
    BY <1>1
  <1>7. QED
    BY <1>2, <1>3, <1>4, <1>5, <1>6

(* the head of the plan's rest: a descendant, and it comes but once *)
LEMMA NextIsDependent ==
  ASSUME ExecFits, exec # Unset, exec.todo # << >>
  PROVE  /\ Head(exec.todo) \in R!Dependents /\ Head(exec.todo) # Ancestor
         /\ Awaits(Head(exec.todo))
         /\ \A i \in DOMAIN exec.todo : i # 1 => exec.todo[i] # Head(exec.todo)
  <1>1. PICK n, m \in Nat :
           /\ Len(exec.todo) = n /\ n >= 1 /\ DOMAIN exec.todo = 1 .. n
           /\ Len(RestackOrder) = m /\ n <= m /\ DOMAIN RestackOrder = 1 .. m
           /\ \A i \in 1 .. n : m - n + i \in 1 .. m /\ exec.todo[i] = RestackOrder[m - n + i]
           /\ Head(exec.todo) = exec.todo[1]
    BY EndOfPlan
  <1>2. n \in Nat /\ m \in Nat /\ n >= 1 /\ DOMAIN exec.todo = 1 .. n /\ DOMAIN RestackOrder = 1 .. m
    BY <1>1
  <1>3. \A i \in 1 .. n : exec.todo[i] = RestackOrder[m - n + i] /\ m - n + i \in 1 .. m
    BY <1>1
  <1>4. Head(exec.todo) = exec.todo[1] /\ 1 \in 1 .. n
    BY <1>1
  <1>5. exec.todo[1] = RestackOrder[m - n + 1] /\ m - n + 1 \in DOMAIN RestackOrder
    BY <1>2, <1>3, <1>4
  <1>6. Head(exec.todo) \in R!Dependents
    BY <1>4, <1>5, RestackConstants
  <1>7. ASSUME NEW i \in 1 .. n, exec.todo[i] = exec.todo[1] PROVE i = 1
    <2>1. m - n + i \in DOMAIN RestackOrder /\ RestackOrder[m - n + i] = RestackOrder[m - n + 1]
      BY <1>2, <1>3, <1>5, <1>7
    <2>2. m - n + i = m - n + 1
      BY <1>5, <2>1, RestackConstants
    <2>3. QED
      BY <1>2, <2>2
  <1>8. QED
    BY <1>2, <1>4, <1>6, <1>7, AncestorApart DEF Awaits

(* one turn of the loop: the executor goes on to the next *)
LEMMA PassFits ==
  ASSUME ExecFits, exec # Unset, exec.todo # << >>, NEW shas, R!Pass(shas),
         shas \in UNION {[known -> R!Commits \X R!Commits] : known \in SUBSET Stack},
         DOMAIN shas \subseteq R!Dependents \cup {Ancestor}, wf' = wf, broken' = broken
  PROVE  /\ ExecFits' /\ exec' # Unset /\ exec'.op = exec.op /\ exec'.shas = shas
         /\ \A u : Awaits(u)' <=> Awaits(u) /\ u # Head(exec.todo)
  <1>1. exec' = [exec EXCEPT !.todo = Tail(exec.todo), !.shas = shas] /\ exec \in R!Executors
    BY DEF R!Pass, ExecFits
  <1>2. exec.todo \in Seq(Stack)
    BY <1>1 DEF R!Executors
  <1>3. PICK n, m \in Nat :
           /\ Len(exec.todo) = n /\ n >= 1 /\ DOMAIN exec.todo = 1 .. n
           /\ Len(RestackOrder) = m /\ n <= m /\ DOMAIN RestackOrder = 1 .. m
           /\ \A i \in 1 .. n : m - n + i \in 1 .. m /\ exec.todo[i] = RestackOrder[m - n + i]
           /\ Head(exec.todo) = exec.todo[1]
    BY EndOfPlan
  <1>4. /\ Tail(exec.todo) \in Seq(Stack) /\ DOMAIN Tail(exec.todo) = 1 .. n - 1
        /\ Len(Tail(exec.todo)) = n - 1
        /\ \A i \in 1 .. n - 1 : Tail(exec.todo)[i] = exec.todo[i + 1]
    BY <1>2, <1>3
  <1>5. /\ exec' \in R!Executors /\ exec'.op = exec.op /\ exec'.todo = Tail(exec.todo)
        /\ exec'.shas = shas /\ exec'.conflict = exec.conflict
    BY <1>1, <1>4 DEF R!Executors
  <1>6. exec' # Unset
    BY <1>5, RestackConstants
  <1>7. ExecFits'
    <2>1. n - 1 \in Nat /\ n - 1 <= m
      BY <1>3
    <2>2. ASSUME NEW i \in 1 .. n - 1
          PROVE  Tail(exec.todo)[i] = RestackOrder[m - (n - 1) + i]
      <3>1. i + 1 \in 1 .. n
        BY <1>3
      <3>2. exec.todo[i + 1] = RestackOrder[m - n + (i + 1)]
        BY <1>3, <3>1
      <3>3. m - n + (i + 1) = m - (n - 1) + i
        BY <1>3
      <3>4. QED
        BY <1>4, <3>2, <3>3
    <2>3. exec.op \in R!Requested(wf) /\ (exec.conflict => broken)
      BY DEF ExecFits
    <2>4. exec'.op \in R!Requested(wf') /\ (exec'.conflict => broken')
      BY <1>5, <2>3
    <2>5. \A i \in DOMAIN exec'.todo :
            exec'.todo[i] = RestackOrder[Len(RestackOrder) - Len(exec'.todo) + i]
      BY <1>3, <1>4, <1>5, <2>2
    <2>6. Len(exec'.todo) <= Len(RestackOrder)
      BY <1>3, <1>4, <1>5, <2>1
    <2>7. QED
      BY <1>5, <1>6, <2>4, <2>5, <2>6 DEF ExecFits
  <1>8. ASSUME NEW u PROVE Awaits(u)' <=> Awaits(u) /\ u # Head(exec.todo)
    <2>1. exec.todo[1] = Head(exec.todo)
      BY <1>2, <1>3
    <2>2. ASSUME NEW i \in 1 .. n - 1, Tail(exec.todo)[i] = u
          PROVE  Awaits(u) /\ u # Head(exec.todo)
      <3>1. i + 1 \in DOMAIN exec.todo /\ i + 1 # 1 /\ exec.todo[i + 1] = u
        BY <1>3, <1>4, <2>2
      <3>2. QED
        BY <3>1, NextIsDependent DEF Awaits
    <2>3. ASSUME NEW i \in 1 .. n, exec.todo[i] = u, u # Head(exec.todo)
          PROVE  \E j \in 1 .. n - 1 : Tail(exec.todo)[j] = u
      <3>1. i # 1
        BY <2>1, <2>3
      <3>2. i - 1 \in 1 .. n - 1 /\ (i - 1) + 1 = i
        BY <1>3, <3>1
      <3>3. QED
        BY <1>4, <2>3, <3>2
    <2>4. Awaits(u)' <=> \E i \in 1 .. n - 1 : Tail(exec.todo)[i] = u
      BY <1>4, <1>5, <1>6 DEF Awaits
    <2>5. Awaits(u) <=> \E i \in 1 .. n : exec.todo[i] = u
      BY <1>3 DEF Awaits
    <2>6. QED
      BY <2>2, <2>3, <2>4, <2>5
  <1>9. QED
    BY <1>5, <1>6, <1>7, <1>8

(* A task that can be reached has a parent whose move is known, and what   *)
(* is known of a parent of it is a move of the ancestor's changes.         *)
LEMMA KnownParents ==
  ASSUME RestackInv, exec # Unset, exec.todo # << >>, Head(exec.todo) \in R!Reachable,
         NEW old, NEW new, OnLevel(old, new)
  PROVE  /\ R!Moved(Head(exec.todo)) # {} /\ Own(Head(exec.todo)) = old
         /\ bases[exec.op][1] # bases[exec.op][2]
         /\ \A p \in R!Moved(Head(exec.todo)) :
              \/ /\ exec.shas[p] = <<bases[exec.op][1], bases[exec.op][2]>>
                 /\ bases[exec.op][2] \cup (old \ bases[exec.op][1]) = new
              \/ exec.shas[p][1] \cap Trunk = old /\ exec.shas[p][2] \cap Trunk = new
  <1> DEFINE t == Head(exec.todo)
  <1>1. ExecFits /\ t \in R!Dependents /\ Awaits(t)
    BY NextIsDependent DEF RestackInv
  <1>2. Carries(old, new) /\ Own(t) = old
    BY <1>1 DEF OnLevel
  <1>3. bases[exec.op][1] # bases[exec.op][2]
    BY <1>2 DEF Carries
  <1>4. ASSUME NEW p \in StackDeps[t], p \in R!Dependents
        PROVE  p \in R!Reachable /\ ~Awaits(p)
    <2>1. p \in R!Reachable
      BY <1>4, ParentsReachable
    <2>2. ASSUME NEW i \in DOMAIN exec.todo, exec.todo[i] = p PROVE FALSE
      <3>1. PICK n, m \in Nat :
               /\ Len(exec.todo) = n /\ n >= 1 /\ DOMAIN exec.todo = 1 .. n
               /\ Len(RestackOrder) = m /\ n <= m /\ DOMAIN RestackOrder = 1 .. m
               /\ \A k \in 1 .. n : m - n + k \in 1 .. m /\ exec.todo[k] = RestackOrder[m - n + k]
               /\ Head(exec.todo) = exec.todo[1]
        BY <1>1, EndOfPlan
      <3>2. i \in 1 .. n /\ 1 \in 1 .. n
        BY <3>1
      <3>3. /\ RestackOrder[m - n + i] = p /\ m - n + i \in DOMAIN RestackOrder
            /\ RestackOrder[m - n + 1] = t /\ m - n + 1 \in DOMAIN RestackOrder
        BY <2>2, <3>1, <3>2
      <3>4. m - n + i < m - n + 1
        BY <1>4, <3>3, RestackConstants
      <3>5. QED
        BY <3>2, <3>4
    <2>3. QED
      BY <2>1, <2>2 DEF Awaits
  <1>5. \A p \in StackDeps[t] : p \in R!Dependents =>
          /\ p \in DOMAIN exec.shas
          /\ exec.shas[p][1] \cap Trunk = old /\ exec.shas[p][2] \cap Trunk = new
    BY <1>2, <1>3, <1>4 DEF Carries
  <1>6. /\ Ancestor \in DOMAIN exec.shas
        /\ exec.shas[Ancestor] = <<bases[exec.op][1], bases[exec.op][2]>>
        /\ bases[exec.op][2] \cup (old \ bases[exec.op][1]) = new
    BY <1>2, <1>3 DEF Carries
  <1>7. R!Moved(t) # {}
    <2>1. PICK p \in StackDeps[t] : p \in R!Dependents \/ p = Ancestor
      BY <1>1, EachDependsOnOne, RestackConstants DEF R!Dependents
    <2>2. QED
      BY <1>5, <1>6, <2>1 DEF R!Moved
  <1>8. \A p \in R!Moved(t) : p \in StackDeps[t] /\ (p \in R!Dependents \/ p = Ancestor)
    BY <1>1 DEF R!Moved, ExecFits
  <1>9. QED
    BY <1>2, <1>3, <1>5, <1>6, <1>7, <1>8

(* What remains on the level when the executor goes on. *)
LEMMA LevelPasses ==
  ASSUME RestackInv, exec # Unset, exec.todo # << >>, exec' # Unset, exec'.op = exec.op,
         \A u : Awaits(u)' <=> Awaits(u) /\ u # Head(exec.todo),
         UNCHANGED <<bases, worktrees>>,
         NEW old, NEW new, OnLevel(old, new),
         \A u \in R!Dependents \cup {Ancestor} : u # Head(exec.todo) =>
           /\ content'[u] = content[u]
           /\ u \in DOMAIN exec.shas => u \in DOMAIN exec'.shas /\ exec'.shas[u] = exec.shas[u],
         Head(exec.todo) \in R!Reachable =>
           /\ content'[Head(exec.todo)] \cap Trunk = new
           /\ Head(exec.todo) \in DOMAIN exec'.shas
           /\ exec'.shas[Head(exec.todo)][1] \cap Trunk = old
           /\ exec'.shas[Head(exec.todo)][2] \cap Trunk = new
  PROVE  OnLevel(old, new)'
  <1> DEFINE t == Head(exec.todo)
  <1>1. R!Reachable' = R!Reachable /\ R!Reachable \subseteq R!Dependents
    BY ReachableFits DEF R!Reachable
  <1>2. t # Ancestor /\ Awaits(t)
    BY NextIsDependent DEF RestackInv
  <1>3. ASSUME NEW u \in R!Reachable PROVE Own(u)' = IF Awaits(u)' THEN old ELSE new
    <2>1. CASE u = t
      BY <2>1 DEF Own, Trunk, Below
    <2>2. CASE u # t
      BY <1>1, <2>2 DEF OnLevel, Own
    <2>3. QED
      BY <2>1, <2>2
  <1>4. Carries(old, new)'
    <2>1. /\ bases[exec.op][1] # bases[exec.op][2]
          /\ bases[exec.op][2] \cup (old \ bases[exec.op][1]) = new
          /\ Ancestor \in DOMAIN exec.shas
          /\ exec.shas[Ancestor] = <<bases[exec.op][1], bases[exec.op][2]>>
          /\ \A u \in R!Reachable : ~Awaits(u) =>
               /\ u \in DOMAIN exec.shas
               /\ exec.shas[u][1] \cap Trunk = old /\ exec.shas[u][2] \cap Trunk = new
      BY DEF OnLevel, Carries
    <2>2. bases'[exec'.op] = bases[exec.op]
      OBVIOUS
    <2>3. Ancestor \in DOMAIN exec'.shas /\ exec'.shas[Ancestor] = exec.shas[Ancestor]
      BY <1>2, <2>1
    <2>4. ASSUME NEW u \in R!Reachable, ~Awaits(u)'
          PROVE  /\ u \in DOMAIN exec'.shas
                 /\ exec'.shas[u][1] \cap Trunk = old /\ exec'.shas[u][2] \cap Trunk = new
      <3>1. CASE u = t
        BY <3>1
      <3>2. CASE u # t
        BY <1>1, <2>1, <2>4, <3>2
      <3>3. QED
        BY <3>1, <3>2
    <2>5. Trunk' = Trunk
      BY DEF Trunk, Below
    <2>6. QED
      BY <1>1, <2>1, <2>2, <2>3, <2>4, <2>5 DEF Carries
  <1>5. QED
    BY <1>1, <1>3, <1>4 DEF OnLevel

(* A rebase, or a turn of the loop that changes nothing: the branch of t   *)
(* goes from the head that it had to the one that is recorded.             *)
Turns(t, new) ==
  /\ new \in R!Commits
  /\ content' = [content EXCEPT ![t] = new]
  /\ R!Pass(R!Recorded(t, content[t], new))

LEMMA TurnsFit ==
  ASSUME RestackInv, exec # Unset, exec.todo # << >>, NEW t, t = Head(exec.todo),
         NEW new, Turns(t, new),
         UNCHANGED <<wf, asked, bases, heads, worktrees, scan, broken>>,
         \A old, level : OnLevel(old, level) /\ t \in R!Reachable => new \cap Trunk = level
  PROVE  RestackInv'
  <1>1. ExecFits /\ content \in [Stack -> R!Commits] /\ exec.shas \in
          UNION {[known -> R!Commits \X R!Commits] : known \in SUBSET Stack}
    BY DEF RestackInv, ExecFits, R!Executors
  <1>2. t \in R!Dependents /\ t # Ancestor /\ t \in Stack /\ R!Dependents \subseteq Stack
    BY <1>1, NextIsDependent, ReachableFits
  <1>3. /\ content' \in [Stack -> R!Commits] /\ content'[t] = new
        /\ \A u \in Stack : u # t => content'[u] = content[u]
    BY <1>1, <1>2 DEF Turns
  <1>4. PICK shas : shas = R!Recorded(t, content[t], new)
    OBVIOUS
  <1>5. /\ DOMAIN shas = DOMAIN exec.shas \cup {t}
        /\ shas[t] = <<content[t], new>>
        /\ \A u \in DOMAIN exec.shas : u # t => shas[u] = exec.shas[u]
    BY <1>4 DEF R!Recorded
  <1>6. shas \in UNION {[known -> R!Commits \X R!Commits] : known \in SUBSET Stack}
    <2>1. PICK known \in SUBSET Stack : exec.shas \in [known -> R!Commits \X R!Commits]
      BY <1>1
    <2>2. content[t] \in R!Commits /\ new \in R!Commits
      BY <1>1, <1>2 DEF Turns
    <2>3. ASSUME NEW u \in known \cup {t} PROVE shas[u] \in R!Commits \X R!Commits
      <3>1. DOMAIN exec.shas = known
        BY <2>1
      <3>2. CASE u = t
        <4>1. shas[u] = <<content[t], new>>
          BY <1>5, <3>2
        <4>2. QED
          BY <2>2, <4>1
      <3>3. CASE u # t
        <4>1. u \in known /\ shas[u] = exec.shas[u]
          BY <1>5, <3>1, <3>3
        <4>2. QED
          BY <2>1, <4>1
      <3>4. QED
        BY <3>2, <3>3
    <2>4. shas = [u \in known \cup {t} |-> shas[u]]
      BY <1>4, <1>5, <2>1 DEF R!Recorded
    <2>5. shas \in [known \cup {t} -> R!Commits \X R!Commits]
      BY <2>3, <2>4
    <2>6. QED
      BY <1>2, <2>5
  <1>7. R!Pass(shas)
    BY <1>4 DEF Turns
  <1>8. DOMAIN shas \subseteq R!Dependents \cup {Ancestor}
    BY <1>1, <1>2, <1>5 DEF ExecFits
  <1>9. /\ ExecFits' /\ exec' # Unset /\ exec'.op = exec.op /\ exec'.shas = shas
        /\ \A u : Awaits(u)' <=> Awaits(u) /\ u # Head(exec.todo)
    BY <1>1, <1>6, <1>7, <1>8, PassFits
  <1>10. Level'
    <2>1. SUFFICES ASSUME ~broken PROVE \E old, level \in HeadsHad : OnLevel(old, level)'
      BY DEF Level, HeadsHad
    <2>2. PICK old, level \in HeadsHad : OnLevel(old, level)
      BY <2>1 DEF RestackInv, Level
    <2>3. \A u \in R!Dependents \cup {Ancestor} : u # Head(exec.todo) =>
           /\ content'[u] = content[u]
           /\ u \in DOMAIN exec.shas => u \in DOMAIN exec'.shas /\ exec'.shas[u] = exec.shas[u]
      BY <1>2, <1>3, <1>5, <1>9, RestackConstants
    <2>4. ASSUME Head(exec.todo) \in R!Reachable
          PROVE  /\ content'[Head(exec.todo)] \cap Trunk = level
                 /\ Head(exec.todo) \in DOMAIN exec'.shas
                 /\ exec'.shas[Head(exec.todo)][1] \cap Trunk = old
                 /\ exec'.shas[Head(exec.todo)][2] \cap Trunk = level
      <3>1. new \cap Trunk = level
        BY <2>2, <2>4
      <3>2. content[t] \cap Trunk = old
        BY <2>2, <2>4, KnownParents DEF Own
      <3>3. QED
        BY <1>3, <1>5, <1>9, <3>1, <3>2
    <2>5. OnLevel(old, level)'
      BY <1>9, <2>2, <2>3, <2>4, LevelPasses
    <2>6. QED
      BY <2>5
  <1>11. HeadsFit' /\ BasesFit' /\ ScanFits'
    BY <1>2, <1>3, RestackConstants, HeadsKept, BasesKept, ScanKept DEF RestackInv
  <1>12. QED
    BY <1>3, <1>9, <1>10, <1>11 DEF RestackInv

LEMMA RebaseNextFits == ASSUME RestackInv, R!RebaseNext PROVE RestackInv'
  <1>1. /\ exec # Unset /\ exec.todo # << >>
        /\ UNCHANGED <<wf, asked, bases, resumed, heads, worktrees, scan, broken>>
    BY DEF R!RebaseNext, R!restacked
  <1>2. PICK t : t = Head(exec.todo)
    OBVIOUS
  <1>3. ExecFits /\ content \in [Stack -> R!Commits] /\ exec \in R!Executors
    BY <1>1 DEF RestackInv, ExecFits
  <1>4. t \in R!Dependents /\ t \in Stack
    BY <1>1, <1>2, <1>3, NextIsDependent, ReachableFits
  <1>5. CASE /\ R!Moved(t) = {} \/ t \notin worktrees
             /\ R!Pass(exec.shas) /\ UNCHANGED content
    <2>1. /\ ExecFits' /\ exec' # Unset /\ exec'.op = exec.op /\ exec'.shas = exec.shas
          /\ \A u : Awaits(u)' <=> Awaits(u) /\ u # Head(exec.todo)
      <3>1. exec.shas \in UNION {[known -> R!Commits \X R!Commits] : known \in SUBSET Stack}
        BY <1>3 DEF R!Executors
      <3>2. DOMAIN exec.shas \subseteq R!Dependents \cup {Ancestor}
        BY <1>1, <1>3 DEF ExecFits
      <3>3. QED
        BY <1>1, <1>3, <1>5, <3>1, <3>2, PassFits
    <2>2. Level'
      <3>1. SUFFICES ASSUME ~broken PROVE \E old, new \in HeadsHad : OnLevel(old, new)'
        BY <1>1 DEF Level, HeadsHad
      <3>2. PICK old, new \in HeadsHad : OnLevel(old, new)
        BY <3>1 DEF RestackInv, Level
      <3>3. Head(exec.todo) \notin R!Reachable
        BY <1>1, <1>2, <1>5, <3>2, KnownParents, ReachableFits
      <3>4. OnLevel(old, new)'
        BY <1>1, <1>5, <2>1, <3>2, <3>3, LevelPasses
      <3>5. QED
        BY <3>4
    <2>3. HeadsFit' /\ BasesFit' /\ ScanFits'
      BY <1>1, <1>5, HeadsKept, BasesKept, ScanKept DEF RestackInv
    <2>4. QED
      BY <1>1, <1>5, <2>1, <2>2, <2>3 DEF RestackInv
  <1>6. ASSUME NEW p \in R!Moved(t),
               \/ /\ exec.shas[p][1] = exec.shas[p][2]
                  /\ R!Pass(R!Recorded(t, content[t], content[t])) /\ UNCHANGED content
               \/ /\ exec.shas[p][1] # exec.shas[p][2]
                  /\ R!Rebase(t, exec.shas[p][1], exec.shas[p][2])
        PROVE  RestackInv'
    <2>1. PICK from, to : from = exec.shas[p][1] /\ to = exec.shas[p][2]
      OBVIOUS
    <2>2. from \in R!Commits /\ to \in R!Commits /\ content[t] \in R!Commits
      <3>1. PICK known \in SUBSET Stack : exec.shas \in [known -> R!Commits \X R!Commits]
        BY <1>3 DEF R!Executors
      <3>2. p \in known
        BY <3>1 DEF R!Moved
      <3>3. QED
        BY <1>3, <1>4, <2>1, <3>1, <3>2
    <2>3. PICK new : new = IF from = to THEN content[t] ELSE to \cup (content[t] \ from)
      OBVIOUS
    <2>4. Turns(t, new)
      <3>1. new \in R!Commits
        BY <2>2, <2>3 DEF R!Commits
      <3>2. CASE from = to
        <4>1. new = content[t] /\ content' = [content EXCEPT ![t] = new]
          BY <1>3, <1>6, <2>1, <2>3, <3>2
        <4>2. R!Pass(R!Recorded(t, content[t], content[t]))
          BY <1>6, <2>1, <3>2
        <4>3. QED
          BY <3>1, <4>1, <4>2 DEF Turns
      <3>3. CASE from # to
        <4>1. R!Rebase(t, from, to)
          BY <1>6, <2>1, <3>3
        <4>2. content' = [content EXCEPT ![t] = new] /\ content'[t] = new
          BY <1>3, <1>4, <2>3, <3>3, <4>1 DEF R!Rebase
        <4>3. R!Pass(R!Recorded(t, content[t], new))
          BY <4>1, <4>2 DEF R!Rebase
        <4>4. QED
          BY <3>1, <4>2, <4>3 DEF Turns
      <3>4. QED
        BY <3>2, <3>3
    <2>5. ASSUME NEW old, NEW level, OnLevel(old, level), t \in R!Reachable
          PROVE  new \cap Trunk = level
      <3>1. Own(t) = old /\ bases[exec.op][1] # bases[exec.op][2]
        BY <1>1, <1>2, <2>5, KnownParents
      <3>2. CASE /\ exec.shas[p] = <<bases[exec.op][1], bases[exec.op][2]>>
                 /\ bases[exec.op][2] \cup (old \ bases[exec.op][1]) = level
        <4>1. from = bases[exec.op][1] /\ to = bases[exec.op][2]
          BY <2>1, <3>2
        <4>2. to \subseteq Trunk
          <5>1. exec.op \in R!Requested(wf) /\ BasesFit /\ HeadsFit
            BY <1>1, <1>3 DEF RestackInv, ExecFits
          <5>2. PICK i, j \in DOMAIN heads : bases[exec.op] = <<heads[i], heads[j]>>
            BY <5>1 DEF BasesFit
          <5>3. QED
            BY <4>1, <5>1, <5>2 DEF HeadsFit
        <4>3. new = to \cup (content[t] \ from)
          BY <2>3, <3>1, <4>1
        <4>4. QED
          BY <3>1, <3>2, <4>1, <4>2, <4>3 DEF Own
      <3>3. CASE from \cap Trunk = old /\ to \cap Trunk = level
        BY <2>3, <3>1, <3>3 DEF Own
      <3>4. QED
        BY <1>1, <1>2, <2>1, <2>5, <3>2, <3>3, KnownParents
    <2>6. QED
      BY <1>1, <1>2, <2>4, <2>5, TurnsFit
  <1>7. QED
    BY <1>2, <1>5, <1>6 DEF R!RebaseNext

LEMMA RestackStep ==
  ASSUME RestackInv, [R!Next]_R!vars
  PROVE  /\ RestackInv'
         /\ \A o \in OpIds : R!Completes(o) => exec.todo = << >> \/ broken
  <1>1. ASSUME NEW o \in OpIds, R!Completes(o)
        PROVE  /\ wf.operations[o].status = "running"
               /\ wf'.operations[o].status = "completed" /\ wf'.operations[o] # wf.operations[o]
    BY <1>1 DEF R!Completes
  <1>2. CASE R!Finish
    BY <1>2, FinishFits
  <1>3. CASE \E o \in OpIds : R!Settle(o)
    BY <1>1, <1>3, SettleFits
  <1>4. CASE \E o \in OpIds : R!Ask(o)
    <2>1. PICK o \in OpIds : R!Ask(o)
      BY <1>4
    <2>2. wf'.operations = [wf.operations EXCEPT ![o] = R!RestackOperation(Ancestor, KeyOf[o])]
      BY <2>1 DEF R!Ask, R!RequestRestack, R!NextVersion
    <2>3. \A p \in OpIds : wf'.operations[p] = wf.operations[p] \/ wf'.operations[p].status = "pending"
      BY <2>2 DEF RestackInv, OperationsTyped, R!RestackOperation
    <2>4. QED
      BY <1>1, <2>1, <2>3, AskFits
  <1>5. CASE \E action \in scan : R!Resume(action)
    BY <1>5, ResumeFits DEF R!Resume, R!Completes
  <1>6. CASE R!Advance \/ R!StartScan \/ R!RebaseNext \/ R!RebaseConflicts
    <2>1. wf' = wf
      BY <1>6 DEF R!Advance, R!StartScan, R!RebaseNext, R!RebaseConflicts, R!restacked
    <2>2. QED
      BY <1>1, <1>6, <2>1, AdvanceFits, StartScanFits, RebaseNextFits, RebaseConflictsFits
  <1>7. CASE R!ExecutorFails \/ R!Crash
    <2>1. wf' = wf
      BY <1>7 DEF R!ExecutorFails, R!Crash, R!restacked
    <2>2. QED
      BY <1>1, <1>7, <2>1, FailuresFit
  <1>8. CASE UNCHANGED R!vars
    <2>1. UNCHANGED <<wf, asked, bases, resumed, content, heads, worktrees, scan, exec, broken>>
      BY <1>8 DEF R!vars, R!restacked, R!branches
    <2>2. OperationsTyped(wf') /\ R!Requested(wf') = R!Requested(wf) /\ scan' \subseteq scan
      BY <2>1 DEF RestackInv
    <2>3. QED
      BY <1>1, <2>1, <2>2, OnlyOperationsMove
  <1>9. QED
    BY <1>2, <1>3, <1>4, <1>5, <1>6, <1>7, <1>8 DEF R!Next, R!ScanStep

(* All that can be reached is on the level of the operation that completes. *)
LEMMA CompletedReachesAll ==
  ASSUME RestackInv, [R!Next]_R!vars, NEW o \in OpIds, R!Completes(o), ~broken,
         NEW t \in R!Reachable
  PROVE  bases[o][2] \subseteq content[t]
  <1>1. exec # Unset /\ exec.op = o /\ bases[o][1] # bases[o][2] /\ exec.todo = << >>
    BY RestackStep DEF R!Completes
  <1>2. PICK old, new \in HeadsHad : OnLevel(old, new)
    BY DEF RestackInv, Level
  <1>3. ~Awaits(t)
    BY <1>1 DEF Awaits
  <1>4. Own(t) = new /\ bases[o][2] \cup (old \ bases[o][1]) = new
    BY <1>1, <1>2, <1>3 DEF OnLevel, Carries
  <1>5. QED
    BY <1>4 DEF Own

(* A restack that completes has brought the ancestor's new head into every *)
(* branch that git can reach, whatever the graph and however many restacks *)
(* overlap, if no executor has died half-way or met a conflict             *)
(* (restack-executor.ts:45, recovery-service.ts).                          *)
THEOREM RestackReachesAll == R!Spec => R!UndisturbedRestackReachesAll
  <1>1. RestackInv /\ [R!Next]_R!vars => RestackInv'
    BY RestackStep
  <1>2. RestackInv /\ [R!Next]_R!vars =>
          [\A o \in OpIds : R!Completes(o) /\ ~broken =>
             \A t \in R!Reachable : bases[o][2] \subseteq content[t]]_R!vars
    BY CompletedReachesAll
  <1>3. QED
    BY RestackInit, <1>1, <1>2, PTL DEF R!Spec, R!UndisturbedRestackReachesAll

(* a behaviour that is not about a restack has no executor *)
RestackingOrResting ==
  /\ part = "restack" => RestackInv
  /\ part # "restack" => exec = Unset

LEMMA RestackPart ==
  ASSUME [Next]_all
  PROVE  /\ part' = part
         /\ part = "restack" => [R!Next]_R!vars
         /\ part # "restack" => exec' = exec
  <1>1. CASE Restacks(R!Next)
    BY <1>1 DEF Restacks
  <1>2. CASE Locally(L!Next) \/ OnGithub(G!Next)
    BY <1>2 DEF Locally, OnGithub, LocalParts, GithubParts, restackOnly
  <1>3. CASE UNCHANGED all
    BY <1>3 DEF all, restackOnly, shared, R!vars, R!restacked, R!branches, R!budget
  <1>4. QED
    BY <1>1, <1>2, <1>3 DEF Next

(* The same of the behaviours that TLC explores, whatever they are about.  *)
THEOREM UndisturbedReachesAll == Spec => UndisturbedRestackReachesAll
  <1>1. Init => RestackingOrResting
    BY RestackInit DEF Init, RestackingOrResting, NoRestack
  <1>2. RestackingOrResting /\ [Next]_all => RestackingOrResting'
    BY RestackPart, RestackStep DEF RestackingOrResting
  <1>3. RestackingOrResting /\ [Next]_all =>
          [\A o \in OpIds : R!Completes(o) /\ ~broken =>
             \A t \in R!Reachable : bases[o][2] \subseteq content[t]]_R!vars
    BY RestackPart, CompletedReachesAll DEF RestackingOrResting, R!Completes
  <1>4. QED
    BY <1>1, <1>2, <1>3, PTL DEF Spec, UndisturbedRestackReachesAll, R!UndisturbedRestackReachesAll
=============================================================================
