---------------------------- MODULE ServicesProofs ----------------------------
(***************************************************************************)
(* The engine's modules that share no state, for any number of calls,      *)
(* tasks, events, lines, restarts, failures and subscribers: Worktrees,    *)
(* AgentRun, Supervisor and Services on their own, and the behaviours of   *)
(* MCServices, which are about one of its modules at a time.               *)
(*                                                                         *)
(* The lock of Worktrees keeps operations apart.  The chain of promises is *)
(* in the order of arrival: as long as an older call has the lock or waits *)
(* for it, the call that a younger one waits for does too, and is no older *)
(* (Chained).  So whoever is let in is the oldest (InsideIsOldest), and    *)
(* there is one oldest.  As long as nobody is late the one inside is alone *)
(* with git, and what it has found is still so when it acts on it          *)
(* (TreesFit).                                                             *)
(*                                                                         *)
(* Of the services that follow a workflow none that reads the cursor first *)
(* misses a transition, and no browser is told of what is history (IInv).  *)
(*                                                                         *)
(* A run reads the log of its agent in order (Reading), has noted what the *)
(* lines read so far tell or has it in hand (Fitting), and is over only    *)
(* when the log is read to its end (Drains).                               *)
(*                                                                         *)
(* The supervisor remembers no alert that is not in the store (AlertsFit). *)
(***************************************************************************)
EXTENDS MCServices, TLAPS

Open(c) == Issued(c) /\ ~Released(c)

LockStages == {"new", "wait", "probe", "remove", "prune", "clear", "add", "adding", "seed", "end"}

Answers == {"none", "ok", "error", "timeout"}

Progress == [stage : LockStages, kind : Kinds, task : Tasks \cup {Unset}, waits : Calls \cup {Unset},
             failed : BOOLEAN, answer : Answers, ticket : Nat]

LockType ==
  /\ arrivals \in Nat
  /\ call \in [Calls -> Progress]
  /\ tail \in Calls \cup {Unset}

TicketsDiffer ==
  \A c, d \in Calls : Issued(c) /\ Issued(d) =>
    /\ call[c].ticket < arrivals
    /\ c # d => call[c].ticket # call[d].ticket

TailIsLast ==
  /\ tail = Unset => \A c \in Calls : ~Open(c)
  /\ tail # Unset => /\ Open(tail)
                     /\ \A c \in Calls : Open(c) => call[c].ticket <= call[tail].ticket

Chained ==
  \A c, d \in Calls : Open(c) /\ Open(d) /\ call[d].ticket < call[c].ticket =>
    \E p \in Calls : p = call[c].waits /\ Open(p) /\ call[d].ticket <= call[p].ticket

InsideIsOldest ==
  \A c, d \in Calls : Inside(c) /\ Open(c) /\ Open(d) => call[c].ticket <= call[d].ticket

(* what is over is released, what is not at the lock yet is not *)
EndedIsReleased ==
  \A c \in Calls : (call[c].stage = "end" => Released(c)) /\ (call[c].stage \in {"new", "wait"} => ~Released(c))

LockInv == LockType /\ TicketsDiffer /\ TailIsLast /\ Chained /\ InsideIsOldest /\ EndedIsReleased
-----------------------------------------------------------------------------
(* What a step of an operation does to the lock: nothing, or it opens the  *)
(* gate of its call.                                                       *)
Others(c) == \A d \in Calls \ {c} : call'[d] = call[d]

Same(c) == call'[c].ticket = call[c].ticket /\ call'[c].waits = call[c].waits

Keeps(c) ==
  /\ Inside(c) /\ call'[c].stage \notin {"new", "wait", "end"}
  /\ call'[c].answer = call[c].answer
  /\ Same(c) /\ Others(c)
  /\ tail' = tail /\ arrivals' = arrivals

Frees(c) ==
  /\ Inside(c) /\ call'[c].stage \notin {"new", "wait"}
  /\ call'[c].answer # "none"
  /\ Same(c) /\ Others(c)
  /\ tail' = (IF ~Released(c) /\ tail = c THEN Unset ELSE tail) /\ arrivals' = arrivals

(* Moves keeps the lock as it is. *)
LEMMA MovesKeeps ==
  ASSUME LockType, NEW c \in Calls, Inside(c),
         NEW stage \in LockStages \ {"new", "wait", "end"}, Moves(c, stage), arrivals' = arrivals
  PROVE  Keeps(c) /\ LockType'
BY DEF LockType, Progress, Inside, Moves, Keeps, Same, Others, LockStages

(* Ends opens the gate. *)
LEMMA EndsFrees ==
  ASSUME LockType, NEW c \in Calls, Inside(c),
         NEW answer \in {"ok", "error"}, Ends(c, answer), arrivals' = arrivals
  PROVE  Frees(c) /\ LockType'
<1>1. call[c] \in Progress /\ tail \in Calls \cup {Unset} /\ arrivals \in Nat
  BY DEF LockType
<1>2. PICK a \in Answers \ {"none"} :
        call' = [call EXCEPT ![c] = [call[c] EXCEPT !.stage = "end", !.answer = a]]
  <2>1. CASE call[c].answer = "none"
    BY <1>1, <2>1 DEF Ends, LockType, Progress, Answers
  <2>2. CASE call[c].answer # "none"
    BY <1>1, <2>2 DEF Ends, LockType, Progress, Answers
  <2> QED BY <2>1, <2>2
<1>3. /\ call'[c] = [call[c] EXCEPT !.stage = "end", !.answer = a]
      /\ Others(c)
  BY <1>2 DEF LockType, Others
<1>4. /\ call'[c].stage = "end" /\ call'[c].answer = a
      /\ Same(c) /\ call'[c] \in Progress
  BY <1>1, <1>3 DEF Progress, Same, LockStages, Answers
<1>5. call' \in [Calls -> Progress]
  BY <1>2, <1>3, <1>4 DEF LockType, Others
<1>6. tail' = (IF ~Released(c) /\ tail = c THEN Unset ELSE tail)
  BY DEF Ends, Release
<1>7. Frees(c)
  BY <1>3, <1>4, <1>6 DEF Frees
<1> QED BY <1>1, <1>5, <1>6, <1>7 DEF LockType

(* A timeout opens the gate. *)
LEMMA TimeoutFrees ==
  ASSUME LockType, NEW c \in Calls, Timeout(c)
  PROVE  Frees(c) /\ LockType'
BY DEF LockType, Progress, Inside, Timeout, Release, Released, Frees, Same, Others, LockStages, Answers

(* Every other step of an operation does one or the other. *)
LEMMA OperationStep ==
  ASSUME LockType, NEW c \in Calls,
         Probe(c) \/ Remove(c) \/ Prune(c) \/ Clear(c) \/ Add(c) \/ CheckOut(c) \/ Seed(c)
  PROVE  (Keeps(c) \/ Frees(c)) /\ LockType'
<1>1. Inside(c) /\ arrivals' = arrivals
  BY DEF Probe, Remove, Prune, Clear, Add, CheckOut, Seed, At, Quiet
<1>2. CASE Probe(c)
  BY <1>1, <1>2, MovesKeeps, EndsFrees DEF Probe, LockStages
<1>3. CASE Remove(c)
  <2>1. \/ Moves(c, "prune") \/ Ends(c, "error")
        \/ call' = [call EXCEPT ![c].failed = TRUE, ![c].stage = "clear"] /\ UNCHANGED tail
    BY <1>3 DEF Remove
  <2>2. CASE call' = [call EXCEPT ![c].failed = TRUE, ![c].stage = "clear"] /\ UNCHANGED tail
    <3>1. call[c] \in Progress
      BY DEF LockType
    <3>2. call' = [call EXCEPT ![c] = [call[c] EXCEPT !.failed = TRUE, !.stage = "clear"]]
      BY <2>2, <3>1 DEF LockType, Progress
    <3>3. call'[c] = [call[c] EXCEPT !.failed = TRUE, !.stage = "clear"] /\ Others(c)
      BY <3>2 DEF LockType, Others
    <3>4. /\ call'[c].stage = "clear" /\ call'[c].answer = call[c].answer
          /\ Same(c) /\ call'[c] \in Progress
      BY <3>1, <3>3 DEF Progress, Same, LockStages
    <3>5. call' \in [Calls -> Progress]
      BY <3>2, <3>3, <3>4 DEF LockType, Others
    <3> QED BY <1>1, <2>2, <3>3, <3>4, <3>5 DEF LockType, Keeps
  <2>3. CASE Moves(c, "prune")
    BY <1>1, <2>3, MovesKeeps DEF LockStages
  <2>4. CASE Ends(c, "error")
    BY <1>1, <2>4, EndsFrees
  <2> QED BY <2>1, <2>2, <2>3, <2>4
<1>4. CASE Prune(c)
  BY <1>1, <1>4, MovesKeeps, EndsFrees DEF Prune, LockStages
<1>5. CASE Clear(c)
  BY <1>1, <1>5, MovesKeeps, EndsFrees DEF Clear, LockStages
<1>6. CASE Add(c)
  BY <1>1, <1>6, MovesKeeps, EndsFrees DEF Add, LockStages
<1>7. CASE CheckOut(c)
  BY <1>1, <1>7, MovesKeeps, EndsFrees DEF CheckOut, LockStages
<1>8. CASE Seed(c)
  BY <1>1, <1>8, MovesKeeps, EndsFrees DEF Seed, LockStages
<1> QED BY <1>2, <1>3, <1>4, <1>5, <1>6, <1>7, <1>8

(* A step that leaves the lock alone. *)
LEMMA KeepsInv ==
  ASSUME LockInv, NEW c \in Calls, Keeps(c), LockType'
  PROVE  LockInv'
<1>1. \A d \in Calls : /\ call'[d].ticket = call[d].ticket /\ call'[d].waits = call[d].waits
                       /\ Issued(d)' = Issued(d) /\ Released(d)' = Released(d)
                       /\ Inside(d)' = Inside(d) /\ Open(d)' = Open(d)
                       /\ call'[d].stage = "end" => call[d].stage = "end"
                       /\ call'[d].stage \in {"new", "wait"} => call[d].stage \in {"new", "wait"}
  BY DEF Keeps, Others, Same, Issued, Released, Inside, Open
<1>2. tail' = tail /\ arrivals' = arrivals
  BY DEF Keeps
<1>3. TicketsDiffer'
  BY <1>1, <1>2 DEF LockInv, TicketsDiffer
<1>4. TailIsLast'
  BY <1>1, <1>2 DEF LockInv, TailIsLast, LockType
<1>5. Chained'
  BY <1>1 DEF LockInv, Chained, LockType, Progress
<1>6. InsideIsOldest'
  BY <1>1 DEF LockInv, InsideIsOldest
<1>7. EndedIsReleased'
  BY <1>1 DEF LockInv, EndedIsReleased
<1> QED BY <1>3, <1>4, <1>5, <1>6, <1>7 DEF LockInv

(* The oldest call opens its gate: whoever waits for it is next.  When it  *)
(* is found in the map nobody is left.                                     *)
LEMMA FreesInv ==
  ASSUME Unset \notin Calls, LockInv, NEW c \in Calls, Frees(c), LockType'
  PROVE  LockInv'
<1>1. \A d \in Calls : /\ call'[d].ticket = call[d].ticket /\ call'[d].waits = call[d].waits
                       /\ call[d].ticket \in Nat
                       /\ Issued(d)' = Issued(d)
                       /\ Inside(d)' => Inside(d)
                       /\ Open(d)' = (d # c /\ Open(d))
  BY DEF Frees, Others, Same, Issued, Released, Inside, Open, LockInv, LockType, Progress
<1>2. /\ tail' = (IF ~Released(c) /\ tail = c THEN Unset ELSE tail)
      /\ arrivals' = arrivals
      /\ Issued(c) /\ Inside(c)
  BY DEF Frees, Inside, Issued
<1>3. TicketsDiffer'
  BY <1>1, <1>2 DEF LockInv, TicketsDiffer
<1>4. ASSUME NEW d \in Calls, Open(d), Open(c), d # c
      PROVE  call[c].ticket < call[d].ticket
  BY <1>1, <1>2, <1>4 DEF LockInv, InsideIsOldest, TicketsDiffer, Open
<1>5. TailIsLast'
  <2>1. CASE ~Released(c) /\ tail = c
    <3>1. tail' = Unset
      BY <1>2, <2>1
    <3>2. ASSUME NEW d \in Calls, Open(d), d # c
          PROVE  FALSE
      BY <1>1, <1>2, <1>4, <2>1, <3>2 DEF LockInv, TailIsLast, Open
    <3> QED BY <1>1, <3>1, <3>2 DEF TailIsLast
  <2>2. CASE Released(c)
    BY <1>1, <1>2, <2>2 DEF LockInv, TailIsLast, LockType, Open
  <2>3. CASE tail # c
    BY <1>1, <1>2, <2>3 DEF LockInv, TailIsLast, LockType
  <2> QED BY <2>1, <2>2, <2>3
<1>6. Chained'
  <2>1. SUFFICES ASSUME NEW e \in Calls, NEW d \in Calls, Open(e)', Open(d)',
                        call'[d].ticket < call'[e].ticket
                 PROVE  \E p \in Calls : /\ p = call'[e].waits /\ Open(p)'
                                         /\ call'[d].ticket <= call'[p].ticket
    BY DEF Chained
  <2>2. Open(e) /\ Open(d) /\ d # c /\ call[d].ticket < call[e].ticket
    BY <1>1, <2>1
  <2>3. PICK p \in Calls : p = call[e].waits /\ Open(p) /\ call[d].ticket <= call[p].ticket
    BY <2>2 DEF LockInv, Chained
  <2>4. p # c
    BY <1>1, <1>4, <2>2, <2>3
  <2> QED BY <1>1, <2>3, <2>4
<1>7. InsideIsOldest'
  BY <1>1 DEF LockInv, InsideIsOldest
<1>8. EndedIsReleased'
  BY DEF Frees, Others, Released, LockInv, EndedIsReleased
<1> QED BY <1>3, <1>5, <1>6, <1>7, <1>8 DEF LockInv

(* A call comes to the lock: it is the youngest. *)
LEMMA IssueInv ==
  ASSUME Unset \notin Calls, LockInv, NEW c \in Calls, Issue(c)
  PROVE  LockInv'
<1>1. PICK t \in Tasks, kind \in Kinds :
        call' = [call EXCEPT ![c] = [stage |-> "wait", kind |-> kind, task |-> t, waits |-> tail,
                                     failed |-> FALSE, answer |-> "none", ticket |-> arrivals]]
  BY DEF Issue
<1>2. /\ call'[c] = [stage |-> "wait", kind |-> kind, task |-> t, waits |-> tail,
                     failed |-> FALSE, answer |-> "none", ticket |-> arrivals]
      /\ \A d \in Calls \ {c} : call'[d] = call[d]
  BY <1>1 DEF LockInv, LockType
<1>3. tail' = c /\ arrivals' = arrivals + 1 /\ ~Issued(c) /\ ~Open(c) /\ arrivals \in Nat
  BY DEF Issue, Open, LockInv, LockType
<1>4. LockType'
  BY <1>1, <1>2, <1>3 DEF LockInv, LockType, Progress, LockStages, Answers
<1>5. \A d \in Calls \ {c} : /\ call'[d].ticket = call[d].ticket /\ call'[d].waits = call[d].waits
                             /\ Issued(d)' = Issued(d) /\ Inside(d)' = Inside(d)
                             /\ Open(d)' = Open(d) /\ Released(d)' = Released(d)
                             /\ call[d].ticket \in Nat
                             /\ Open(d) => Issued(d) /\ call[d].ticket < arrivals
  BY <1>2 DEF Issued, Inside, Open, Released, LockInv, TicketsDiffer, LockType, Progress
<1>6. /\ call'[c].ticket = arrivals /\ call'[c].waits = tail
      /\ Issued(c)' /\ Open(c)' /\ ~Inside(c)'
  BY <1>2 DEF Issued, Inside, Open, Released
<1>7. TicketsDiffer'
  BY <1>3, <1>5, <1>6 DEF LockInv, TicketsDiffer
<1>8. TailIsLast'
  BY <1>3, <1>5, <1>6 DEF TailIsLast
<1>9. Chained'
  <2>1. ASSUME NEW d \in Calls, d # c, Open(d)
        PROVE  \E p \in Calls : /\ p = tail /\ p # c /\ Open(p)
                                /\ call[d].ticket <= call[p].ticket
    BY <1>3, <2>1 DEF LockInv, TailIsLast, LockType
  <2>2. ASSUME NEW d \in Calls, NEW e \in Calls, Open(d), Open(e), call[d].ticket < call[e].ticket
        PROVE  \E p \in Calls : /\ p = call[e].waits /\ p # c /\ Open(p)
                                /\ call[d].ticket <= call[p].ticket
    BY <1>3, <2>2 DEF LockInv, Chained
  <2>3. SUFFICES ASSUME NEW e \in Calls, NEW d \in Calls, Open(e)', Open(d)',
                        call'[d].ticket < call'[e].ticket
                 PROVE  \E p \in Calls : /\ p = call'[e].waits /\ Open(p)'
                                         /\ call'[d].ticket <= call'[p].ticket
    BY DEF Chained
  <2>4. d # c
    BY <1>3, <1>5, <1>6, <2>3
  <2>5. CASE e = c
    BY <1>5, <1>6, <2>1, <2>3, <2>4, <2>5
  <2>6. CASE e # c
    BY <1>5, <2>2, <2>3, <2>4, <2>6
  <2> QED BY <2>5, <2>6
<1>10. InsideIsOldest'
  BY <1>3, <1>5, <1>6 DEF LockInv, InsideIsOldest
<1>11. EndedIsReleased'
  BY <1>2, <1>5 DEF LockInv, EndedIsReleased, Released
<1> QED BY <1>4, <1>7, <1>8, <1>9, <1>10, <1>11 DEF LockInv

(* Whoever is let in waited for a call that is over: none is older. *)
LEMMA EnterInv ==
  ASSUME Unset \notin Calls, LockInv, NEW c \in Calls, Enter(c)
  PROVE  LockInv'
<1>1. PICK stage \in {"remove", "probe"} : call' = [call EXCEPT ![c].stage = stage]
  BY DEF Enter
<1>2. /\ call'[c] = [call[c] EXCEPT !.stage = stage]
      /\ \A d \in Calls \ {c} : call'[d] = call[d]
      /\ call[c] \in Progress
  BY <1>1 DEF LockInv, LockType
<1>3. /\ call'[c].stage = stage /\ call'[c] \in Progress
      /\ call'[c].ticket = call[c].ticket /\ call'[c].waits = call[c].waits
      /\ call'[c].answer = call[c].answer
  BY <1>2 DEF Progress, LockStages
<1>4. /\ tail' = tail /\ arrivals' = arrivals /\ call[c].stage = "wait"
      /\ call[c].waits # Unset => Released(call[c].waits)
  BY DEF Enter
<1>5. LockType'
  BY <1>1, <1>2, <1>3, <1>4 DEF LockInv, LockType
<1>6. \A d \in Calls : /\ call'[d].ticket = call[d].ticket /\ call'[d].waits = call[d].waits
                       /\ call[d].ticket \in Nat
                       /\ Issued(d)' = Issued(d) /\ Released(d)' = Released(d)
                       /\ Open(d)' = Open(d)
                       /\ d # c => Inside(d)' = Inside(d)
  BY <1>2, <1>3, <1>4 DEF Issued, Released, Inside, Open, LockInv, LockType, Progress
<1>7. Open(c)
  BY <1>4 DEF LockInv, EndedIsReleased, Open, Issued
<1>8. TicketsDiffer'
  BY <1>4, <1>6 DEF LockInv, TicketsDiffer
<1>9. TailIsLast'
  BY <1>4, <1>6 DEF LockInv, TailIsLast, LockType
<1>10. Chained'
  BY <1>6 DEF LockInv, Chained, LockType, Progress
<1>11. ASSUME NEW d \in Calls, Open(d)
       PROVE  call[c].ticket <= call[d].ticket
  <2>1. SUFFICES ASSUME call[d].ticket < call[c].ticket
                 PROVE  FALSE
    BY <1>6
  <2>2. PICK p \in Calls : p = call[c].waits /\ Open(p)
    BY <1>7, <1>11, <2>1 DEF LockInv, Chained
  <2> QED BY <1>4, <2>2 DEF Open
<1>12. InsideIsOldest'
  BY <1>6, <1>11 DEF LockInv, InsideIsOldest
<1>13. EndedIsReleased'
  BY <1>2, <1>3, <1>6 DEF LockInv, EndedIsReleased
<1> QED BY <1>5, <1>8, <1>9, <1>10, <1>12, <1>13 DEF LockInv

LEMMA LockStarts == Init => LockInv
BY DEF Init, LockInv, LockType, Progress, LockStages, Kinds, Answers, TicketsDiffer, TailIsLast,
       Chained, InsideIsOldest, EndedIsReleased, Open, Issued, Inside, Released

LEMMA LockStepKeepsIt == LockInv /\ [Next]_vars => LockInv'
<1> SUFFICES ASSUME LockInv, [Next]_vars PROVE LockInv'
  OBVIOUS
<1>1. ASSUME NEW c \in Calls, Issue(c)
      PROVE  LockInv'
  BY <1>1, IssueInv, WorktreesAssumption
<1>2. ASSUME NEW c \in Calls, Timeout(c)
      PROVE  LockInv'
  <2>1. Frees(c) /\ LockType'
    BY <1>2, TimeoutFrees DEF LockInv
  <2> QED BY <2>1, FreesInv, WorktreesAssumption
<1>3. ASSUME NEW c \in Calls, Enter(c)
      PROVE  LockInv'
  BY <1>3, EnterInv, WorktreesAssumption
<1>4. ASSUME NEW c \in Calls,
             Probe(c) \/ Remove(c) \/ Prune(c) \/ Clear(c) \/ Add(c) \/ CheckOut(c) \/ Seed(c)
      PROVE  LockInv'
  <2>1. (Keeps(c) \/ Frees(c)) /\ LockType'
    BY <1>4, OperationStep DEF LockInv
  <2> QED BY <2>1, KeepsInv, FreesInv, WorktreesAssumption
<1>5. CASE UNCHANGED vars
  BY <1>5 DEF vars, LockInv, LockType, Progress, TicketsDiffer, TailIsLast, Chained, InsideIsOldest,
              EndedIsReleased, Open, Issued, Inside, Released
<1> QED BY <1>1, <1>2, <1>3, <1>4, <1>5 DEF Next, Step

LEMMA LockExcludes == LockInv => LockIsExclusive
<1> SUFFICES ASSUME LockInv, NEW c \in Calls, NEW d \in Calls, Inside(c), Inside(d), c # d,
                    ~Released(c), ~Released(d)
             PROVE  FALSE
  BY DEF LockIsExclusive, Late
<1>1. Open(c) /\ Open(d)
  BY DEF Open, Issued, Inside
<1>2. call[c].ticket \in Nat /\ call[d].ticket \in Nat
  BY DEF LockInv, LockType, Progress
<1>3. call[c].ticket = call[d].ticket
  BY <1>1, <1>2 DEF LockInv, InsideIsOldest
<1> QED BY <1>1, <1>3 DEF LockInv, TicketsDiffer, Open

(* LockInv is an invariant.                                                *)
THEOREM LockInvariant == Spec => []LockInv
  BY LockStarts, LockStepKeepsIt, PTL DEF Spec

(* The lock keeps the operations on a repository apart, whatever their     *)
(* number, but for those that have overrun their timeout.                  *)
THEOREM LockHolds == Spec => []LockIsExclusive
  BY LockExcludes, LockInvariant, PTL
-----------------------------------------------------------------------------
(* The worktrees, as long as no operation overruns its timeout and git is  *)
(* not killed.  Then whoever is inside is alone, and what is not whole is  *)
(* being checked out by it.                                                *)
TreeType ==
  /\ dir \in [Tasks -> {"absent", "stale", "partial", "whole"}] /\ registered \subseteq Tasks
  /\ \A c \in Calls : Issued(c) => call[c].task \in Tasks

LateIsTimeout == \A c \in Calls : Late(c) => call[c].answer = "timeout"

Undisturbed == ~killed /\ \A c \in Calls : call[c].answer # "timeout"

TreesFit ==
  Undisturbed =>
    /\ \A t \in Tasks : dir[t] = "whole" => t \in registered
    /\ \A t \in Tasks : dir[t] = "partial" => Adding(t)
    /\ \A c \in Calls :
         /\ At(c, "adding") => dir[call[c].task] = "partial" /\ call[c].task \in registered
         /\ At(c, "seed") => dir[call[c].task] = "whole"

TreeInv == LockInv /\ TreeType /\ LateIsTimeout /\ TreesFit

LEMMA InsideIsAlone ==
  ASSUME LockInv, LateIsTimeout, Undisturbed, NEW c \in Calls, NEW d \in Calls, Inside(c), Inside(d)
  PROVE  c = d
  BY LockExcludes DEF LockIsExclusive, LateIsTimeout, Undisturbed, Late

(* what whoever is alone finds, and must leave *)
FitFor(c) ==
  /\ \A t \in Tasks : dir[t] = "whole" => t \in registered
  /\ \A t \in Tasks : dir[t] = "partial" => call[c].stage = "adding" /\ call[c].task = t
  /\ call[c].stage = "adding" => dir[call[c].task] = "partial" /\ call[c].task \in registered
  /\ call[c].stage = "seed" => dir[call[c].task] = "whole"

LEMMA FitWhenAlone ==
  ASSUME TreeInv, Undisturbed, NEW c \in Calls, Inside(c)
  PROVE  FitFor(c) /\ \A d \in Calls \ {c} : ~Inside(d)
  BY InsideIsAlone DEF TreeInv, TreesFit, FitFor, Adding, At

LEMMA StaysFit ==
  ASSUME NEW c \in Calls, FitFor(c)', \A d \in Calls \ {c} : ~Inside(d)'
  PROVE  TreesFit'
  <1>1. \A t \in Tasks : dir'[t] = "partial" => Adding(t)'
    BY DEF FitFor, Adding, At, Inside
  <1>2. QED
    BY <1>1 DEF FitFor, TreesFit, At

(* where an operation goes *)
LEMMA MovesTo ==
  ASSUME LockType, NEW c \in Calls, NEW stage, Moves(c, stage)
  PROVE  /\ call'[c].stage = stage /\ call'[c].task = call[c].task
         /\ call'[c].answer = call[c].answer /\ call'[c].kind = call[c].kind
         /\ Others(c)
  BY DEF LockType, Progress, Moves, Others

LEMMA EndsThere ==
  ASSUME LockType, NEW c \in Calls, NEW answer, Ends(c, answer)
  PROVE  /\ call'[c].stage = "end" /\ call'[c].task = call[c].task
         /\ call'[c].answer = IF Released(c) THEN call[c].answer ELSE answer
         /\ Others(c)
  BY DEF LockType, Progress, Ends, Others, Released

Goes(c) ==
  /\ Inside(c) /\ call'[c].task = call[c].task /\ Others(c)
  /\ \/ call'[c].stage = "end"
     \/ call'[c].answer = call[c].answer /\ call'[c].stage \notin {"new", "wait", "end"}

LEMMA GoesOn ==
  ASSUME TreeInv, NEW c \in Calls, Goes(c), killed => killed',
         dir' \in [Tasks -> {"absent", "stale", "partial", "whole"}], registered' \subseteq Tasks,
         call'[c].stage = "end" /\ Released(c) => call'[c].answer = call[c].answer,
         FitFor(c) /\ Undisturbed /\ Undisturbed' => FitFor(c)'
  PROVE  TreeType' /\ LateIsTimeout' /\ TreesFit'
  <1> USE DEF TreeInv
  <1>1. TreeType'
    BY DEF TreeType, Goes, Others, Issued, Inside
  <1>2. LateIsTimeout'
    BY DEF LateIsTimeout, Late, Inside, Released, Goes, Others
  <1>3. ASSUME Undisturbed' PROVE Undisturbed
    BY <1>3 DEF Undisturbed, Goes, Others, Released, LateIsTimeout, Late
  <1>4. CASE Undisturbed'
    <2>1. FitFor(c) /\ \A d \in Calls \ {c} : ~Inside(d)
      BY <1>3, <1>4, FitWhenAlone DEF Goes
    <2>2. FitFor(c)' /\ \A d \in Calls \ {c} : ~Inside(d)'
      BY <1>3, <1>4, <2>1 DEF Goes, Others, Inside
    <2>3. QED
      BY <1>1, <1>2, <2>2, StaysFit
  <1>5. QED
    BY <1>1, <1>2, <1>4 DEF TreesFit

LEMMA MovesGoes ==
  ASSUME LockType, NEW c \in Calls, Inside(c), NEW stage, stage \notin {"new", "wait", "end"}, Moves(c, stage)
  PROVE  Goes(c) /\ call'[c].stage = stage /\ call'[c].task = call[c].task
  BY MovesTo DEF Goes

LEMMA EndsGoes ==
  ASSUME LockType, NEW c \in Calls, Inside(c), NEW answer, Ends(c, answer)
  PROVE  /\ Goes(c) /\ call'[c].stage = "end" /\ call'[c].task = call[c].task
         /\ Released(c) => call'[c].answer = call[c].answer
         /\ ~Released(c) => call'[c].answer = answer
  BY EndsThere DEF Goes

(* An operation keeps the worktrees in order, and what it gives is whole.  *)
GivesWhole(c) ==
  Undisturbed /\ ~Released(c) /\ call'[c].answer = "ok" /\ ~Cleans(c) =>
    dir'[call[c].task] = "whole" /\ call[c].task \in registered'

TreeStep(c) == TreeType' /\ LateIsTimeout' /\ TreesFit' /\ GivesWhole(c)

LEMMA Operating ==
  ASSUME TreeInv, NEW c \in Calls, NEW stage, At(c, stage)
  PROVE  /\ Inside(c) /\ call[c].stage = stage /\ call[c].task \in Tasks /\ LockType
         /\ dir \in [Tasks -> {"absent", "stale", "partial", "whole"}] /\ registered \subseteq Tasks
         /\ Undisturbed => FitFor(c)
  BY FitWhenAlone DEF At, TreeInv, TreeType, Issued, Inside, LockInv

LEMMA ProbeFits == ASSUME TreeInv, NEW c \in Calls, Probe(c) PROVE TreeStep(c)
  <1>1. /\ Inside(c) /\ call[c].stage = "probe" /\ call[c].task \in Tasks /\ LockType
        /\ dir \in [Tasks -> {"absent", "stale", "partial", "whole"}] /\ registered \subseteq Tasks
        /\ Undisturbed => FitFor(c)
    BY Operating DEF Probe
  <1>2. UNCHANGED <<dir, registered, killed>>
    BY DEF Probe, Untouched, Quiet
  <1>3. CASE \E stage \in {"add", "clear", "remove"} : Moves(c, stage)
    <2>1. PICK stage \in {"add", "clear", "remove"} : Moves(c, stage)
      BY <1>3
    <2>2. Goes(c) /\ call'[c].stage = stage /\ call'[c].task = call[c].task /\ call'[c].answer = call[c].answer
      BY <1>1, <2>1, MovesGoes, MovesTo
    <2>3. FitFor(c) => FitFor(c)'
      BY <1>1, <1>2, <2>2 DEF FitFor
    <2>4. GivesWhole(c)
      BY <2>2 DEF GivesWhole, Released
    <2>5. QED
      BY <1>1, <1>2, <2>2, <2>3, <2>4, GoesOn DEF TreeStep
  <1>4. CASE dir[call[c].task] \notin {"absent", "stale"} /\ Ends(c, "ok")
    <2>1. /\ Goes(c) /\ call'[c].stage = "end" /\ call'[c].task = call[c].task
          /\ Released(c) => call'[c].answer = call[c].answer
      BY <1>1, <1>4, EndsGoes
    <2>2. FitFor(c) => FitFor(c)'
      BY <1>1, <1>2, <2>1 DEF FitFor
    <2>3. GivesWhole(c)
      BY <1>1, <1>2, <1>4 DEF GivesWhole, FitFor
    <2>4. QED
      BY <1>1, <1>2, <2>1, <2>2, <2>3, GoesOn DEF TreeStep
  <1>5. QED
    BY <1>3, <1>4 DEF Probe

LEMMA RemoveFits == ASSUME TreeInv, NEW c \in Calls, Remove(c) PROVE TreeStep(c)
  <1> DEFINE t == call[c].task
  <1>1. /\ Inside(c) /\ call[c].stage = "remove" /\ t \in Tasks /\ LockType
        /\ dir \in [Tasks -> {"absent", "stale", "partial", "whole"}] /\ registered \subseteq Tasks
        /\ Undisturbed => FitFor(c)
    BY Operating DEF Remove
  <1>2. UNCHANGED killed
    BY DEF Remove, Quiet
  <1>3. \/ UNCHANGED <<dir, registered>>
        \/ dir' = [dir EXCEPT ![t] = "absent"] /\ registered' = registered \ {t}
    BY DEF Remove, Gone, Untouched
  <1>4. dir' \in [Tasks -> {"absent", "stale", "partial", "whole"}] /\ registered' \subseteq Tasks
    BY <1>1, <1>3
  <1>5. \/ Moves(c, "prune") \/ Ends(c, "error")
        \/ call' = [call EXCEPT ![c].failed = TRUE, ![c].stage = "clear"] /\ UNCHANGED tail
    BY DEF Remove
  <1>6. /\ Goes(c) /\ call'[c].stage \in {"prune", "clear", "end"} /\ call'[c].task = t
        /\ Released(c) => call'[c].answer = call[c].answer
        /\ ~Released(c) => call'[c].answer # "ok"
    <2>1. CASE Moves(c, "prune")
      BY <1>1, <2>1, MovesGoes, MovesTo DEF Released
    <2>2. CASE Ends(c, "error")
      BY <1>1, <2>2, EndsGoes
    <2>3. CASE call' = [call EXCEPT ![c].failed = TRUE, ![c].stage = "clear"]
      <3>1. call[c] \in Progress
        BY <1>1 DEF LockType
      <3>2. call' = [call EXCEPT ![c] = [call[c] EXCEPT !.failed = TRUE, !.stage = "clear"]]
        BY <1>1, <2>3, <3>1 DEF LockType, Progress
      <3>3. call'[c] = [call[c] EXCEPT !.failed = TRUE, !.stage = "clear"] /\ Others(c)
        BY <1>1, <3>2 DEF LockType, Others
      <3>4. call'[c].stage = "clear" /\ call'[c].answer = call[c].answer /\ call'[c].task = t
        BY <3>1, <3>3 DEF Progress
      <3>5. QED
        BY <1>1, <3>3, <3>4 DEF Goes, Released
    <2>4. QED
      BY <1>5, <2>1, <2>2, <2>3
  <1>7. FitFor(c) => FitFor(c)'
    BY <1>1, <1>3, <1>6 DEF FitFor
  <1>8. GivesWhole(c)
    BY <1>6 DEF GivesWhole
  <1>9. QED
    BY <1>1, <1>2, <1>4, <1>6, <1>7, <1>8, GoesOn DEF TreeStep

LEMMA PruneFits == ASSUME TreeInv, NEW c \in Calls, Prune(c) PROVE TreeStep(c)
  <1>1. /\ Inside(c) /\ call[c].stage = "prune" /\ call[c].task \in Tasks /\ LockType
        /\ dir \in [Tasks -> {"absent", "stale", "partial", "whole"}] /\ registered \subseteq Tasks
        /\ Undisturbed => FitFor(c)
    BY Operating DEF Prune
  <1>2. UNCHANGED <<dir, killed>> /\ registered' \subseteq Tasks
        /\ \A t \in registered : dir[t] \in {"partial", "whole"} => t \in registered'
    BY <1>1 DEF Prune, Quiet, Prunable, Marked
  <1>3. Moves(c, "clear") \/ Ends(c, "error")
    BY DEF Prune
  <1>4. /\ Goes(c) /\ call'[c].stage \in {"clear", "end"} /\ call'[c].task = call[c].task
        /\ Released(c) => call'[c].answer = call[c].answer
        /\ ~Released(c) => call'[c].answer # "ok"
    BY <1>1, <1>3, MovesGoes, MovesTo, EndsGoes DEF Released
  <1>5. FitFor(c) => FitFor(c)'
    BY <1>1, <1>2, <1>4 DEF FitFor
  <1>6. GivesWhole(c)
    BY <1>4 DEF GivesWhole
  <1>7. QED
    BY <1>1, <1>2, <1>4, <1>5, <1>6, GoesOn DEF TreeStep

LEMMA ClearFits == ASSUME TreeInv, NEW c \in Calls, Clear(c) PROVE TreeStep(c)
  <1> DEFINE t == call[c].task
  <1>1. /\ Inside(c) /\ call[c].stage = "clear" /\ t \in Tasks /\ LockType
        /\ dir \in [Tasks -> {"absent", "stale", "partial", "whole"}] /\ registered \subseteq Tasks
        /\ Undisturbed => FitFor(c)
    BY Operating DEF Clear
  <1>2. UNCHANGED <<registered, killed>> /\ (dir' = dir \/ dir' = [dir EXCEPT ![t] = "absent"])
    BY DEF Clear, Quiet, Gone
  <1>3. dir' \in [Tasks -> {"absent", "stale", "partial", "whole"}]
    BY <1>1, <1>2
  <1>4. Moves(c, "add") \/ \E answer \in {"error", "ok"} : Ends(c, answer) /\ (answer = "ok" => Cleans(c))
    BY DEF Clear
  <1>5. /\ Goes(c) /\ call'[c].stage \in {"add", "end"} /\ call'[c].task = t
        /\ Released(c) => call'[c].answer = call[c].answer
        /\ ~Released(c) /\ ~Cleans(c) => call'[c].answer # "ok"
    <2>1. CASE Moves(c, "add")
      BY <1>1, <2>1, MovesGoes, MovesTo DEF Released
    <2>2. ASSUME NEW answer \in {"error", "ok"}, Ends(c, answer), answer = "ok" => Cleans(c)
          PROVE  /\ Goes(c) /\ call'[c].stage \in {"add", "end"} /\ call'[c].task = t
                 /\ Released(c) => call'[c].answer = call[c].answer
                 /\ ~Released(c) /\ ~Cleans(c) => call'[c].answer # "ok"
      BY <1>1, <2>2, EndsGoes
    <2>3. QED
      BY <1>4, <2>1, <2>2
  <1>6. FitFor(c) => FitFor(c)'
    BY <1>1, <1>2, <1>5 DEF FitFor
  <1>7. GivesWhole(c)
    BY <1>5 DEF GivesWhole
  <1>8. QED
    BY <1>1, <1>2, <1>3, <1>5, <1>6, <1>7, GoesOn DEF TreeStep

LEMMA AddFits == ASSUME TreeInv, NEW c \in Calls, Add(c) PROVE TreeStep(c)
  <1> DEFINE t == call[c].task
  <1>1. /\ Inside(c) /\ call[c].stage = "add" /\ t \in Tasks /\ LockType
        /\ dir \in [Tasks -> {"absent", "stale", "partial", "whole"}] /\ registered \subseteq Tasks
        /\ Undisturbed => FitFor(c)
    BY Operating DEF Add
  <1>2. UNCHANGED killed
    BY DEF Add, Quiet
  <1>3. CASE /\ dir' = [dir EXCEPT ![t] = "partial"] /\ registered' = registered \cup {t}
             /\ Moves(c, "adding")
    <2>1. Goes(c) /\ call'[c].stage = "adding" /\ call'[c].task = t /\ call'[c].answer = call[c].answer
      BY <1>1, <1>3, MovesGoes, MovesTo
    <2>2. dir' \in [Tasks -> {"absent", "stale", "partial", "whole"}] /\ registered' \subseteq Tasks
      BY <1>1, <1>3
    <2>3. FitFor(c) => FitFor(c)'
      BY <1>1, <1>3, <2>1 DEF FitFor
    <2>4. GivesWhole(c)
      BY <2>1 DEF GivesWhole, Released
    <2>5. QED
      BY <1>1, <1>2, <2>1, <2>2, <2>3, <2>4, GoesOn DEF TreeStep
  <1>4. CASE Ends(c, "error") /\ UNCHANGED <<dir, registered>>
    <2>1. /\ Goes(c) /\ call'[c].stage = "end" /\ call'[c].task = t
          /\ Released(c) => call'[c].answer = call[c].answer
          /\ ~Released(c) => call'[c].answer # "ok"
      BY <1>1, <1>4, EndsGoes
    <2>2. FitFor(c) => FitFor(c)'
      BY <1>1, <1>4, <2>1 DEF FitFor
    <2>3. GivesWhole(c)
      BY <2>1 DEF GivesWhole
    <2>4. QED
      BY <1>1, <1>2, <1>4, <2>1, <2>2, <2>3, GoesOn DEF TreeStep
  <1>5. QED
    BY <1>3, <1>4 DEF Add, Untouched

LEMMA CheckOutFits == ASSUME TreeInv, NEW c \in Calls, CheckOut(c) PROVE TreeStep(c)
  <1> DEFINE t == call[c].task
  <1>1. /\ Inside(c) /\ call[c].stage = "adding" /\ t \in Tasks /\ LockType
        /\ dir \in [Tasks -> {"absent", "stale", "partial", "whole"}] /\ registered \subseteq Tasks
        /\ Undisturbed => FitFor(c)
    BY Operating DEF CheckOut
  <1>2. CASE dir' = [dir EXCEPT ![t] = "whole"] /\ UNCHANGED <<registered, killed>> /\ Moves(c, "seed")
    <2>1. Goes(c) /\ call'[c].stage = "seed" /\ call'[c].task = t /\ call'[c].answer = call[c].answer
      BY <1>1, <1>2, MovesGoes, MovesTo
    <2>2. dir' \in [Tasks -> {"absent", "stale", "partial", "whole"}]
      BY <1>1, <1>2
    <2>3. FitFor(c) => FitFor(c)'
      BY <1>1, <1>2, <2>1 DEF FitFor
    <2>4. GivesWhole(c)
      BY <2>1 DEF GivesWhole, Released
    <2>5. QED
      BY <1>1, <1>2, <2>1, <2>2, <2>3, <2>4, GoesOn DEF TreeStep
  <1>3. CASE Ends(c, "error") /\ UNCHANGED <<dir, registered>> /\ (killed' \/ (UNCHANGED killed /\ dir[t] # "partial"))
    <2>1. /\ Goes(c) /\ call'[c].stage = "end" /\ call'[c].task = t
          /\ Released(c) => call'[c].answer = call[c].answer
          /\ ~Released(c) => call'[c].answer # "ok"
      BY <1>1, <1>3, EndsGoes
    <2>2. FitFor(c) /\ Undisturbed' => FALSE
      BY <1>1, <1>3 DEF FitFor, Undisturbed
    <2>3. GivesWhole(c)
      BY <2>1 DEF GivesWhole
    <2>4. killed => killed'
      BY <1>3
    <2>5. QED
      BY <1>1, <1>3, <2>1, <2>2, <2>3, <2>4, GoesOn DEF TreeStep
  <1>4. QED
    BY <1>2, <1>3 DEF CheckOut, Untouched

LEMMA SeedFits == ASSUME TreeInv, NEW c \in Calls, Seed(c) PROVE TreeStep(c)
  <1> DEFINE t == call[c].task
  <1>1. /\ Inside(c) /\ call[c].stage = "seed" /\ t \in Tasks /\ LockType
        /\ dir \in [Tasks -> {"absent", "stale", "partial", "whole"}] /\ registered \subseteq Tasks
        /\ Undisturbed => FitFor(c)
    BY Operating DEF Seed
  <1>2. UNCHANGED <<dir, registered, killed>>
    BY DEF Seed, Untouched, Quiet
  <1>3. PICK answer \in {"ok", "error"} : Ends(c, answer)
    BY DEF Seed
  <1>4. /\ Goes(c) /\ call'[c].stage = "end" /\ call'[c].task = t
        /\ Released(c) => call'[c].answer = call[c].answer
    BY <1>1, <1>3, EndsGoes
  <1>5. FitFor(c) => FitFor(c)'
    BY <1>1, <1>2, <1>4 DEF FitFor
  <1>6. GivesWhole(c)
    BY <1>1, <1>2 DEF GivesWhole, FitFor
  <1>7. QED
    BY <1>1, <1>2, <1>4, <1>5, <1>6, GoesOn DEF TreeStep

(* What happens at the lock leaves the worktrees alone.                    *)
LEMMA LockStepFits ==
  ASSUME TreeInv, NEW c \in Calls, Issue(c) \/ Enter(c) \/ Timeout(c)
  PROVE  TreeStep(c) /\ Others(c)
  <1> USE DEF TreeInv
  <1>1. UNCHANGED <<dir, registered, killed>>
    BY DEF Issue, Enter, Timeout
  <1>2. LockType
    BY DEF LockInv
  <1>3. CASE Issue(c)
    <2>1. /\ call'[c].stage = "wait" /\ call'[c].answer = "none" /\ call'[c].task \in Tasks /\ Others(c)
          /\ call[c].stage = "new"
      BY <1>2, <1>3 DEF Issue, Issued, LockType, Others
    <2>2. TreeType' /\ LateIsTimeout'
      BY <1>1, <2>1 DEF TreeType, LateIsTimeout, Late, Inside, Released, Issued, Others
    <2>3. Undisturbed' => Undisturbed
      BY <1>1, <1>2, <2>1 DEF Undisturbed, Others, LockInv, EndedIsReleased, Released
    <2>4. \A d \in Calls, stage \in {"adding", "seed"} :
             (At(d, stage)' <=> At(d, stage)) /\ (At(d, stage) => call'[d] = call[d])
      BY <2>1 DEF At, Inside, Others
    <2>5. TreesFit'
      BY <1>1, <2>3, <2>4 DEF TreesFit, Adding
    <2>6. QED
      BY <2>1, <2>2, <2>5 DEF TreeStep, GivesWhole
  <1>4. CASE Enter(c)
    <2>1. /\ call'[c].stage \in {"remove", "probe"} /\ call'[c].answer = call[c].answer
          /\ call'[c].task = call[c].task /\ Others(c) /\ call[c].stage = "wait"
      BY <1>2, <1>4 DEF Enter, LockType, Progress, Others
    <2>2. ~Released(c)
      BY <2>1 DEF LockInv, EndedIsReleased
    <2>3. TreeType' /\ LateIsTimeout'
      BY <1>1, <2>1, <2>2 DEF TreeType, LateIsTimeout, Late, Inside, Released, Issued, Others
    <2>4. Undisturbed' => Undisturbed
      BY <1>1, <2>1 DEF Undisturbed, Others
    <2>5. \A d \in Calls, stage \in {"adding", "seed"} :
             (At(d, stage)' <=> At(d, stage)) /\ (At(d, stage) => call'[d] = call[d])
      BY <2>1 DEF At, Inside, Others
    <2>6. TreesFit'
      BY <1>1, <2>4, <2>5 DEF TreesFit, Adding
    <2>7. QED
      BY <2>1, <2>2, <2>3, <2>6 DEF TreeStep, GivesWhole, Released
  <1>5. CASE Timeout(c)
    <2>1. /\ call'[c].answer = "timeout" /\ call'[c].stage = call[c].stage
          /\ call'[c].task = call[c].task /\ Others(c)
      BY <1>2, <1>5 DEF Timeout, LockType, Progress, Others
    <2>2. TreeType' /\ LateIsTimeout'
      BY <1>1, <2>1 DEF TreeType, LateIsTimeout, Late, Inside, Released, Issued, Others
    <2>3. TreesFit'
      BY <2>1 DEF TreesFit, Undisturbed
    <2>4. QED
      BY <2>1, <2>2, <2>3 DEF TreeStep, GivesWhole
  <1>6. QED
    BY <1>3, <1>4, <1>5

AllGivesWhole == \A c \in Calls : GivesWhole(c)

LEMMA TreeInvStep == ASSUME TreeInv, [Next]_vars PROVE TreeInv' /\ AllGivesWhole
  <1>1. LockInv'
    BY LockStepKeepsIt DEF TreeInv
  <1>2. ASSUME NEW c \in Calls, Issue(c) \/ Timeout(c) \/ Step(c)
        PROVE  TreeStep(c) /\ Others(c)
    <2>1. CASE Issue(c) \/ Enter(c) \/ Timeout(c)
      BY <2>1, LockStepFits
    <2>2. CASE Probe(c) \/ Remove(c) \/ Prune(c) \/ Clear(c) \/ Add(c) \/ CheckOut(c) \/ Seed(c)
      <3>1. Others(c)
        BY <2>2, OperationStep DEF TreeInv, LockInv, Keeps, Frees
      <3>2. QED
        BY <2>2, <3>1, ProbeFits, RemoveFits, PruneFits, ClearFits, AddFits, CheckOutFits, SeedFits
    <2>3. QED
      BY <1>2, <2>1, <2>2 DEF Step
  <1>3. ASSUME NEW c \in Calls, TreeStep(c), Others(c)
        PROVE  TreeInv' /\ AllGivesWhole
    BY <1>1, <1>3 DEF TreeInv, TreeStep, AllGivesWhole, GivesWhole, Others, Released
  <1>4. CASE UNCHANGED vars
    <2>1. UNCHANGED <<dir, registered, call, killed>>
      BY <1>4 DEF vars
    <2>2. TreeType' /\ LateIsTimeout' /\ TreesFit'
      BY <2>1 DEF TreeInv, TreeType, LateIsTimeout, Late, Inside, Released, Issued, TreesFit, Undisturbed, Adding, At
    <2>3. QED
      BY <1>1, <2>1, <2>2 DEF TreeInv, AllGivesWhole, GivesWhole, Released
  <1>5. QED
    BY <1>2, <1>3, <1>4 DEF Next

LEMMA TreesStart == Init => TreeInv
  <1> SUFFICES ASSUME Init PROVE TreeInv
    OBVIOUS
  <1>1. LockInv
    BY LockStarts
  <1>2. /\ dir \in [Tasks -> {"absent", "stale", "whole"}] /\ registered = {t \in Tasks : dir[t] = "whole"}
        /\ \A c \in Calls : call[c].stage = "new"
    BY DEF Init
  <1>3. TreeType /\ LateIsTimeout /\ TreesFit
    BY <1>2 DEF TreeType, LateIsTimeout, TreesFit, Late, Inside, Issued, At
  <1>4. QED
    BY <1>1, <1>3 DEF TreeInv

(* What a call is given is there, checked out and on git's record, unless  *)
(* an operation has overrun its timeout or git was killed.                 *)
THEOREM WorktreesAreGivenWhole == Spec => GivenWorktreeIsWhole
  <1>1. TreeInv /\ [Next]_vars => TreeInv'
    BY TreeInvStep
  <1>2. TreeInv /\ [Next]_vars =>
          [\A c \in Calls :
             /\ ~Released(c) /\ call'[c].answer = "ok" /\ ~Cleans(c)
             /\ ~killed /\ \A d \in Calls : call[d].answer # "timeout"
             => dir'[call[c].task] = "whole" /\ call[c].task \in registered']_vars
    BY TreeInvStep DEF AllGivesWhole, GivesWhole, Undisturbed
  <1>3. QED
    BY <1>1, <1>2, TreesStart, PTL DEF Spec, GivenWorktreeIsWhole
-----------------------------------------------------------------------------
Stages == {"off", "cursor", "graph", "tailOnly", "tail"}
Values == S!Statuses \cup {"ready", "none", "gone"}

Typed ==
  /\ service \in S!Service /\ log \in Seq(S!Statuses) /\ before \in Nat
  /\ at \in [stage : Stages, cursor : Nat, graph : Values, knows : Values]
  /\ endpoints \subseteq Endpoints
  /\ sending \in [cursor : Nat, to : SUBSET Endpoints]
  /\ pushed \in [Endpoints -> Nat]

(* the places in the log: of the service, of its start, of what was pushed *)
Placed ==
  /\ at.cursor <= Len(log) /\ before <= Len(log)
  /\ \A e \in Endpoints : pushed[e] <= Len(log)
  /\ service = "push" /\ at.stage # "off" =>
       before <= at.cursor /\ \A e \in Endpoints : pushed[e] <= at.cursor

(* a service is in the stages of its own way to attach *)
OwnWay(stage) ==
  /\ stage \in {"cursor", "graph"} => service \notin S!TailOnly
  /\ stage = "tailOnly" => service \in S!TailOnly

(* What is known at the end of the log is the status.  While the scan is   *)
(* to come it is the graph that was read that will be known.               *)
Knowing ==
  service \in S!CursorFirst /\ at.cursor = Len(log) =>
    /\ at.stage = "graph" => at.graph \in {S!Status, "gone"}
    /\ at.stage = "tail" => at.knows = S!Status

(* only the push service sends, and what it sends is news to all it is for *)
Sending ==
  sending # S!Idle =>
    /\ service = "push" /\ at.stage # "off"
    /\ before < sending.cursor /\ sending.cursor <= at.cursor
    /\ \A e \in sending.to : pushed[e] < sending.cursor

IInv == Typed /\ Placed /\ OwnWay(at.stage) /\ Knowing /\ Sending

LEMMA StatusIsValue ==
  ASSUME Typed
  PROVE  S!Status \in Values /\ S!GraphRead \in {S!Status, "gone"} /\ Len(log) \in Nat
  <1>1. log \in Seq(S!Statuses)
    BY DEF Typed
  <1>2. Len(log) \in Nat /\ \A i \in 1..Len(log) : log[i] \in S!Statuses
    BY <1>1
  <1>3. CASE Len(log) = 0
    BY <1>3 DEF S!Status, S!StatusAfter, Values, S!GraphRead
  <1>4. CASE Len(log) # 0
    BY <1>2, <1>4 DEF S!Status, S!StatusAfter, Values, S!GraphRead
  <1>5. QED
    BY <1>2, <1>3, <1>4

LEMMA EntryFields ==
  ASSUME NEW stage, NEW cursor, NEW graph, NEW knows
  PROVE  LET e == S!Entry(stage, cursor, graph, knows)
         IN  e.stage = stage /\ e.cursor = cursor /\ e.graph = graph /\ e.knows = knows
  BY DEF S!Entry

LEMMA ServicesInit == S!Init => IInv
  BY EntryFields
     DEF S!Init, S!Entry, S!Off, S!Idle, IInv, Typed, Placed, OwnWay, Knowing, Sending, Stages, Values, S!CursorFirst

(* What a service does to its entry keeps it, if the place only goes on    *)
(* and what is known at the end of the log is right.                       *)
EntryMoves(entry) ==
  at' = entry /\ UNCHANGED <<service, log, sending, pushed, before>> /\ endpoints' \subseteq Endpoints

LEMMA MoveKeepsIt ==
  ASSUME IInv, NEW st \in Stages, NEW n \in Nat, NEW g \in Values, NEW k \in Values,
         EntryMoves(S!Entry(st, n, g, k)),
         n <= Len(log), OwnWay(st),
         service = "push" /\ st = "off" => sending = S!Idle,
         service = "push" /\ st # "off" =>
           n = Len(log) \/ (at.stage # "off" /\ at.cursor <= n),
         service \in S!CursorFirst /\ n = Len(log) =>
           /\ st = "graph" => g \in {S!Status, "gone"}
           /\ st = "tail" => k = S!Status
  PROVE  IInv'
  <1> USE DEF IInv
  <1> DEFINE e == S!Entry(st, n, g, k)
  <1>1. /\ at' = e /\ e \in [stage : Stages, cursor : Nat, graph : Values, knows : Values]
        /\ e.stage = st /\ e.cursor = n /\ e.graph = g /\ e.knows = k
    BY EntryFields DEF EntryMoves, S!Entry
  <1> HIDE DEF e
  <1>2. Typed'
    BY <1>1 DEF EntryMoves, Typed
  <1>3. Len(log) \in Nat /\ at.cursor \in Nat /\ before \in Nat /\ sending.cursor \in Nat
    BY StatusIsValue DEF Typed
  <1>4. pushed \in [Endpoints -> Nat]
    BY DEF Typed
  <1>5. ASSUME service = "push", st # "off"
        PROVE  before <= n /\ \A f \in Endpoints : pushed[f] <= n
    <2>1. CASE n = Len(log)
      BY <1>3, <2>1 DEF Placed
    <2>2. CASE at.stage # "off" /\ at.cursor <= n
      BY <1>3, <1>4, <1>5, <2>2 DEF Placed
    <2>3. QED
      BY <1>5, <2>1, <2>2
  <1>6. Placed'
    BY <1>1, <1>5 DEF EntryMoves, Placed
  <1>7. Knowing'
    BY <1>1 DEF EntryMoves, Knowing, S!Status, S!StatusAfter
  <1>8. ASSUME sending # S!Idle PROVE st # "off" /\ sending.cursor <= n
    BY <1>3, <1>8 DEF Placed, Sending
  <1>9. Sending'
    BY <1>1, <1>8 DEF EntryMoves, Sending, S!Idle
  <1>10. OwnWay(at.stage)'
    BY <1>1 DEF EntryMoves, OwnWay
  <1>11. QED
    BY <1>2, <1>6, <1>7, <1>9, <1>10

(* The reads of attach() and the scan: a graph that is read where the log  *)
(* has not grown since the cursor was is the status at the cursor.         *)
LEMMA AttachKeepsIt ==
  ASSUME IInv, EntryMoves(S!Attached) PROVE IInv'
  <1> USE DEF IInv
  <1>1. Len(log) \in Nat /\ S!GraphRead \in Values /\ "none" \in Values
    BY StatusIsValue DEF Values
  <1>2. CASE at.stage # "off"
    <2>1. UNCHANGED <<at, service, log, sending, pushed, before>> /\ endpoints' \subseteq Endpoints
      BY <1>2 DEF S!Attached, EntryMoves
    <2>2. QED
      BY <2>1 DEF Typed, Placed, OwnWay, Knowing, Sending, S!Status, S!StatusAfter
  <1>3. CASE at.stage = "off" /\ service \in S!CursorFirst
    <2>1. EntryMoves(S!Entry("cursor", Len(log), "none", "none"))
      BY <1>3 DEF S!Attached, S!CursorFirst, S!GraphFirst, S!TailOnly
    <2>2. QED
      BY <1>1, <1>3, <2>1, MoveKeepsIt DEF Stages, OwnWay, S!CursorFirst, S!TailOnly
  <1>4. CASE at.stage = "off" /\ service \in S!GraphFirst
    <2>1. EntryMoves(S!Entry("graph", 0, S!GraphRead, "none"))
      BY <1>4 DEF S!Attached, S!CursorFirst, S!GraphFirst, S!TailOnly
    <2>2. QED
      BY <1>1, <1>4, <2>1, MoveKeepsIt DEF Stages, OwnWay, S!CursorFirst, S!GraphFirst, S!TailOnly
  <1>5. CASE at.stage = "off" /\ service \in S!TailOnly
    <2>1. EntryMoves(S!Entry("tailOnly", Len(log), "none", "none"))
      BY <1>5 DEF S!Attached, S!CursorFirst, S!GraphFirst, S!TailOnly
    <2>2. QED
      BY <1>1, <1>5, <2>1, MoveKeepsIt DEF Stages, OwnWay
  <1>6. QED
    BY <1>2, <1>3, <1>4, <1>5 DEF Typed, S!Service

LEMMA ReadGraphKeepsIt == ASSUME IInv, S!ReadGraph PROVE IInv'
  <1> USE DEF IInv
  <1>1. S!GraphRead \in Values /\ S!GraphRead \in {S!Status, "gone"} /\ "none" \in Values
    BY StatusIsValue DEF Values
  <1>2. at.cursor \in Nat /\ at.cursor <= Len(log)
    BY DEF Typed, Placed
  <1>3. EntryMoves(S!Entry("graph", at.cursor, S!GraphRead, "none"))
    BY DEF S!ReadGraph, EntryMoves, Typed
  <1>4. QED
    BY <1>1, <1>2, <1>3, MoveKeepsIt DEF S!ReadGraph, Stages, OwnWay

LEMMA ScanKeepsIt == ASSUME IInv, S!Scan PROVE IInv'
  <1> USE DEF IInv
  <1> DEFINE n == IF service \in S!CursorFirst THEN at.cursor ELSE Len(log)
  <1>1. /\ Len(log) \in Nat /\ at.cursor \in Nat /\ at.cursor <= Len(log)
        /\ "none" \in Values /\ at.graph \in Values
    BY StatusIsValue DEF Typed, Placed, Values
  <1>2. CASE at.graph = "gone"
    <2>1. EntryMoves(S!Entry("off", 0, "none", "none"))
      BY <1>2 DEF S!Scan, S!Scanned, S!Off, EntryMoves, Typed
    <2>2. service # "push"
      BY DEF S!Scan, OwnWay, S!TailOnly
    <2>3. QED
      BY <1>1, <2>1, <2>2, MoveKeepsIt DEF Stages, OwnWay
  <1>3. CASE at.graph # "gone"
    <2>1. EntryMoves(S!Entry("tail", n, "none", at.graph))
      BY <1>3 DEF S!Scan, S!Scanned, EntryMoves, Typed
    <2>2. n \in Nat /\ n <= Len(log) /\ at.cursor <= n
      BY <1>1
    <2>3. service \in S!CursorFirst /\ n = Len(log) => at.graph = S!Status
      BY <1>3 DEF S!Scan, Knowing
    <2>4. QED
      BY <1>1, <2>1, <2>2, <2>3, MoveKeepsIt DEF S!Scan, Stages, OwnWay
  <1>4. QED
    BY <1>2, <1>3

LEMMA SubscribeKeepsIt == ASSUME IInv, S!Subscribe PROVE IInv'
  <1> USE DEF IInv
  <1>1. at.cursor \in Nat /\ at.cursor <= Len(log) /\ "none" \in Values
    BY DEF Typed, Placed, Values
  <1>2. service \notin S!CursorFirst
    BY DEF S!Subscribe, OwnWay, S!TailOnly, S!CursorFirst
  <1>3. EntryMoves(S!Entry("tail", at.cursor, "none", "none"))
    BY DEF S!Subscribe, EntryMoves, Typed
  <1>4. QED
    BY <1>1, <1>2, <1>3, MoveKeepsIt DEF S!Subscribe, Stages, OwnWay

(* What the push service sends is later than all it has read before, which *)
(* is later than all it has pushed.                                        *)
LEMMA ConsumeKeepsIt == ASSUME IInv, S!Consume PROVE IInv'
  <1> USE DEF IInv
  <1> DEFINE n == at.cursor + 1
             e == S!Entry("tail", n, "none", log[n])
  <1>1. at.stage = "tail" /\ at.cursor \in Nat /\ Len(log) \in Nat /\ n \in 1..Len(log)
    BY StatusIsValue DEF S!Consume, Typed
  <1>2. log[n] \in S!Statuses
    <2>1. log \in Seq(S!Statuses)
      BY DEF Typed
    <2>2. QED
      BY <1>1, <2>1
  <1>3. /\ at' = e /\ e \in [stage : Stages, cursor : Nat, graph : Values, knows : Values]
        /\ e.stage = "tail" /\ e.cursor = n /\ e.knows = log[n]
    BY <1>1, <1>2, EntryFields DEF S!Consume, S!Entry, Stages, Values
  <1> HIDE DEF e
  <1>4. UNCHANGED <<service, log, endpoints, pushed, before>>
    BY DEF S!Consume
  <1>5. \/ sending' = sending
        \/ service = "push" /\ sending' = [cursor |-> n, to |-> endpoints]
    BY DEF S!Consume
  <1>6. Typed'
    BY <1>1, <1>3, <1>4, <1>5 DEF Typed
  <1>7. before \in Nat /\ sending.cursor \in Nat /\ pushed \in [Endpoints -> Nat]
    BY DEF Typed
  <1>8. Placed'
    BY <1>1, <1>3, <1>4, <1>7 DEF Placed
  <1>9. OwnWay(at.stage)'
    BY <1>3 DEF OwnWay
  <1>10. Knowing'
    BY <1>1, <1>3, <1>4 DEF Knowing, S!Status, S!StatusAfter
  <1>11. Sending'
    <2>1. CASE sending' = sending
      BY <1>1, <1>3, <1>4, <1>7, <2>1 DEF Sending, S!Idle
    <2>2. CASE service = "push" /\ sending' = [cursor |-> n, to |-> endpoints]
      <3>1. before < n /\ \A f \in Endpoints : pushed[f] < n
        BY <1>1, <1>7, <2>2 DEF Placed
      <3>2. sending'.cursor = n /\ sending'.to = endpoints /\ endpoints \subseteq Endpoints
        BY <2>2 DEF Typed
      <3>3. QED
        BY <1>1, <1>3, <1>4, <2>2, <3>1, <3>2 DEF Sending, S!Idle
    <2>3. QED
      BY <1>5, <2>1, <2>2
  <1>12. QED
    BY <1>6, <1>8, <1>9, <1>10, <1>11

LEMMA ConsumeFailsKeepsIt == ASSUME IInv, S!ConsumeFails PROVE IInv'
  <1> USE DEF IInv
  <1>1. EntryMoves(S!Entry("off", 0, "none", "none"))
    BY DEF S!ConsumeFails, EntryMoves, S!Off, Typed
  <1>2. service = "push" => sending = S!Idle
    BY DEF S!ConsumeFails, S!Busy
  <1>3. QED
    BY <1>1, <1>2, StatusIsValue, MoveKeepsIt DEF Stages, Values, OwnWay

LEMMA TrySendKeepsIt ==
  ASSUME IInv, NEW e \in Endpoints, S!TrySend(e)
  PROVE  IInv' /\ (pushed' # pushed => /\ pushed' = [pushed EXCEPT ![e] = sending.cursor]
                                      /\ pushed[e] < sending.cursor /\ before < sending.cursor)
  <1> USE DEF IInv
  <1>1. e \in sending.to /\ sending # S!Idle
    BY DEF S!TrySend, S!Idle
  <1>2. /\ service = "push" /\ at.stage # "off"
        /\ before < sending.cursor /\ sending.cursor <= at.cursor
        /\ \A f \in sending.to : pushed[f] < sending.cursor
    BY <1>1 DEF Sending
  <1>3. UNCHANGED <<service, log, at, before>>
    BY DEF S!TrySend
  <1>4. \/ pushed' = pushed
        \/ pushed' = [pushed EXCEPT ![e] = sending.cursor]
    BY DEF S!TrySend
  <1>5. endpoints' \subseteq Endpoints
    BY DEF S!TrySend, Typed
  <1>6. \/ sending' = S!Idle
        \/ sending' = [cursor |-> sending.cursor, to |-> sending.to \ {e}]
    BY DEF S!TrySend
  <1>7. /\ sending.cursor \in Nat /\ sending.to \subseteq Endpoints
        /\ before \in Nat /\ at.cursor \in Nat /\ Len(log) \in Nat
        /\ pushed \in [Endpoints -> Nat]
    BY StatusIsValue DEF Typed
  <1>8. sending' \in [cursor : Nat, to : SUBSET Endpoints]
    BY <1>6, <1>7 DEF S!Idle
  <1>9. pushed' \in [Endpoints -> Nat]
    BY <1>4, <1>7
  <1>10. Typed'
    BY <1>3, <1>5, <1>8, <1>9 DEF Typed
  <1>11. \A f \in Endpoints : pushed'[f] <= at.cursor
    BY <1>2, <1>4, <1>7 DEF Placed
  <1>12. Placed'
    BY <1>2, <1>3, <1>7, <1>9, <1>11 DEF Placed
  <1>13. OwnWay(at.stage)' /\ Knowing'
    BY <1>3 DEF OwnWay, Knowing, S!Status, S!StatusAfter
  <1>14. Sending'
    <2>1. CASE sending' = S!Idle
      BY <2>1 DEF Sending, S!Idle
    <2>2. CASE sending' = [cursor |-> sending.cursor, to |-> sending.to \ {e}]
      <3>1. sending'.cursor = sending.cursor /\ sending'.to = sending.to \ {e}
        BY <2>2
      <3>2. \A f \in sending'.to : pushed'[f] < sending.cursor
        BY <1>2, <1>4, <1>7, <3>1
      <3>3. QED
        BY <1>2, <1>3, <3>1, <3>2 DEF Sending
    <2>3. QED
      BY <1>6, <2>1, <2>2
  <1>15. QED
    BY <1>1, <1>2, <1>4, <1>10, <1>12, <1>13, <1>14

(* the log grows: what was known at its end is known before its end *)
LEMMA TransitionKeepsIt ==
  ASSUME IInv, NEW to \in S!Statuses, S!Transition(to) PROVE IInv'
  <1> USE DEF IInv
  <1>1. log \in Seq(S!Statuses) /\ log' = Append(log, to)
    BY DEF Typed, S!Transition
  <1>2. log' \in Seq(S!Statuses) /\ Len(log') = Len(log) + 1 /\ Len(log) \in Nat
    BY <1>1
  <1>3. UNCHANGED <<service, at, endpoints, sending, pushed, before>>
    BY DEF S!Transition
  <1>4. Typed'
    BY <1>2, <1>3 DEF Typed
  <1>5. at.cursor \in Nat /\ before \in Nat /\ pushed \in [Endpoints -> Nat]
    BY DEF Typed
  <1>6. Placed'
    BY <1>2, <1>3, <1>5 DEF Placed
  <1>7. OwnWay(at.stage)' /\ Sending'
    BY <1>3 DEF OwnWay, Sending, S!Idle
  <1>8. at'.cursor # Len(log')
    BY <1>2, <1>3, <1>5 DEF Placed
  <1>9. Knowing'
    BY <1>8 DEF Knowing
  <1>10. QED
    BY <1>4, <1>6, <1>7, <1>9

LEMMA RestartKeepsIt == ASSUME IInv, S!Restart PROVE IInv'
  <1> USE DEF IInv
  <1>1. UNCHANGED <<service, log, endpoints, pushed>> /\ before' = Len(log)
    BY DEF S!Restart
  <1>2. sending' = [cursor |-> 0, to |-> {}] /\ sending' = S!Idle'
    BY DEF S!Restart, S!Idle
  <1>3. /\ at' \in [stage : Stages, cursor : Nat, graph : Values, knows : Values]
        /\ at'.stage = "off" /\ at'.cursor = 0
    BY EntryFields DEF S!Restart, S!Off, S!Entry, Stages, Values
  <1>4. Len(log) \in Nat /\ Typed'
    BY <1>1, <1>2, <1>3, StatusIsValue DEF Typed
  <1>5. Placed'
    BY <1>1, <1>3, <1>4 DEF Placed
  <1>6. OwnWay(at.stage)' /\ Knowing' /\ Sending'
    BY <1>2, <1>3 DEF OwnWay, Knowing, Sending
  <1>7. QED
    BY <1>4, <1>5, <1>6

(* what leaves the log, the entry and what is pushed alone *)
LEMMA OthersKeepIt ==
  ASSUME IInv, UNCHANGED <<service, log, at, sending, pushed, before>>,
         endpoints' \subseteq Endpoints
  PROVE  IInv'
  BY DEF IInv, Typed, Placed, OwnWay, Knowing, Sending, S!Status, S!StatusAfter, S!Idle

LEMMA MayAttachKeepsIt ==
  ASSUME IInv, at' = S!Attached \/ at' = at,
         UNCHANGED <<service, log, sending, pushed, before>>, endpoints' \subseteq Endpoints
  PROVE  IInv'
  <1>1. CASE at' = S!Attached
    BY <1>1, AttachKeepsIt DEF EntryMoves
  <1>2. CASE at' = at
    BY <1>2, OthersKeepIt
  <1>3. QED
    BY <1>1, <1>2

(* Only a send changes what is pushed, and what it pushes is news. *)
IsNews ==
  \A e \in Endpoints :
    pushed'[e] # pushed[e] => pushed'[e] > pushed[e] /\ pushed'[e] > before

LEMMA StepKeepsIt == ASSUME IInv, [S!Next]_S!vars PROVE IInv' /\ IsNews
  <1> SUFFICES ASSUME IInv, [S!Next]_S!vars PROVE IInv' /\ IsNews
    OBVIOUS
  <1>0. endpoints \subseteq Endpoints
    BY DEF IInv, Typed
  <1>1. CASE S!ServiceStep
    <2>1. pushed' = pushed
      BY <1>1 DEF S!ServiceStep, S!ReadGraph, S!Scan, S!Subscribe, S!Consume
    <2>2. QED
      BY <1>1, <2>1, ReadGraphKeepsIt, ScanKeepsIt, SubscribeKeepsIt, ConsumeKeepsIt
         DEF S!ServiceStep, IsNews
  <1>2. CASE S!ConsumeFails
    <2>1. pushed' = pushed
      BY <1>2 DEF S!ConsumeFails
    <2>2. QED
      BY <1>2, <2>1, ConsumeFailsKeepsIt DEF IsNews
  <1>3. ASSUME NEW e \in Endpoints, S!TrySend(e) PROVE IInv' /\ IsNews
    <2>1. pushed \in [Endpoints -> Nat] /\ sending.cursor \in Nat /\ before \in Nat
      BY DEF IInv, Typed
    <2>2. QED
      BY <1>3, <2>1, TrySendKeepsIt DEF IsNews
  <1>4. ASSUME NEW e \in Endpoints, S!PushSubscribe(e) PROVE IInv' /\ IsNews
    <2>1. /\ at' = S!Attached \/ at' = at
          /\ UNCHANGED <<service, log, sending, pushed, before>>
          /\ endpoints' \subseteq Endpoints
      BY <1>0, <1>4 DEF S!PushSubscribe
    <2>2. QED
      BY <2>1, MayAttachKeepsIt DEF IsNews
  <1>5. ASSUME NEW e \in Endpoints, S!PushUnsubscribe(e) PROVE IInv' /\ IsNews
    <2>1. /\ UNCHANGED <<service, log, at, sending, pushed, before>>
          /\ endpoints' \subseteq Endpoints
      BY <1>0, <1>5 DEF S!PushUnsubscribe
    <2>2. QED
      BY <2>1, OthersKeepIt DEF IsNews
  <1>6. ASSUME NEW to \in S!Statuses, S!Transition(to) PROVE IInv' /\ IsNews
    <2>1. pushed' = pushed
      BY <1>6 DEF S!Transition
    <2>2. QED
      BY <1>6, <2>1, TransitionKeepsIt DEF IsNews
  <1>7. CASE S!PostWorkflow
    <2>1. at' = S!Attached /\ UNCHANGED <<service, log, endpoints, sending, pushed, before>>
      BY <1>7 DEF S!PostWorkflow
    <2>2. QED
      BY <1>0, <2>1, MayAttachKeepsIt DEF IsNews
  <1>8. CASE S!DeleteWorkflow
    <2>1. UNCHANGED <<service, log, at, endpoints, sending, pushed, before>>
      BY <1>8 DEF S!DeleteWorkflow
    <2>2. QED
      BY <1>0, <2>1, OthersKeepIt DEF IsNews
  <1>9. CASE S!Restart
    <2>1. pushed' = pushed
      BY <1>9 DEF S!Restart
    <2>2. QED
      BY <1>9, <2>1, RestartKeepsIt DEF IsNews
  <1>10. CASE S!BootAttach
    <2>1. /\ at' = S!Attached \/ at' = at
          /\ UNCHANGED <<service, log, endpoints, sending, pushed, before>>
      BY <1>10 DEF S!BootAttach
    <2>2. QED
      BY <1>0, <2>1, MayAttachKeepsIt DEF IsNews
  <1>11. CASE UNCHANGED S!vars
    <2>1. UNCHANGED <<service, log, at, endpoints, sending, pushed, before>>
      BY <1>11 DEF S!vars
    <2>2. QED
      BY <1>0, <2>1, OthersKeepIt DEF IsNews
  <1>12. QED
    BY <1>1, <1>2, <1>3, <1>4, <1>5, <1>6, <1>7, <1>8, <1>9, <1>10, <1>11 DEF S!Next

LEMMA ServicesKeepIt == S!Spec => []IInv
  <1>1. IInv /\ [S!Next]_S!vars => IInv'
    BY StepKeepsIt
  <1>2. QED
    BY ServicesInit, <1>1, PTL DEF S!Spec

(* Between its look at the graph and its place in the log none of the      *)
(* services that read the cursor first misses a transition: attach() of    *)
(* scheduler-service, quality-gate-service and completion-dispatcher.      *)
THEOREM NothingIsMissed == S!Spec => []S!ScanMeetsTail
  <1>1. IInv => S!ScanMeetsTail
    BY DEF IInv, Knowing, S!ScanMeetsTail
  <1>2. QED
    BY <1>1, ServicesKeepIt, PTL

(* The push service tells a browser of no event from before the engine was *)
(* started, of none twice, and of none after a later one, however often    *)
(* the hub breaks off, the engine restarts or a browser comes and goes.    *)
THEOREM OnlyNewsIsPushed == S!Spec => S!HistoryIsNotPushed
  <1>1. IInv /\ [S!Next]_S!vars =>
          [\A e \in Endpoints :
             pushed'[e] # pushed[e] => pushed'[e] > pushed[e] /\ pushed'[e] > before]_S!vars
    BY StepKeepsIt DEF IsNews
  <1>2. QED
    BY <1>1, ServicesKeepIt, PTL DEF S!Spec, S!HistoryIsNotPushed
-----------------------------------------------------------------------------
(* What parseFrame() makes of a line: few sequences of events, and what is *)
(* left of one of them as its events are handled.                          *)
EventKinds == {"usage", "final", "text", "tool_call", "tool_result", "fatal", "stall", "retry"}

Frames ==
  {<< >>, <<"retry">>, <<"text">>, <<"tool_call">>, <<"tool_result">>, <<"fatal">>, <<"final">>,
   <<"text", "tool_call">>, <<"usage", "final">>, <<"fatal", "final">>,
   <<"stall", "usage", "final">>, <<"fatal", "usage", "final">>}

In(event, frame) == \E i \in 1..Len(frame) : frame[i] = event

LEMMA FrameRest ==
  ASSUME NEW frame \in Frames, frame # << >>
  PROVE  /\ Head(frame) \in EventKinds /\ Tail(frame) \in Frames
         /\ \A event \in EventKinds : In(event, frame) <=> event = Head(frame) \/ In(event, Tail(frame))
         /\ Head(frame) = "final" => Tail(frame) = << >>
  <1>1. CASE frame = <<"text", "tool_call">>
    BY <1>1 DEF Frames, EventKinds, In
  <1>2. CASE frame = <<"usage", "final">>
    BY <1>2 DEF Frames, EventKinds, In
  <1>3. CASE frame = <<"fatal", "final">>
    BY <1>3 DEF Frames, EventKinds, In
  <1>4. CASE frame = <<"stall", "usage", "final">>
    BY <1>4 DEF Frames, EventKinds, In
  <1>5. CASE frame = <<"fatal", "usage", "final">>
    BY <1>5 DEF Frames, EventKinds, In
  <1>6. ASSUME NEW event \in EventKinds, frame = <<event>>
        PROVE  Head(frame) = event /\ Tail(frame) = << >> /\ \A e \in EventKinds : In(e, frame) <=> e = event
    BY <1>6 DEF In
  <1>7. \A e \in EventKinds : ~In(e, << >>)
    BY DEF In
  <1>8. CASE \E event \in EventKinds : frame = <<event>>
    BY <1>6, <1>7, <1>8 DEF Frames
  <1>9. QED
    BY <1>1, <1>2, <1>3, <1>4, <1>5, <1>8 DEF Frames, EventKinds

(* What a line tells is among its events: a final if it closes the turn, a *)
(* fatal if it tells a failure, a stall if it tells a broken connection.   *)
Tells(frame, line) ==
  /\ frame \in Frames
  /\ In("final", frame) <=> line \in A!Closing
  /\ In("fatal", frame) <=> line \in A!Failing
  /\ In("stall", frame) <=> line \in A!Stalling

LEMMA ClaudeTells ==
  ASSUME NEW line \in A!LineTypes("claude-code") PROVE Tells(A!ClaudeFrame(line), line)
  BY DEF A!LineTypes, A!ClaudeFrame, Tells, Frames, In, A!Closing, A!Failing, A!Stalling

LEMMA CodexTells ==
  ASSUME NEW line \in A!LineTypes("codex") PROVE Tells(A!CodexFrame(line), line)
  BY DEF A!LineTypes, A!CodexFrame, Tells, Frames, In, A!Closing, A!Failing, A!Stalling

LEMMA PiTells ==
  ASSUME NEW line \in A!LineTypes("pi") PROVE Tells(A!PiFrame(line), line)
  BY DEF A!LineTypes, A!PiFrame, Tells, Frames, In, A!Closing, A!Failing, A!Stalling

LEMMA FrameTells ==
  ASSUME NEW provider \in A!Agents, NEW line \in A!LineTypes(provider), NEW before1 \in BOOLEAN
  PROVE  Tells(A!parseFrame(provider, line, before1), line)
  <1>1. CASE A!Names(provider, line) /\ before1
    BY <1>1 DEF A!parseFrame, A!Names, Tells, Frames, In, A!Closing, A!Failing, A!Stalling
  <1>2. CASE ~(A!Names(provider, line) /\ before1)
    BY <1>2, ClaudeTells, CodexTells, PiTells DEF A!parseFrame, A!Agents
  <1>3. QED
    BY <1>1, <1>2

-----------------------------------------------------------------------------
ReadStages == {"follow", "drain", "sentinel", "last"}
LiveStages == ReadStages \cup {"chunk", "ending"}
RunStages  == LiveStages \cup {"off", "name", "save", "decide", "exit"}

RunRecord ==
  [stage : RunStages, offset : Nat, got : BOOLEAN, todo : Seq(Nat), last : BOOLEAN,
   first : Nat, seen : Nat, events : Frames, session : BOOLEAN,
   fatal : BOOLEAN, stall : BOOLEAN, final : BOOLEAN, caught : BOOLEAN,
   outcome : {"none", "completed", "recovered", "interrupted"},
   idle : {"off", "stopping", "stopped"}, terminated : BOOLEAN, aborted : BOOLEAN, failed : BOOLEAN]

AgentTyped ==
  /\ script.provider \in A!Agents /\ script.lines \in Seq(A!LineTypes(script.provider))
  /\ wrote \in Nat /\ logged \in Nat /\ saved \in Nat
  /\ run \in RunRecord

(* nothing more will come into the log *)
Complete == ~piped /\ logged = wrote

LogGrows ==
  /\ saved <= logged /\ logged <= wrote /\ wrote <= 2 * Len(script.lines)
  /\ sentinel => Complete

(* the lines up to an offset, of those that attach() gives *)
UpTo(first, offset) == IF offset \div 2 < first THEN first ELSE offset \div 2

(* what is still to be parsed of a chunk goes on from the last line parsed *)
Reading ==
  /\ run.offset <= logged
  /\ \A i \in 1..Len(run.todo) : run.todo[i] = run.seen + i
  /\ run.stage \in ReadStages \cup {"ending"} => run.todo = << >>
  /\ run.stage \in LiveStages =>
       run.first <= run.seen /\ run.seen + Len(run.todo) = UpTo(run.first, run.offset)
  /\ engine = "down" => run.stage = "off" /\ run.todo = << >>

Phases ==
  /\ run.stage \in ReadStages \cup {"ending"} => run.events = << >>
  /\ run.stage \in LiveStages => ~run.final /\ ~run.caught
  /\ run.stage = "name" => run.final /\ ~run.caught
  /\ run.stage = "save" => ~run.final
  /\ run.stage \in ReadStages => ~run.last

(* after the sentinel the log is complete, after the last chunk it is read *)
Drains ==
  ~run.failed =>
    /\ run.stage = "last" => Complete
    /\ run.stage = "ending" \/ (run.stage = "chunk" /\ run.last) => Complete /\ run.offset = logged

Some(kind) == \E l \in 1..run.seen : script.lines[l] \in kind

(* the last line parsed is the first that closes the turn *)
TurnEnds ==
  /\ 1 <= run.seen /\ 2 * run.seen <= logged /\ script.lines[run.seen] \in A!Closing
  /\ \A l \in 1..(run.seen - 1) : script.lines[l] \notin A!Closing

(* what the lines have told is noted, or is among the events in hand *)
Counted ==
  run.stage \in LiveStages =>
    /\ Some(A!Failing) <=> run.fatal \/ In("fatal", run.events)
    /\ Some(A!Stalling) <=> run.stall \/ In("stall", run.events)
    /\ IF In("final", run.events) THEN TurnEnds ELSE ~Some(A!Closing)

AsTold == IF Some(A!Failing) THEN "interrupted" ELSE IF Some(A!Stalling) THEN "recovered" ELSE "completed"

(* the outcome that run() has made of it *)
Concluded ==
  /\ run.stage \in {"name", "decide"} /\ run.final /\ ~run.caught => TurnEnds /\ run.outcome = AsTold
  /\ run.stage \in {"save", "decide"} /\ ~run.failed =>
       /\ run.caught => run.outcome = "recovered" /\ run.idle # "off"
       /\ ~run.caught /\ ~run.final =>
            /\ run.outcome = "interrupted" /\ Complete /\ run.seen = A!Lines
            /\ ~Some(A!Closing)

Fitting == ~resumed => run.first = 0 /\ Counted /\ Concluded

AInv == AgentTyped /\ LogGrows /\ Reading /\ Phases /\ Drains /\ Fitting

LEMMA Halves ==
  ASSUME NEW m \in Nat, NEW n \in Nat
  PROVE  /\ m \div 2 \in Nat /\ (m <= n => m \div 2 <= n \div 2)
         /\ (m <= 2 * n => m \div 2 <= n) /\ 2 * (m \div 2) <= m
         /\ (2 * m <= n <=> m <= n \div 2)
         /\ m \div 2 <= (m + 1) \div 2 /\ (m + 1) \div 2 \in Nat
  OBVIOUS

(* What the lines up to the last parsed have told is told of them for good. *)
LEMMA SameLines ==
  ASSUME UNCHANGED script, run'.seen = run.seen, logged \in Nat, logged' \in Nat, logged <= logged', run.seen \in Nat
  PROVE  /\ \A kind : Some(kind)' <=> Some(kind)
         /\ TurnEnds => TurnEnds'
         /\ AsTold' = AsTold
  <1>1. \A kind : (\E l \in 1..run'.seen : script'.lines[l] \in kind) <=> Some(kind)
    BY DEF Some
  <1>2. Some(A!Failing)' <=> Some(A!Failing)
    BY DEF Some, A!Failing
  <1>3. QED
    BY DEF Some, TurnEnds, AsTold, A!Failing, A!Stalling, A!Closing

-----------------------------------------------------------------------------
Places(r) == <<r.offset, r.todo, r.seen, r.first>>
Tallies(r) == <<r.events, r.fatal, r.stall, r.final, r.caught, r.outcome>>

LogsStay ==
  /\ UNCHANGED <<script, wrote, logged, resumed, engine>>
  /\ saved' \in {saved, run.offset}
  /\ sentinel' => sentinel
  /\ piped' => piped

LEMMA LogsStayKeep ==
  ASSUME AInv, LogsStay PROVE LogGrows' /\ saved' \in Nat /\ (Complete => Complete')
  BY DEF AInv, LogsStay, LogGrows, Complete, Reading, AgentTyped, RunRecord

(* steps of the agent, of the poll, of the timeout and of others, that do  *)
(* not move the run                                                        *)
LEMMA QuietKeepsIt ==
  ASSUME AInv, UNCHANGED <<script, saved, resumed>>,
         run' \in RunRecord, UNCHANGED <<Places(run), Tallies(run), run.stage, run.last, run.failed>>,
         run.idle # "off" => run'.idle # "off",
         engine' = "down" => engine = "down",
         wrote' \in Nat, logged' \in Nat, logged <= logged', LogGrows', Complete => Complete' /\ logged' = logged
  PROVE  AInv'
  <1> USE DEF AInv
  <1>1. /\ run'.offset = run.offset /\ run'.todo = run.todo /\ run'.seen = run.seen /\ run'.first = run.first
        /\ run'.events = run.events /\ run'.fatal = run.fatal /\ run'.stall = run.stall
        /\ run'.final = run.final /\ run'.caught = run.caught /\ run'.outcome = run.outcome
        /\ run'.stage = run.stage /\ run'.last = run.last /\ run'.failed = run.failed
    BY DEF Places, Tallies
  <1>2. /\ logged \in Nat /\ run.seen \in Nat /\ run.offset \in Nat
    BY DEF AgentTyped, RunRecord
  <1>3. AgentTyped'
    BY DEF AgentTyped
  <1>4. Reading'
    BY <1>1, <1>2 DEF Reading, UpTo
  <1>5. Phases' /\ Drains'
    BY <1>1 DEF Phases, Drains
  <1>6. /\ \A kind : Some(kind)' <=> Some(kind)
        /\ TurnEnds => TurnEnds'
        /\ AsTold' = AsTold
    BY <1>1, <1>2, SameLines
  <1>7. Counted => Counted'
    BY <1>1, <1>6 DEF Counted, In, A!Failing, A!Stalling, A!Closing
  <1>8. Concluded => Concluded'
    BY <1>1, <1>6 DEF Concluded, A!Closing, A!Lines
  <1>9. Fitting'
    BY <1>1, <1>7, <1>8 DEF Fitting
  <1>10. QED
    BY <1>3, <1>4, <1>5, <1>9

(* attach() goes on to its next stage with nothing in hand *)
LEMMA StageKeepsIt ==
  ASSUME AInv, LogsStay,
         run.stage \in LiveStages, run.todo = << >>, run.events = << >>,
         run' \in RunRecord, run'.stage \in LiveStages \ {"chunk"},
         UNCHANGED <<Places(run), Tallies(run)>>,
         run'.stage # "ending" => ~run'.last, Drains'
  PROVE  AInv'
  <1> USE DEF AInv
  <1>1. /\ run'.offset = run.offset /\ run'.todo = run.todo /\ run'.seen = run.seen /\ run'.first = run.first
        /\ run'.events = run.events /\ run'.fatal = run.fatal /\ run'.stall = run.stall
        /\ run'.final = run.final /\ run'.caught = run.caught /\ run'.outcome = run.outcome
    BY DEF Places, Tallies
  <1>2. logged \in Nat /\ run.seen \in Nat
    BY DEF AgentTyped, RunRecord
  <1>3. AgentTyped' /\ LogGrows'
    BY LogsStayKeep DEF AgentTyped, LogsStay
  <1>4. Reading'
    BY <1>1 DEF Reading, UpTo, LogsStay, LiveStages, ReadStages
  <1>5. Phases'
    BY <1>1 DEF Phases, LiveStages, ReadStages
  <1>6. /\ \A kind : Some(kind)' <=> Some(kind)
        /\ TurnEnds => TurnEnds'
    BY <1>1, <1>2, SameLines DEF LogsStay
  <1>7. Counted => Counted'
    BY <1>1, <1>6 DEF Counted, In, A!Failing, A!Stalling, A!Closing
  <1>8. Concluded'
    BY DEF Concluded, LiveStages, ReadStages
  <1>9. Fitting'
    BY <1>1, <1>7, <1>8 DEF Fitting, LogsStay
  <1>10. QED
    BY <1>3, <1>4, <1>5, <1>9

(* The run is over, with what it makes of it to be told, or with nothing.  *)
LEMMA LeaveKeepsIt ==
  ASSUME AInv, LogsStay, engine # "down",
         run' \in RunRecord, run'.stage \in {"name", "save", "decide", "exit"},
         UNCHANGED <<run.offset, run.seen, run.first>>, run'.todo \in {run.todo, << >>},
         run'.stage = "name" => run'.final /\ ~run'.caught,
         run'.stage = "save" => ~run'.final,
         ~resumed => Concluded'
  PROVE  AInv'
  <1> USE DEF AInv
  <1>1. AgentTyped' /\ LogGrows'
    BY LogsStayKeep DEF AgentTyped, LogsStay
  <1>2. Reading'
    BY DEF Reading, LogsStay, LiveStages, ReadStages
  <1>3. Phases' /\ Drains'
    BY DEF Phases, Drains, LiveStages, ReadStages
  <1>4. Fitting'
    BY DEF Fitting, Counted, LogsStay, LiveStages, ReadStages
  <1>5. QED
    BY <1>1, <1>2, <1>3, <1>4

(* a chunk is read: its lines go on from those parsed *)
LEMMA ChunkKeepsIt ==
  ASSUME AInv, LogsStay, run.stage \in {"follow", "last"},
         run' \in RunRecord, run'.stage = "chunk",
         UNCHANGED <<run.seen, run.first, Tallies(run), run.failed>>,
         run'.offset = logged, run'.todo = A!LinesOf(run.offset, logged),
         run'.last => run.stage = "last"
  PROVE  AInv'
  <1> USE DEF AInv
  <1>1. /\ run'.seen = run.seen /\ run'.first = run.first /\ run'.failed = run.failed
        /\ run'.events = run.events /\ run'.fatal = run.fatal /\ run'.stall = run.stall
        /\ run'.final = run.final /\ run'.caught = run.caught /\ run'.outcome = run.outcome
    BY DEF Tallies
  <1>2. logged \in Nat /\ run.seen \in Nat /\ run.offset \in Nat /\ run.first \in Nat /\ logged' = logged
    BY DEF AgentTyped, RunRecord, LogsStay
  <1>3. AgentTyped' /\ LogGrows'
    BY LogsStayKeep DEF AgentTyped, LogsStay
  <1>4. Reading'
    <2>1. run.offset <= logged /\ run.todo = << >> /\ run.seen = UpTo(run.first, run.offset)
      BY <1>2 DEF Reading, LiveStages, ReadStages
    <2>2. run.offset \div 2 \in Nat /\ logged \div 2 \in Nat /\ run.offset \div 2 <= logged \div 2
      BY <1>2, <2>1, Halves
    <2>3. /\ run'.todo = [i \in 1..(logged \div 2 - run.seen) |-> run.seen + i]
      BY <2>1 DEF A!LinesOf, UpTo
    <2> DEFINE n == logged \div 2 - run.seen
    <2>8. n \in Int /\ (n < 0 <=> logged \div 2 < run.seen)
      BY <1>2, <2>2
    <2> HIDE DEF n
    <2>9. run'.todo = [i \in 1..n |-> run.seen + i] /\ run'.todo \in Seq(Nat)
      BY <2>3 DEF RunRecord, n
    <2>10. Len(run'.todo) \in Nat /\ DOMAIN run'.todo = 1..Len(run'.todo) /\ DOMAIN run'.todo = 1..n
      <3>1. PICK rest \in Seq(Nat) : rest = run'.todo
        BY <2>9
      <3>2. Len(rest) \in Nat /\ DOMAIN rest = 1..Len(rest)
        OBVIOUS
      <3>3. DOMAIN rest = 1..n
        BY <2>9, <3>1
      <3>4. QED
        BY <3>1, <3>2, <3>3
    <2>11. Len(run'.todo) = IF n < 0 THEN 0 ELSE n
      BY <2>8, <2>10
    <2>4. Len(run'.todo) = IF run.seen <= logged \div 2 THEN logged \div 2 - run.seen ELSE 0
      BY <1>2, <2>2, <2>8, <2>11 DEF n
    <2>5. \A i \in 1..Len(run'.todo) : run'.todo[i] = run'.seen + i
      BY <1>1, <2>9, <2>10
    <2>6. run'.seen + Len(run'.todo) = UpTo(run'.first, run'.offset)
      BY <1>1, <1>2, <2>1, <2>2, <2>4 DEF UpTo
    <2>7. QED
      BY <1>2, <2>5, <2>6 DEF Reading, LogsStay, LiveStages, ReadStages
  <1>5. Phases'
    BY <1>1 DEF Phases, LiveStages, ReadStages
  <1>6. Drains'
    BY <1>1, <1>2, LogsStayKeep DEF Drains
  <1>7. /\ \A kind : Some(kind)' <=> Some(kind)
        /\ TurnEnds => TurnEnds'
    BY <1>1, <1>2, SameLines DEF LogsStay
  <1>8. Counted => Counted'
    BY <1>1, <1>7 DEF Counted, In, A!Failing, A!Stalling, A!Closing, LiveStages, ReadStages
  <1>9. Concluded'
    BY DEF Concluded
  <1>10. Fitting'
    BY <1>1, <1>8, <1>9 DEF Fitting, LogsStay
  <1>11. QED
    BY <1>3, <1>4, <1>5, <1>6, <1>10

(* the next line of a chunk is the one after the last parsed *)
LEMMA NextOfTodo ==
  ASSUME AInv, run.stage = "chunk", run.todo # << >>
  PROVE  /\ Head(run.todo) = run.seen + 1 /\ 2 * (run.seen + 1) <= logged
         /\ run.seen + 1 \in 1..Len(script.lines)
         /\ Tail(run.todo) \in Seq(Nat) /\ Len(Tail(run.todo)) = Len(run.todo) - 1
         /\ \A i \in 1..Len(Tail(run.todo)) : Tail(run.todo)[i] = run.seen + 1 + i
  <1> USE DEF AInv
  <1>1. run.todo \in Seq(Nat) /\ run.seen \in Nat /\ run.first \in Nat /\ run.offset \in Nat
    BY DEF AgentTyped, RunRecord
  <1>2. logged \in Nat /\ wrote \in Nat /\ Len(script.lines) \in Nat
    BY DEF AgentTyped
  <1>3. PICK todo \in Seq(Nat) : todo = run.todo
    BY <1>1
  <1>4. /\ \A i \in 1..Len(todo) : todo[i] = run.seen + i
        /\ run.first <= run.seen /\ run.seen + Len(todo) = UpTo(run.first, run.offset)
        /\ run.offset <= logged
    BY <1>3 DEF Reading, LiveStages
  <1>5. Len(todo) \in Nat /\ Len(todo) >= 1
    BY <1>3
  <1>6. Head(todo) = run.seen + 1
    BY <1>4, <1>5
  <1>7. Tail(todo) \in Seq(Nat) /\ Len(Tail(todo)) = Len(todo) - 1
    BY <1>5
  <1>8. \A i \in 1..Len(Tail(todo)) : Tail(todo)[i] = todo[i + 1]
    BY <1>5
  <1>9. \A i \in 1..Len(Tail(todo)) : Tail(todo)[i] = run.seen + 1 + i
    <2>1. SUFFICES ASSUME NEW i \in 1..Len(Tail(todo)) PROVE Tail(todo)[i] = run.seen + 1 + i
      OBVIOUS
    <2>2. i \in Nat /\ i + 1 \in 1..Len(todo)
      BY <1>5, <1>7, <2>1
    <2>3. todo[i + 1] = run.seen + (i + 1)
      BY <1>4, <2>2
    <2>4. QED
      BY <1>1, <1>8, <2>1, <2>2, <2>3
  <1>10. run.seen + 1 <= run.offset \div 2
    BY <1>1, <1>4, <1>5, Halves DEF UpTo
  <1>11. 2 * (run.seen + 1) <= logged
    BY <1>1, <1>2, <1>4, <1>10, Halves
  <1>12. run.seen + 1 <= Len(script.lines)
    BY <1>1, <1>2, <1>11 DEF LogGrows
  <1>13. QED
    BY <1>1, <1>2, <1>3, <1>6, <1>7, <1>9, <1>11, <1>12

LEMMA NextLineKeepsIt == ASSUME AInv, A!NextLine PROVE AInv'
  <1> USE DEF AInv
  <1> DEFINE l == run.seen + 1
             frame == A!parseFrame(script.provider, script.lines[l], run.session)
  <1>1. run.stage = "chunk" /\ run.todo # << >> /\ run.events = << >>
    BY DEF A!NextLine
  <1>2. /\ Head(run.todo) = l /\ 2 * l <= logged /\ l \in 1..Len(script.lines)
        /\ Tail(run.todo) \in Seq(Nat) /\ Len(Tail(run.todo)) = Len(run.todo) - 1
        /\ \A i \in 1..Len(Tail(run.todo)) : Tail(run.todo)[i] = l + i
    BY <1>1, NextOfTodo
  <1>3. script.lines[l] \in A!LineTypes(script.provider)
    BY <1>2 DEF AgentTyped
  <1>4. Tells(frame, script.lines[l])
    BY <1>3, FrameTells DEF AgentTyped, RunRecord
  <1>5. frame \in Frames
    BY <1>4 DEF Tells
  <1>6. run' = [run EXCEPT !.todo = Tail(run.todo), !.seen = l, !.events = frame,
                           !.session = @ \/ A!Names(script.provider, script.lines[l])]
    BY <1>2 DEF A!NextLine
  <1>7. LogsStay /\ UNCHANGED piped
    BY DEF A!NextLine, LogsStay, A!OthersRest, A!logging
  <1> HIDE DEF l, frame
  <1>8. l \in Nat /\ run.seen \in Nat /\ l = run.seen + 1
    BY DEF l, AgentTyped, RunRecord
  <1>9. run' \in RunRecord
    BY <1>2, <1>5, <1>6, <1>8 DEF AgentTyped, RunRecord
  <1>10. /\ run'.stage = "chunk" /\ run'.todo = Tail(run.todo) /\ run'.seen = l /\ run'.events = frame
         /\ run'.offset = run.offset /\ run'.first = run.first /\ run'.fatal = run.fatal
         /\ run'.stall = run.stall /\ run'.final = run.final /\ run'.caught = run.caught
         /\ run'.last = run.last /\ run'.failed = run.failed
    BY <1>1, <1>6 DEF AgentTyped, RunRecord
  <1>11. AgentTyped' /\ LogGrows'
    BY <1>7, <1>9, LogsStayKeep DEF AgentTyped, LogsStay
  <1>12. Len(run.todo) \in Nat /\ run.first \in Nat
    BY DEF AgentTyped, RunRecord
  <1>13. Reading'
    <2>1. \A i \in 1..Len(run'.todo) : run'.todo[i] = run'.seen + i
      BY <1>2, <1>10
    <2>2. run.offset <= logged /\ run.first <= run.seen /\ run.seen + Len(run.todo) = UpTo(run.first, run.offset)
      BY <1>1 DEF Reading, LiveStages
    <2>3. run'.first <= run'.seen /\ run'.seen + Len(run'.todo) = UpTo(run'.first, run'.offset)
      BY <1>2, <1>8, <1>10, <1>12, <2>2
    <2>4. engine' # "down" /\ run'.offset <= logged'
      BY <1>1, <1>7, <1>10, <2>2 DEF Reading, LogsStay
    <2>5. QED
      BY <1>10, <2>1, <2>3, <2>4 DEF Reading, ReadStages
  <1>14. Phases'
    BY <1>1, <1>10 DEF Phases, LiveStages, ReadStages
  <1>15. Drains'
    BY <1>1, <1>7, <1>10, LogsStayKeep DEF Drains, LogsStay
  <1>16. ASSUME ~resumed, run.first = 0, Counted PROVE Counted'
    <2>1. /\ Some(A!Failing) <=> run.fatal
          /\ Some(A!Stalling) <=> run.stall
          /\ ~Some(A!Closing)
      BY <1>1, <1>16 DEF Counted, In, LiveStages
    <2>2. UNCHANGED script
      BY <1>7 DEF LogsStay
    <2>3. /\ Some(A!Failing)' <=> Some(A!Failing) \/ script.lines[l] \in A!Failing
          /\ Some(A!Stalling)' <=> Some(A!Stalling) \/ script.lines[l] \in A!Stalling
          /\ Some(A!Closing)' <=> Some(A!Closing) \/ script.lines[l] \in A!Closing
      BY <1>8, <1>10, <2>2 DEF Some, A!Failing, A!Stalling, A!Closing
    <2>4. In("final", frame) => TurnEnds'
      <3>1. SUFFICES ASSUME script.lines[l] \in A!Closing PROVE TurnEnds'
        BY <1>4 DEF Tells
      <3>2. \A k \in 1..(l - 1) : script.lines[k] \notin A!Closing
        BY <1>8, <2>1 DEF Some
      <3>3. logged' = logged /\ script' = script /\ run'.seen = l /\ 1 <= l
        BY <1>7, <1>8, <1>10 DEF LogsStay
      <3>4. QED
        BY <1>2, <3>1, <3>2, <3>3 DEF TurnEnds, A!Closing
    <2>5. QED
      BY <1>4, <1>10, <2>1, <2>3, <2>4 DEF Counted, Tells, In, A!Failing, A!Stalling, A!Closing
  <1>17. Concluded'
    BY <1>10 DEF Concluded
  <1>18. Fitting'
    BY <1>7, <1>10, <1>16, <1>17 DEF Fitting, LogsStay
  <1>19. QED
    BY <1>11, <1>13, <1>14, <1>15, <1>18

LEMMA OthersRestStay ==
  ASSUME A!OthersRest, saved' \in {saved, run.offset}, sentinel' => sentinel, piped' => piped
  PROVE  LogsStay
  BY DEF A!OthersRest, A!logging, LogsStay

(* what run() makes of an error *)
LEMMA CaughtFields ==
  ASSUME run \in RunRecord, NEW outcome \in {"recovered", "interrupted"}
  PROVE  LET r == A!Caught(run, outcome)
         IN  /\ r \in RunRecord /\ [r EXCEPT !.failed = TRUE] \in RunRecord
             /\ [r EXCEPT !.failed = TRUE].failed
             /\ \A q \in {r, [r EXCEPT !.failed = TRUE]} :
                  /\ q.stage \in {"save", "decide", "exit"}
                  /\ q.offset = run.offset /\ q.seen = run.seen /\ q.first = run.first
                  /\ q.todo \in {run.todo, << >>} /\ q.idle = run.idle
                  /\ q.stage = "save" => ~q.final
                  /\ q.stage # "exit" => q.caught /\ q.outcome = outcome
  <1>1. CASE A!Stopping
    BY <1>1 DEF A!Caught, RunRecord, RunStages
  <1>2. CASE ~A!Stopping
    <2>1. << >> \in Seq(Nat) /\ << >> \in Frames
      BY DEF Frames
    <2> DEFINE stage1 == IF run.got /\ ~run.final THEN "save" ELSE "decide"
    <2>2. stage1 \in {"save", "decide"} /\ (stage1 = "save" => ~run.final)
      OBVIOUS
    <2> HIDE DEF stage1
    <2>3. A!Caught(run, outcome) = [run EXCEPT !.caught = TRUE, !.outcome = outcome, !.todo = << >>,
                                               !.events = << >>, !.stage = stage1]
      BY <1>2 DEF A!Caught, stage1
    <2>4. PICK r : r = A!Caught(run, outcome)
      OBVIOUS
    <2>5. /\ r \in RunRecord /\ r.caught /\ r.outcome = outcome /\ r.todo = << >> /\ r.stage = stage1
          /\ r.offset = run.offset /\ r.seen = run.seen /\ r.first = run.first /\ r.idle = run.idle
          /\ r.final = run.final
      BY <2>1, <2>2, <2>3, <2>4 DEF RunRecord, RunStages
    <2>6. PICK q : q = [r EXCEPT !.failed = TRUE]
      OBVIOUS
    <2>7. /\ q \in RunRecord /\ q.failed /\ q.caught /\ q.outcome = outcome /\ q.todo = << >> /\ q.stage = stage1
          /\ q.offset = run.offset /\ q.seen = run.seen /\ q.first = run.first /\ q.idle = run.idle
          /\ q.final = run.final
      BY <2>5, <2>6 DEF RunRecord
    <2>8. QED
      BY <2>2, <2>4, <2>5, <2>6, <2>7
  <1>3. QED
    BY <1>1, <1>2

LEMMA FailKeepsIt ==
  ASSUME AInv, LogsStay, engine # "down",
         run' = [A!Caught(run, "interrupted") EXCEPT !.failed = TRUE]
  PROVE  AInv'
  <1>1. run \in RunRecord
    BY DEF AInv, AgentTyped
  <1>2. /\ run' \in RunRecord /\ run'.failed /\ run'.stage \in {"save", "decide", "exit"}
        /\ UNCHANGED <<run.offset, run.seen, run.first>> /\ run'.todo \in {run.todo, << >>}
        /\ run'.stage = "save" => ~run'.final
        /\ run'.stage # "exit" => run'.caught
    BY <1>1, CaughtFields
  <1>3. Concluded'
    BY <1>2 DEF Concluded
  <1>4. QED
    BY <1>2, <1>3, LeaveKeepsIt

LEMMA HandleKeepsIt == ASSUME AInv, A!Handle PROVE AInv'
  <1> USE DEF AInv
  <1>1. /\ run.stage = "chunk" /\ run.events # << >> /\ run.events \in Frames /\ run \in RunRecord
        /\ engine # "down" /\ LogsStay
    BY OthersRestStay DEF A!Handle, AgentTyped, RunRecord, Reading
  <1>2. PICK event, rest : event = Head(run.events) /\ rest = Tail(run.events)
    OBVIOUS
  <1>3. /\ event \in EventKinds /\ rest \in Frames
        /\ \A e \in EventKinds : In(e, run.events) <=> e = event \/ In(e, rest)
        /\ event = "final" => rest = << >>
    BY <1>1, <1>2, FrameRest
  <1>4. /\ In("fatal", run.events) <=> event = "fatal" \/ In("fatal", rest)
        /\ In("stall", run.events) <=> event = "stall" \/ In("stall", rest)
        /\ In("final", run.events) <=> event = "final" \/ In("final", rest)
    BY <1>3 DEF EventKinds
  <1>5. CASE /\ event # "final"
             /\ run' = [[run EXCEPT !.events = rest] EXCEPT !.fatal = @ \/ event = "fatal", !.stall = @ \/ event = "stall"]
    <2>1. /\ run' \in RunRecord
          /\ UNCHANGED <<Places(run), run.stage, run.final, run.caught, run.outcome, run.last, run.failed, run.idle>>
          /\ run'.events = rest
          /\ run'.fatal = (run.fatal \/ event = "fatal") /\ run'.stall = (run.stall \/ event = "stall")
      BY <1>1, <1>3, <1>5 DEF RunRecord, Places
    <2>2. /\ run'.offset = run.offset /\ run'.todo = run.todo /\ run'.seen = run.seen /\ run'.first = run.first
          /\ run'.stage = "chunk"
      BY <1>1, <2>1 DEF Places
    <2>3. AgentTyped' /\ LogGrows'
      BY <1>1, <2>1, LogsStayKeep DEF AgentTyped, LogsStay
    <2>4. Reading'
      BY <1>1, <2>2 DEF Reading, LogsStay, LiveStages, ReadStages
    <2>5. Phases'
      BY <1>1, <2>1, <2>2 DEF Phases, LiveStages, ReadStages
    <2>6. Drains'
      BY <1>1, <2>1, <2>2, LogsStayKeep DEF Drains, LogsStay
    <2>7. /\ \A kind : Some(kind)' <=> Some(kind)
          /\ TurnEnds => TurnEnds'
      BY <1>1, <2>2, SameLines DEF LogsStay, AgentTyped, RunRecord
    <2>8. Counted => Counted'
      <3>1. SUFFICES ASSUME Counted PROVE Counted'
        OBVIOUS
      <3>2. /\ Some(A!Failing) <=> run.fatal \/ In("fatal", run.events)
            /\ Some(A!Stalling) <=> run.stall \/ In("stall", run.events)
            /\ IF In("final", run.events) THEN TurnEnds ELSE ~Some(A!Closing)
        BY <1>1, <3>1 DEF Counted, LiveStages
      <3>3. /\ In("fatal", run.events)' <=> In("fatal", rest)
            /\ In("stall", run.events)' <=> In("stall", rest)
            /\ In("final", run.events)' <=> In("final", rest)
        BY <2>1 DEF In
      <3>4. /\ Some(A!Failing)' <=> Some(A!Failing)
            /\ Some(A!Stalling)' <=> Some(A!Stalling)
            /\ Some(A!Closing)' <=> Some(A!Closing)
        BY <2>7 DEF A!Failing, A!Stalling, A!Closing
      <3>5. QED
        BY <1>4, <1>5, <2>1, <2>7, <3>2, <3>3, <3>4 DEF Counted
    <2>9. Concluded'
      BY <2>2 DEF Concluded
    <2>10. Fitting'
      BY <1>1, <2>2, <2>8, <2>9 DEF Fitting, LogsStay
    <2>11. QED
      BY <2>3, <2>4, <2>5, <2>6, <2>10
  <1>6. CASE /\ event = "final"
             /\ run' = [[run EXCEPT !.events = rest] EXCEPT !.todo = << >>, !.final = TRUE, !.outcome = A!Outcome(run),
                           !.stage = IF A!HasSessionRef(script.provider, run.session) THEN "name" ELSE "decide"]
    <2>1. A!Outcome(run) \in {"completed", "recovered", "interrupted"}
      BY DEF A!Outcome
    <2> DEFINE stage1 == IF A!HasSessionRef(script.provider, run.session) THEN "name" ELSE "decide"
    <2>2. stage1 \in {"name", "decide"}
      OBVIOUS
    <2> HIDE DEF stage1
    <2>3. run' = [[run EXCEPT !.events = rest] EXCEPT !.todo = << >>, !.final = TRUE, !.outcome = A!Outcome(run), !.stage = stage1]
      BY <1>6 DEF stage1
    <2>4. << >> \in Seq(Nat)
      OBVIOUS
    <2>5. /\ run' \in RunRecord /\ run'.stage \in {"name", "decide"}
          /\ UNCHANGED <<run.offset, run.seen, run.first, run.caught>>
          /\ run'.todo = << >> /\ run'.final /\ run'.outcome = A!Outcome(run)
      BY <1>1, <1>3, <2>1, <2>2, <2>3, <2>4 DEF RunRecord, RunStages
    <2>6. ~run.caught
      BY <1>1 DEF Phases, LiveStages
    <2>7. ASSUME ~resumed PROVE Concluded'
      <3>1. /\ Some(A!Failing) <=> run.fatal
            /\ Some(A!Stalling) <=> run.stall
            /\ TurnEnds
        <4>1. ~In("fatal", rest) /\ ~In("stall", rest)
          BY <1>3, <1>6 DEF In
        <4>2. QED
          BY <1>1, <1>4, <1>6, <2>7, <4>1 DEF Fitting, Counted, LiveStages
      <3>2. TurnEnds' /\ AsTold' = AsTold
        BY <1>1, <2>5, <3>1, SameLines DEF LogsStay, AgentTyped, RunRecord
      <3>3. A!Outcome(run) = AsTold
        BY <3>1 DEF A!Outcome, AsTold
      <3>4. QED
        BY <2>5, <2>6, <3>2, <3>3 DEF Concluded
    <2>8. QED
      BY <1>1, <2>5, <2>6, <2>7, LeaveKeepsIt
  <1>7. CASE run' = [A!Caught(run, "interrupted") EXCEPT !.failed = TRUE]
    BY <1>1, <1>7, FailKeepsIt
  <1>8. QED
    BY <1>2, <1>5, <1>6, <1>7 DEF A!Handle

LEMMA AgentActs ==
  ASSUME AInv,
         \/ A!Write \/ A!Exit \/ A!Flush \/ A!PipeEnds \/ A!PollFindsDead \/ A!IdleTimeout
         \/ A!IdleStopped \/ A!ShutDown \/ A!Scan \/ A!Cancel
  PROVE  AInv'
  <1> USE DEF AInv
  <1>1. /\ wrote \in Nat /\ logged \in Nat /\ saved \in Nat /\ run \in RunRecord
        /\ Len(script.lines) \in Nat
    BY DEF AgentTyped
  <1>2. UNCHANGED <<script, saved, resumed>>
    BY DEF A!Write, A!Exit, A!Flush, A!PipeEnds, A!PollFindsDead, A!IdleTimeout, A!IdleStopped,
           A!ShutDown, A!Scan, A!Cancel, A!OthersRest, A!logging
  <1>3. engine' = "down" => engine = "down"
    BY DEF A!Write, A!Exit, A!Flush, A!PipeEnds, A!PollFindsDead, A!IdleTimeout, A!IdleStopped,
           A!ShutDown, A!Scan, A!Cancel, A!OthersRest, A!logging
  <1>4. /\ wrote' \in Nat /\ logged' \in Nat /\ logged <= logged' /\ LogGrows'
        /\ Complete => Complete' /\ logged' = logged
    BY <1>1, <1>2 DEF LogGrows, Complete, A!Write, A!Exit, A!Flush, A!PipeEnds, A!PollFindsDead,
           A!IdleTimeout, A!IdleStopped, A!ShutDown, A!Scan, A!Cancel, A!OthersRest, A!logging
  <1>5. \/ UNCHANGED run
        \/ run' = [run EXCEPT !.terminated = TRUE, !.aborted = TRUE]
        \/ run' = [run EXCEPT !.terminated = TRUE, !.idle = "stopping"]
        \/ run' = [run EXCEPT !.idle = "stopped", !.aborted = TRUE]
    BY DEF A!Write, A!Exit, A!Flush, A!PipeEnds, A!PollFindsDead, A!IdleTimeout, A!IdleStopped,
           A!ShutDown, A!Scan, A!Cancel
  <1>6. /\ run' \in RunRecord
        /\ UNCHANGED <<Places(run), Tallies(run), run.stage, run.last, run.failed>>
        /\ run.idle # "off" => run'.idle # "off"
    BY <1>1, <1>5 DEF RunRecord, Places, Tallies
  <1>7. QED
    BY <1>2, <1>3, <1>4, <1>6, QuietKeepsIt

LEMMA AttachReads ==
  ASSUME AInv, A!Read \/ A!ReadRest
  PROVE  AInv'
  <1> USE DEF AInv
  <1>1. run \in RunRecord /\ logged \in Nat /\ wrote \in Nat /\ run.offset \in Nat
    BY DEF AgentTyped, RunRecord
  <1>2. LogsStay /\ UNCHANGED <<piped, logged, wrote>>
    BY OthersRestStay DEF A!Read, A!ReadRest, A!OthersRest, A!logging
  <1>3. A!LinesOf(run.offset, logged) \in Seq(Nat)
    <2>1. PICK skipped \in Nat : skipped = IF run.offset \div 2 < run.first THEN run.first ELSE run.offset \div 2
      BY <1>1, Halves DEF RunRecord
    <2>2. PICK n \in Nat : 1..(logged \div 2 - skipped) = 1..n
      <3>1. logged \div 2 \in Nat
        BY <1>1, Halves
      <3>2. CASE logged \div 2 < skipped
        <4>1. 1..(logged \div 2 - skipped) = {} /\ 1..0 = {}
          BY <2>1, <3>1, <3>2
        <4>2. QED
          BY <4>1
      <3>3. CASE skipped <= logged \div 2
        BY <3>1, <3>3
      <3>4. QED
        BY <2>1, <3>1, <3>2, <3>3
    <2>3. A!LinesOf(run.offset, logged) = [i \in 1..n |-> skipped + i]
      BY <2>1, <2>2 DEF A!LinesOf
    <2>4. [i \in 1..n |-> skipped + i] \in Seq(Nat)
      BY <2>1, <2>2
    <2>5. QED
      BY <2>3, <2>4
  <1>4. CASE A!Read
    <2>1. /\ run.stage = "follow"
          /\ run' = [run EXCEPT !.stage = "chunk", !.offset = logged, !.got = TRUE,
                                !.todo = A!LinesOf(run.offset, logged)]
      BY <1>4 DEF A!Read, A!Chunk
    <2>2. /\ run' \in RunRecord /\ run'.stage = "chunk"
          /\ UNCHANGED <<run.seen, run.first, Tallies(run), run.failed, run.last>>
          /\ run'.offset = logged /\ run'.todo = A!LinesOf(run.offset, logged)
      BY <1>1, <1>3, <2>1 DEF RunRecord, Tallies, RunStages, LiveStages
    <2>3. ~run.last
      BY <2>1 DEF Phases, ReadStages
    <2>4. QED
      BY <1>2, <2>1, <2>2, <2>3, ChunkKeepsIt
  <1>5. CASE A!ReadRest /\ run.offset < logged
    <2>1. /\ run.stage = "last"
          /\ run' = [run EXCEPT !.stage = "chunk", !.last = TRUE, !.offset = logged, !.got = TRUE,
                                !.todo = A!LinesOf(run.offset, logged)]
      BY <1>5 DEF A!ReadRest
    <2>2. /\ run' \in RunRecord /\ run'.stage = "chunk"
          /\ UNCHANGED <<run.seen, run.first, Tallies(run), run.failed>>
          /\ run'.offset = logged /\ run'.todo = A!LinesOf(run.offset, logged)
      BY <1>1, <1>3, <2>1 DEF RunRecord, Tallies, RunStages, LiveStages
    <2>3. QED
      BY <1>2, <2>1, <2>2, ChunkKeepsIt
  <1>6. CASE A!ReadRest /\ ~(run.offset < logged)
    <2>1. run.stage = "last" /\ run' = [run EXCEPT !.stage = "ending"]
      BY <1>6 DEF A!ReadRest
    <2>2. /\ run' \in RunRecord /\ run'.stage = "ending"
          /\ UNCHANGED <<Places(run), Tallies(run), run.failed, run.offset>>
      BY <1>1, <2>1 DEF RunRecord, RunStages, LiveStages, Places, Tallies
    <2>3. run.todo = << >> /\ run.events = << >> /\ run.offset = logged /\ (~run.failed => Complete)
      BY <1>1, <1>6, <2>1 DEF Reading, Phases, Drains, ReadStages
    <2>4. Drains'
      BY <1>2, <2>2, <2>3 DEF Drains, Complete
    <2>5. QED
      BY <1>2, <2>1, <2>2, <2>3, <2>4, StageKeepsIt DEF LiveStages, ReadStages
  <1>7. QED
    BY <1>4, <1>5, <1>6

(* a step that only moves the run on *)
LEMMA ToFields ==
  ASSUME run \in RunRecord, NEW stage1 \in RunStages, run' = [run EXCEPT !.stage = stage1]
  PROVE  /\ run' \in RunRecord /\ run'.stage = stage1
         /\ UNCHANGED <<Places(run), Tallies(run)>>
         /\ UNCHANGED <<run.offset, run.seen, run.first, run.todo, run.final, run.caught, run.outcome,
                        run.idle, run.failed, run.last>>
  BY DEF RunRecord, Places, Tallies

LEMMA AttachMoves ==
  ASSUME AInv, A!ChunkIsDone \/ A!FollowEnds \/ A!Drain \/ A!SentinelSeen
  PROVE  AInv'
  <1> USE DEF AInv
  <1>1. run \in RunRecord /\ logged \in Nat /\ wrote \in Nat
    BY DEF AgentTyped
  <1>2. LogsStay /\ UNCHANGED <<logged, wrote>> /\ (Complete => Complete')
    BY OthersRestStay, LogsStayKeep DEF A!ChunkIsDone, A!FollowEnds, A!Drain, A!SentinelSeen, A!OthersRest, A!logging
  <1>3. engine # "down" /\ run.stage \in {"chunk", "follow", "drain", "sentinel"}
    BY DEF Reading, A!ChunkIsDone, A!FollowEnds, A!Drain, A!SentinelSeen
  <1>4. run.todo = << >> /\ run.events = << >>
    BY <1>3 DEF Reading, Phases, ReadStages, A!ChunkIsDone, A!FollowEnds, A!Drain, A!SentinelSeen
  <1>5. CASE A!ChunkIsDone
    <2>1. PICK stage1 \in {"ending", "follow"} :
           run' = [run EXCEPT !.stage = stage1] /\ (stage1 = "ending" <=> run.last)
      BY <1>5 DEF A!ChunkIsDone, A!To
    <2>2. /\ run' \in RunRecord /\ run'.stage = stage1
          /\ UNCHANGED <<Places(run), Tallies(run)>>
          /\ UNCHANGED <<run.offset, run.failed, run.last>>
      <3>1. stage1 \in RunStages
        BY <2>1 DEF RunStages, LiveStages, ReadStages
      <3>2. QED
        BY <1>1, <2>1, <3>1, ToFields
    <2>3. Drains'
      <3>1. CASE stage1 = "follow"
        BY <2>2, <3>1 DEF Drains
      <3>2. CASE stage1 = "ending"
        <4>1. run.stage = "chunk" /\ run.last
          BY <1>5, <2>1, <3>2 DEF A!ChunkIsDone
        <4>2. QED
          BY <1>2, <2>2, <4>1 DEF Drains
      <3>3. QED
        BY <2>1, <3>1, <3>2
    <2>4. QED
      BY <1>2, <1>3, <1>4, <2>1, <2>2, <2>3, StageKeepsIt DEF LiveStages, ReadStages
  <1>6. CASE A!FollowEnds
    <2>1. CASE run.idle # "off"
      <3>1. run' = A!Caught(run, "recovered")
        BY <1>6, <2>1 DEF A!FollowEnds
      <3>2. /\ run' \in RunRecord /\ run'.stage \in {"save", "decide", "exit"}
            /\ UNCHANGED <<run.offset, run.seen, run.first, run.idle>> /\ run'.todo \in {run.todo, << >>}
            /\ run'.stage = "save" => ~run'.final
            /\ run'.stage # "exit" => run'.caught /\ run'.outcome = "recovered"
        BY <1>1, <3>1, CaughtFields
      <3>3. Concluded'
        BY <2>1, <3>2 DEF Concluded
      <3>4. QED
        BY <1>2, <1>3, <3>2, <3>3, LeaveKeepsIt
    <2>2. CASE run.idle = "off" /\ A!Stopping
      <3>1. run' = [run EXCEPT !.stage = "exit"]
        BY <1>6, <2>2 DEF A!FollowEnds
      <3>2. /\ run' \in RunRecord /\ run'.stage = "exit"
            /\ UNCHANGED <<run.offset, run.seen, run.first, run.todo>>
        BY <1>1, <3>1, ToFields DEF RunStages
      <3>3. Concluded'
        BY <3>2 DEF Concluded
      <3>4. QED
        BY <1>2, <1>3, <3>2, <3>3, LeaveKeepsIt
    <2>3. CASE run.idle = "off" /\ ~A!Stopping
      <3>1. run' = [run EXCEPT !.stage = "drain"]
        BY <1>6, <2>3 DEF A!FollowEnds
      <3>2. /\ run' \in RunRecord /\ run'.stage = "drain"
            /\ UNCHANGED <<Places(run), Tallies(run), run.last>>
        BY <1>1, <3>1, ToFields DEF RunStages, LiveStages, ReadStages
      <3>3. Drains' /\ ~run.last
        BY <1>6, <3>2 DEF Drains, Phases, ReadStages, A!FollowEnds
      <3>4. QED
        BY <1>2, <1>3, <1>4, <3>2, <3>3, StageKeepsIt DEF LiveStages, ReadStages
    <2>4. QED
      BY <2>1, <2>2, <2>3
  <1>7. CASE A!Drain
    <2>1. CASE run' = [run EXCEPT !.stage = "sentinel"]
      <3>1. /\ run' \in RunRecord /\ run'.stage = "sentinel"
            /\ UNCHANGED <<Places(run), Tallies(run), run.last>>
        BY <1>1, <2>1, ToFields DEF RunStages, LiveStages, ReadStages
      <3>2. Drains' /\ ~run.last
        BY <1>7, <3>1 DEF Drains, Phases, ReadStages, A!Drain
      <3>3. QED
        BY <1>2, <1>3, <1>4, <3>1, <3>2, StageKeepsIt DEF LiveStages, ReadStages
    <2>2. CASE run' = [A!Caught(run, "interrupted") EXCEPT !.failed = TRUE]
      BY <1>2, <1>3, <2>2, FailKeepsIt
    <2>3. QED
      BY <1>7, <2>1, <2>2 DEF A!Drain, A!To
  <1>8. CASE A!SentinelSeen
    <2>1. PICK failed1 \in BOOLEAN :
           run' = [run EXCEPT !.stage = "last", !.failed = failed1] /\ (~failed1 => sentinel)
      <3>1. CASE sentinel /\ run' = [run EXCEPT !.stage = "last"]
        <4>1. run' = [run EXCEPT !.stage = "last", !.failed = run.failed] /\ run.failed \in BOOLEAN
          BY <1>1, <3>1 DEF RunRecord
        <4>2. QED
          BY <3>1, <4>1
      <3>2. CASE run' = [run EXCEPT !.stage = "last", !.failed = TRUE]
        BY <3>2
      <3>3. QED
        BY <1>8, <3>1, <3>2 DEF A!SentinelSeen
    <2>2. /\ run' \in RunRecord /\ run'.stage = "last" /\ run'.failed = failed1
          /\ UNCHANGED <<Places(run), Tallies(run), run.last>>
      BY <1>1, <2>1 DEF RunRecord, RunStages, LiveStages, ReadStages, Places, Tallies
    <2>3. Drains' /\ ~run.last
      BY <1>2, <1>8, <2>1, <2>2 DEF Drains, LogGrows, Phases, ReadStages, A!SentinelSeen
    <2>4. QED
      BY <1>2, <1>3, <1>4, <2>2, <2>3, StageKeepsIt DEF LiveStages, ReadStages
  <1>9. QED
    BY <1>5, <1>6, <1>7, <1>8

(* the run has its outcome, or gives it up *)
LEMMA RunConcludes ==
  ASSUME AInv, A!NameSession \/ A!Ending \/ A!Save \/ A!Decide
  PROVE  AInv'
  <1> USE DEF AInv
  <1>1. run \in RunRecord /\ logged \in Nat /\ wrote \in Nat /\ run.seen \in Nat
    BY DEF AgentTyped, RunRecord
  <1>2. LogsStay /\ UNCHANGED <<script, logged, wrote, piped>>
    BY OthersRestStay DEF A!NameSession, A!Ending, A!Save, A!Decide, A!OthersRest, A!logging
  <1>3. engine # "down"
    BY DEF Reading, A!NameSession, A!Ending, A!Save, A!Decide
  <1>4. CASE run' = [A!Caught(run, "interrupted") EXCEPT !.failed = TRUE]
    BY <1>2, <1>3, <1>4, FailKeepsIt
  <1>5. CASE run' = [run EXCEPT !.stage = "exit"]
    <2>1. /\ run' \in RunRecord /\ run'.stage = "exit"
          /\ UNCHANGED <<run.offset, run.seen, run.first, run.todo>>
      BY <1>1, <1>5, ToFields DEF RunStages
    <2>2. Concluded'
      BY <2>1 DEF Concluded
    <2>3. QED
      BY <1>2, <1>3, <2>1, <2>2, LeaveKeepsIt
  <1>6. CASE run' = [run EXCEPT !.stage = "decide"] /\ run.stage \in {"name", "save"}
    <2>1. /\ run' \in RunRecord /\ run'.stage = "decide"
          /\ UNCHANGED <<run.offset, run.seen, run.first, run.todo, run.final, run.caught, run.outcome, run.idle, run.failed>>
      BY <1>1, <1>6, ToFields DEF RunStages
    <2>2. /\ \A kind : Some(kind)' <=> Some(kind)
          /\ TurnEnds => TurnEnds'
          /\ AsTold' = AsTold
      BY <1>1, <1>2, <2>1, SameLines
    <2>3. ASSUME Concluded PROVE Concluded'
      <3>1. CASE run.stage = "name"
        BY <2>1, <2>2, <2>3, <3>1 DEF Concluded, Phases
      <3>2. CASE run.stage = "save"
        BY <1>2, <2>1, <2>2, <2>3, <3>2 DEF Concluded, Phases, Complete, A!Lines, A!Closing
      <3>3. QED
        BY <1>6, <3>1, <3>2
    <2>4. QED
      BY <1>2, <1>3, <2>1, <2>3, LeaveKeepsIt DEF Fitting
  <1>7. CASE /\ run.stage = "ending"
             /\ run' = [run EXCEPT !.outcome = "interrupted", !.stage = IF run.got THEN "save" ELSE "decide"]
    <2>1. /\ run' \in RunRecord /\ run'.stage \in {"save", "decide"} /\ run'.outcome = "interrupted"
          /\ UNCHANGED <<run.offset, run.seen, run.first, run.todo, run.final, run.caught, run.failed>>
      BY <1>1, <1>7 DEF RunRecord, RunStages
    <2>2. ~run.final /\ ~run.caught /\ run.events = << >> /\ run.todo = << >>
      BY <1>7 DEF Phases, Reading, LiveStages, ReadStages
    <2>3. \A kind : Some(kind)' <=> Some(kind)
      BY <1>1, <1>2, <2>1, SameLines
    <2>4. ASSUME ~resumed PROVE Concluded'
      <3>1. ~Some(A!Closing)
        BY <1>7, <2>2, <2>4 DEF Fitting, Counted, In, LiveStages
      <3>2. ASSUME ~run.failed PROVE Complete /\ run.seen = A!Lines
        <4>1. Complete /\ run.offset = logged
          BY <1>7, <3>2 DEF Drains
        <4>2. run.seen + Len(run.todo) = UpTo(run.first, run.offset) /\ run.first = 0
          BY <1>7, <2>4 DEF Reading, Fitting, LiveStages
        <4>3. logged \div 2 \in Nat
          BY <1>1, Halves
        <4>4. QED
          BY <1>1, <2>2, <4>1, <4>2, <4>3 DEF UpTo, A!Lines
      <3>3. QED
        BY <1>2, <2>1, <2>2, <2>3, <3>1, <3>2 DEF Concluded, Complete, A!Lines, A!Closing
    <2>5. QED
      BY <1>2, <1>3, <2>1, <2>2, <2>4, LeaveKeepsIt
  <1>8. QED
    BY <1>4, <1>5, <1>6, <1>7 DEF A!NameSession, A!Ending, A!Save, A!Decide, A!To

(* attach() at the start of a run, and again where its offset was saved *)
LEMMA AttachedFields ==
  ASSUME NEW n \in Nat
  PROVE  LET r == A!Attached(n)
         IN  /\ r \in RunRecord /\ r.stage = "follow" /\ r.offset = n /\ r.todo = << >> /\ r.events = << >>
             /\ r.first = (n + 1) \div 2 /\ r.seen = (n + 1) \div 2
             /\ ~r.last /\ ~r.final /\ ~r.caught /\ ~r.fatal /\ ~r.stall
  <1>1. (n + 1) \div 2 \in Nat /\ << >> \in Seq(Nat) /\ << >> \in Frames
    BY Halves DEF Frames
  <1>2. QED
    BY <1>1 DEF A!Attached, A!NoRun, RunRecord, RunStages, LiveStages, ReadStages

Attaches ==
  /\ AgentTyped /\ LogGrows /\ engine # "down"
  /\ \E n \in Nat : run = A!Attached(n) /\ n <= logged /\ (~resumed => n = 0)

LEMMA AttachesAnew == Attaches => AInv
  <1> SUFFICES ASSUME Attaches PROVE AInv
    OBVIOUS
  <1> PICK n \in Nat : run = A!Attached(n) /\ n <= logged /\ (~resumed => n = 0)
    BY DEF Attaches
  <1>1. /\ run.stage = "follow" /\ run.offset = n /\ run.todo = << >> /\ run.events = << >>
        /\ run.first = (n + 1) \div 2 /\ run.seen = (n + 1) \div 2
        /\ ~run.last /\ ~run.final /\ ~run.caught /\ ~run.fatal /\ ~run.stall
    BY AttachedFields
  <1>2. n \div 2 \in Nat /\ n \div 2 <= (n + 1) \div 2 /\ (n + 1) \div 2 \in Nat /\ 1 \div 2 = 0
    BY Halves
  <1>3. Reading
    BY <1>1, <1>2 DEF Reading, UpTo, Attaches
  <1>4. Phases /\ Drains
    BY <1>1 DEF Phases, Drains
  <1>5. Fitting
    BY <1>1, <1>2 DEF Fitting, Counted, Concluded, Some, In
  <1>6. QED
    BY <1>3, <1>4, <1>5 DEF AInv, Attaches

LEMMA AttachesNext == Attaches' => AInv'
  BY AttachesAnew, PTL

LEMMA EngineActs == ASSUME AInv, A!GoDown \/ A!Boot PROVE AInv'
  <1> USE DEF AInv
  <1>1. /\ run \in RunRecord /\ logged \in Nat /\ wrote \in Nat /\ saved \in Nat /\ run.seen \in Nat
    BY DEF AgentTyped, RunRecord
  <1>2. UNCHANGED <<script, wrote, logged, piped, sentinel, saved>>
    BY DEF A!GoDown, A!Boot, A!logging
  <1>3. LogGrows' /\ (Complete => Complete')
    BY <1>2 DEF LogGrows, Complete
  <1>4. CASE A!GoDown
    <2>1. run' = [A!NoRun EXCEPT !.seen = run.seen] /\ UNCHANGED resumed
      BY <1>4 DEF A!GoDown
    <2>2. << >> \in Seq(Nat) /\ << >> \in Frames
      BY DEF Frames
    <2>3. /\ run' \in RunRecord /\ run'.stage = "off" /\ run'.offset = 0 /\ run'.todo = << >>
          /\ run'.first = 0
      BY <1>1, <2>1, <2>2 DEF A!NoRun, RunRecord, RunStages
    <2>4. AgentTyped'
      BY <1>2, <2>3 DEF AgentTyped
    <2>5. Reading' /\ Phases' /\ Drains'
      BY <1>1, <1>2, <2>3 DEF Reading, Phases, Drains, LiveStages, ReadStages
    <2>6. Fitting'
      BY <2>3 DEF Fitting, Counted, Concluded, LiveStages, ReadStages
    <2>7. QED
      BY <1>3, <2>4, <2>5, <2>6
  <1>5. CASE A!Boot /\ UNCHANGED <<run, resumed>>
    <2>1. engine' # "down"
      BY <1>5 DEF A!Boot
    <2>2. UNCHANGED <<Places(run), Tallies(run), run.stage, run.last, run.failed>>
      BY <1>5 DEF Places, Tallies
    <2>3. QED
      BY <1>1, <1>2, <1>3, <1>5, <2>1, <2>2, QuietKeepsIt
  <1>6. CASE A!Boot /\ run' = A!Attached(saved) /\ resumed' = (saved > 0)
    <2>1. AgentTyped'
      BY <1>1, <1>2, <1>6, AttachedFields DEF AgentTyped
    <2>2. ASSUME ~resumed' PROVE saved = 0
      <3>1. ~(saved > 0)
        BY <1>6, <2>2
      <3>2. QED
        BY <1>1, <3>1
    <2>3. saved <= logged' /\ engine' # "down"
      BY <1>2, <1>6 DEF LogGrows, A!Boot
    <2>4. \E n \in Nat : run' = A!Attached(n) /\ n <= logged' /\ (~resumed' => n = 0)
      BY <1>1, <1>6, <2>2, <2>3
    <2>5. Attaches'
      BY <1>3, <2>1, <2>3, <2>4 DEF Attaches, A!Attached, A!NoRun
    <2>6. QED
      BY <2>5, AttachesNext
  <1>7. QED
    BY <1>4, <1>5, <1>6 DEF A!Boot

LEMMA AgentStep == ASSUME AInv, [A!Next]_A!vars PROVE AInv'
  <1>1. CASE UNCHANGED A!vars
    <2>1. /\ UNCHANGED <<script, wrote, logged, piped, sentinel, saved, resumed, engine, run>>
          /\ UNCHANGED <<Places(run), Tallies(run), run.stage, run.last, run.failed>>
      BY <1>1 DEF A!vars, A!logging, Places, Tallies
    <2>2. LogGrows' /\ (Complete => Complete')
      BY <2>1 DEF AInv, LogGrows, Complete
    <2>3. wrote' \in Nat /\ logged' \in Nat /\ logged <= logged' /\ run' \in RunRecord
      BY <2>1 DEF AInv, AgentTyped
    <2>4. QED
      BY <2>1, <2>2, <2>3, QuietKeepsIt
  <1>2. QED
    BY <1>1, AgentActs, AttachReads, AttachMoves, NextLineKeepsIt, HandleKeepsIt, RunConcludes, EngineActs
       DEF A!Next

LEMMA AgentStarts ==
  ASSUME NEW scripts, A!InitWith(scripts),
         \A s \in scripts : s.provider \in A!Agents /\ s.lines \in Seq(A!LineTypes(s.provider))
  PROVE  AInv
  <1>1. /\ script.provider \in A!Agents /\ script.lines \in Seq(A!LineTypes(script.provider))
        /\ wrote = 0 /\ logged = 0 /\ saved = 0 /\ ~sentinel /\ engine # "down"
        /\ run = A!Attached(0)
    BY DEF A!InitWith
  <1>2. AgentTyped
    BY <1>1, AttachedFields DEF AgentTyped
  <1>3. LogGrows
    BY <1>1 DEF LogGrows
  <1>4. QED
    BY <1>1, <1>2, <1>3, AttachesAnew DEF Attaches

(* only the parsing of a line moves the last line parsed of a run *)
LEMMA SeenMoves ==
  ASSUME AInv, A!Next, run'.seen # run.seen
  PROVE  A!NextLine \/ A!GoDown \/ A!Boot
  <1>1. run \in RunRecord
    BY DEF AInv, AgentTyped
  <1>2. ASSUME A!Write \/ A!Exit \/ A!Flush \/ A!PipeEnds \/ A!ShutDown \/ A!Scan \/ A!Cancel
        PROVE  FALSE
    BY <1>2 DEF A!Write, A!Exit, A!Flush, A!PipeEnds, A!ShutDown, A!Scan, A!Cancel
  <1>3. ASSUME A!PollFindsDead \/ A!IdleTimeout \/ A!IdleStopped \/ A!Read \/ A!ReadRest \/ A!ChunkIsDone
        PROVE  FALSE
    BY <1>1, <1>3 DEF RunRecord, A!PollFindsDead, A!IdleTimeout, A!IdleStopped, A!Read, A!Chunk, A!ReadRest, A!ChunkIsDone, A!To
  <1>4. \A outcome \in {"recovered", "interrupted"} :
           /\ A!Caught(run, outcome).seen = run.seen
           /\ [A!Caught(run, outcome) EXCEPT !.failed = TRUE].seen = run.seen
    BY <1>1, CaughtFields
  <1>5. ASSUME A!FollowEnds \/ A!Drain \/ A!SentinelSeen PROVE FALSE
    BY <1>1, <1>4, <1>5 DEF RunRecord, A!FollowEnds, A!Drain, A!SentinelSeen, A!To
  <1>6. ASSUME A!Handle \/ A!NameSession \/ A!Ending \/ A!Save \/ A!Decide PROVE FALSE
    BY <1>1, <1>4, <1>6 DEF RunRecord, A!Handle, A!NameSession, A!Ending, A!Save, A!Decide, A!To
  <1>7. QED
    BY <1>2, <1>3, <1>5, <1>6 DEF A!Next

LEMMA OneAfterTheOther ==
  ASSUME AInv, A!Next, run.todo # << >>, run'.seen # run.seen, run'.stage # "off"
  PROVE  Head(run.todo) = run.seen + 1
  <1>1. CASE A!NextLine
    BY <1>1, NextOfTodo DEF A!NextLine
  <1>2. CASE A!GoDown
    <2>1. run'.stage = "off"
      BY <1>2 DEF A!GoDown, A!NoRun
    <2>2. QED
      BY <2>1
  <1>3. CASE A!Boot
    BY <1>3 DEF A!Boot, AInv, Reading
  <1>4. QED
    BY <1>1, <1>2, <1>3, SeenMoves

(* a run that ends while its task is running ends with its outcome *)
LEMMA DecideTells ==
  ASSUME AInv, A!Next, run.stage = "decide", run'.stage = "exit", task' # task
  PROVE  task' = run.outcome
  <1>1. run \in RunRecord
    BY DEF AInv, AgentTyped
  <1>2. CASE A!Decide
    BY <1>2 DEF A!Decide
  <1>3. CASE A!GoDown
    BY <1>3 DEF A!GoDown
  <1>4. CASE A!Boot
    <2>1. engine # "down"
      BY DEF AInv, Reading
    <2>2. QED
      BY <1>4, <2>1 DEF A!Boot
  <1>5. CASE A!Scan \/ A!Cancel
    BY <1>5 DEF A!Scan, A!Cancel
  <1>6. ASSUME \/ A!Write \/ A!Exit \/ A!Flush \/ A!PipeEnds \/ A!ShutDown
               \/ A!PollFindsDead \/ A!IdleTimeout \/ A!IdleStopped \/ A!Read \/ A!ReadRest \/ A!ChunkIsDone
               \/ A!FollowEnds \/ A!Drain \/ A!SentinelSeen
               \/ A!NextLine \/ A!Handle \/ A!NameSession \/ A!Ending \/ A!Save
        PROVE  UNCHANGED task
    BY <1>6 DEF A!Write, A!Exit, A!Flush, A!PipeEnds, A!ShutDown, A!PollFindsDead, A!IdleTimeout, A!IdleStopped,
                A!Read, A!ReadRest, A!ChunkIsDone, A!FollowEnds, A!Drain, A!SentinelSeen, A!NextLine, A!Handle,
                A!NameSession, A!Ending, A!Save
  <1>7. QED
    BY <1>2, <1>3, <1>4, <1>5, <1>6 DEF A!Next

(* Where the last line parsed closes the first turn, what is told is what  *)
(* the lines up to it say.                                                 *)
LEMMA ToldIsSeen ==
  ASSUME AInv, TurnEnds, NEW kind
  PROVE  A!Closed # {} /\ (A!Told \cap kind # {} <=> Some(kind))
  <1>1. run.seen \in Nat /\ logged \in Nat /\ A!Lines \in Nat /\ run.seen <= A!Lines
    BY Halves DEF AInv, AgentTyped, RunRecord, TurnEnds, A!Lines
  <1>2. run.seen \in A!Closed
    BY <1>1 DEF TurnEnds, A!Closed
  <1>3. \A l \in 1..A!Lines : (\A k \in A!Closed : l <= k) <=> l \in 1..run.seen
    <2>1. \A k \in A!Closed : run.seen <= k
      BY <1>1 DEF TurnEnds, A!Closed
    <2>2. A!Closed \subseteq 1..A!Lines
      BY DEF A!Closed
    <2>3. QED
      BY <1>1, <1>2, <2>1, <2>2
  <1>4. \A line : line \in A!Told <=> \E l \in 1..run.seen : line = script.lines[l]
    BY <1>1, <1>3 DEF A!Told
  <1>5. QED
    BY <1>2, <1>4 DEF Some

LEMMA OutcomeTells ==
  ASSUME AInv, A!Next, ~resumed, ~run.failed
  PROVE  /\ A!Ends("completed") => A!Closed # {} /\ A!Told \cap (A!Failing \cup A!Stalling) = {}
         /\ A!Ends("recovered") => A!Told \cap A!Stalling # {} \/ run.idle # "off"
         /\ A!Ends("interrupted") => A!Closed = {} \/ A!Told \cap A!Failing # {}
  <1>1. \A outcome \in {"completed", "recovered", "interrupted"} :
           A!Ends(outcome) => run.stage = "decide" /\ run.outcome = outcome
    BY DecideTells DEF A!Ends
  <1>2. CASE run.stage # "decide"
    BY <1>1, <1>2
  <1>3. CASE run.stage = "decide" /\ run.caught
    BY <1>1, <1>3 DEF AInv, Fitting, Concluded
  <1>4. CASE run.stage = "decide" /\ ~run.caught /\ ~run.final
    <2>1. run.outcome = "interrupted" /\ run.seen = A!Lines /\ ~Some(A!Closing)
      BY <1>4 DEF AInv, Fitting, Concluded
    <2>2. A!Closed = {}
      BY <2>1 DEF Some, A!Closed
    <2>3. QED
      BY <1>1, <2>1, <2>2
  <1>5. CASE run.stage = "decide" /\ ~run.caught /\ run.final
    <2>1. TurnEnds /\ run.outcome = AsTold
      BY <1>5 DEF AInv, Fitting, Concluded
    <2>2. /\ A!Closed # {}
          /\ A!Told \cap A!Failing # {} <=> Some(A!Failing)
          /\ A!Told \cap A!Stalling # {} <=> Some(A!Stalling)
      BY <2>1, ToldIsSeen
    <2>3. A!Told \cap A!Failing = {} /\ A!Told \cap A!Stalling = {} => A!Told \cap (A!Failing \cup A!Stalling) = {}
      OBVIOUS
    <2>4. QED
      BY <1>1, <2>1, <2>2, <2>3 DEF AsTold
  <1>6. QED
    BY <1>2, <1>3, <1>4, <1>5

LEMMA AgentsFit == A!AgentRunAssumption /\ A!Spec => []AInv
  <1>1. A!AgentRunAssumption /\ A!Init => AInv
    BY AgentStarts DEF A!Init, A!AgentRunAssumption
  <1>2. AInv /\ [A!Next]_A!vars => AInv'
    BY AgentStep
  <1>3. QED
    BY <1>1, <1>2, PTL DEF A!Spec

(* An attach() gives every line of the log once and in order, across       *)
(* chunks, the draining of a dead pane, crashes and restarts.              *)
THEOREM EveryLineOnce == A!Spec => A!LinesAreReadOnce
  <1>1. AInv /\ [A!Next]_A!vars =>
          [run.todo # << >> /\ run'.seen # run.seen /\ run'.stage # "off" => Head(run.todo) = run.seen + 1]_A!vars
    BY OneAfterTheOther
  <1>2. QED
    BY <1>1, AgentsFit, Assumptions, PTL DEF A!Spec, A!LinesAreReadOnce

(* A run ends as its log tells, whatever its agent prints, when it dies,   *)
(* and where the engine stops or crashes.                                  *)
THEOREM OutcomesFitLogs == A!Spec => A!OutcomeFitsLog
  <1>1. AInv /\ [A!Next]_A!vars =>
          [~resumed /\ ~run.failed =>
             /\ A!Ends("completed") => A!Closed # {} /\ A!Told \cap (A!Failing \cup A!Stalling) = {}
             /\ A!Ends("recovered") => A!Told \cap A!Stalling # {} \/ run.idle # "off"
             /\ A!Ends("interrupted") => A!Closed = {} \/ A!Told \cap A!Failing # {}]_A!vars
    BY OutcomeTells
  <1>2. QED
    BY <1>1, AgentsFit, Assumptions, PTL DEF A!Spec, A!OutcomeFitsLog
-----------------------------------------------------------------------------
(* The supervisor remembers no alert that is not in the store: an alert of *)
(* a key is in the store that is no older than the one it remembers.       *)
AlertsFit ==
  /\ reports \in Nat
  /\ recent \in [P!AlertKeys -> Nat] /\ told \in [P!AlertKeys -> Nat]
  /\ \A k \in P!AlertKeys : told[k] <= recent[k] /\ recent[k] <= P!Cooldown

FaultsCount == faults \in Nat

(* a scan that has read a task's status has a task *)
ScanFits ==
  /\ scan = [stage |-> scan.stage, seen |-> scan.seen, task |-> scan.task, found |-> scan.found]
  /\ scan.stage = "got" => scan.task \in Tasks

LEMMA FiringFits ==
  ASSUME AlertsFit, NEW k \in P!AlertKeys, P!fireAlert(k), FaultsCount, reports' \in Nat
  PROVE  /\ AlertsFit' /\ FaultsCount'
         /\ told'[k] < P!Cooldown \/ faults' # faults
  <1>1. CASE recent[k] < P!Cooldown /\ UNCHANGED <<recent, told, faults>>
    BY <1>1 DEF AlertsFit, FaultsCount, P!Cooldown
  <1>2. CASE P!Stored(k)
    BY <1>2 DEF P!Stored, P!store, AlertsFit, FaultsCount, P!Cooldown
  <1>3. CASE P!Fails /\ UNCHANGED <<recent, told>>
    BY <1>3 DEF P!Fails, AlertsFit, FaultsCount
  <1>4. QED
    BY <1>1, <1>2, <1>3 DEF P!fireAlert, P!alerts, P!store

LEMMA TicksFit == ASSUME AlertsFit, P!Tick PROVE AlertsFit'
  <1>1. ASSUME NEW a \in Nat, NEW b \in Nat, a <= b, b <= P!Cooldown
        PROVE  /\ P!Older(a, P!Cooldown) \in Nat /\ P!Older(b, P!Cooldown) \in Nat
               /\ P!Older(a, P!Cooldown) <= P!Older(b, P!Cooldown)
               /\ P!Older(b, P!Cooldown) <= P!Cooldown
    BY <1>1 DEF P!Older, P!Cooldown
  <1>2. /\ recent' = [k \in P!AlertKeys |-> P!Older(recent[k], P!Cooldown)]
        /\ told' = [k \in P!AlertKeys |-> P!Older(told[k], P!Cooldown)]
        /\ UNCHANGED reports
    BY DEF P!Tick, P!world
  <1>3. \A k \in P!AlertKeys : /\ recent[k] \in Nat /\ told[k] \in Nat
                               /\ told[k] <= recent[k] /\ recent[k] <= P!Cooldown
    BY DEF AlertsFit
  <1>4. \A k \in P!AlertKeys : /\ recent'[k] \in Nat /\ told'[k] \in Nat
                               /\ told'[k] <= recent'[k] /\ recent'[k] <= P!Cooldown'
    BY <1>1, <1>2, <1>3 DEF P!Cooldown
  <1>5. QED
    BY <1>2, <1>4 DEF AlertsFit

LEMMA RestartFits == ASSUME AlertsFit, P!Restart PROVE AlertsFit'
  <1> DEFINE key == <<"boot-recovery-failed">>
  <1>1. key \in P!AlertKeys /\ UNCHANGED reports
    BY DEF P!AlertKeys, P!Restart
  <1>2. P!LongAgo \in [P!AlertKeys -> Nat] /\ \A k \in P!AlertKeys : P!LongAgo[k] = P!Cooldown
    BY DEF P!LongAgo, P!Cooldown
  <1>3. \A k \in P!AlertKeys : told[k] \in Nat /\ told[k] <= P!Cooldown
    BY DEF AlertsFit, P!Cooldown
  <1> HIDE DEF key
  <1>4. CASE recent' = P!LongAgo /\ UNCHANGED told
    BY <1>1, <1>2, <1>3, <1>4 DEF AlertsFit, P!Cooldown
  <1>5. CASE recent' = [P!LongAgo EXCEPT ![key] = 0] /\ told' = [told EXCEPT ![key] = 0]
    BY <1>1, <1>2, <1>3, <1>5 DEF AlertsFit, P!Cooldown
  <1>6. QED
    BY <1>4, <1>5 DEF P!Restart, key

LEMMA ScanStepFits == ASSUME ScanFits, P!Next PROVE ScanFits'
  <1> USE DEF ScanFits
  <1>1. CASE P!ScanStarts \/ P!ScanSilence \/ P!ScanDecides \/ P!ScanEnds \/ P!Restart
    BY <1>1 DEF P!ScanStarts, P!ScanSilence, P!ScanDecides, P!ScanEnds, P!Restart, P!NoScan
  <1>2. ASSUME NEW t \in Tasks, P!ScanReads(t) PROVE ScanFits'
    BY <1>2 DEF P!ScanReads
  <1>3. ASSUME UNCHANGED scan PROVE ScanFits'
    BY <1>3
  <1>4. QED
    BY <1>1, <1>2, <1>3
       DEF P!Next, P!ScanStep, P!StartRun, P!EndRun, P!OpenReview, P!Merge, P!CiAttemptCap, P!MergeInconsistent,
           P!TaskTransitioned, P!PushSendFailed, P!Tick, P!Subscribe, P!Unsubscribe, P!SendOne

LEMMA AlertStep ==
  ASSUME AlertsFit, ScanFits, FaultsCount, P!Next
  PROVE  AlertsFit' /\ FaultsCount'
  <1>1. reports \in Nat
    BY DEF AlertsFit
  <1>2. ASSUME P!fireAlert(<<"orchestrator-silent">>) \/ P!fireAlert(<<"push-failures-spike">>)
                \/ \E t \in Tasks : P!fireAlert(<<"merge-inconsistent", t>>) \/ P!fireAlert(<<"ci-exhausted", t>>),
               reports' \in Nat
        PROVE  AlertsFit' /\ FaultsCount'
    BY <1>2, FiringFits DEF P!AlertKeys
  <1>3. ASSUME UNCHANGED <<recent, told>>, reports' \in Nat, faults' = faults \/ faults' = faults + 1
        PROVE  AlertsFit' /\ FaultsCount'
    BY <1>3 DEF AlertsFit, FaultsCount
  <1>4. ASSUME NEW t \in Tasks,
               P!StartRun(t) \/ P!EndRun(t) \/ P!OpenReview(t) \/ P!Merge(t) \/ P!CiAttemptCap(t)
        PROVE  AlertsFit' /\ FaultsCount'
    BY <1>1, <1>3, <1>4 DEF P!StartRun, P!EndRun, P!OpenReview, P!Merge, P!CiAttemptCap, P!TaskTransitioned, P!Reports, P!alerts, P!store
  <1>5. ASSUME NEW t \in Tasks, P!MergeInconsistent(t)
        PROVE  AlertsFit' /\ FaultsCount'
    BY <1>1, <1>2, <1>5 DEF P!MergeInconsistent, P!Reports
  <1>6. CASE P!PushSendFailed
    BY <1>1, <1>2, <1>3, <1>6 DEF P!PushSendFailed, P!Reports, P!alerts, P!store
  <1>7. CASE P!ScanStarts \/ P!ScanEnds \/ \E t \in Tasks : P!ScanReads(t)
    BY <1>1, <1>3, <1>7 DEF P!ScanStarts, P!ScanEnds, P!ScanReads, P!alerts, P!store, P!world, P!Fails
  <1>8. CASE P!ScanSilence
    BY <1>1, <1>2, <1>3, <1>8 DEF P!ScanSilence, P!alerts, P!store, P!world
  <1>9. CASE P!ScanDecides
    <2>1. scan.task \in Tasks
      BY <1>9 DEF P!ScanDecides, ScanFits
    <2>2. QED
      BY <1>1, <1>2, <1>3, <1>9, <2>1 DEF P!ScanDecides, P!alerts, P!store, P!world
  <1>10. CASE P!Tick
    BY <1>10, TicksFit DEF P!Tick, P!store, FaultsCount
  <1>11. CASE P!Restart
    BY <1>11, RestartFits DEF P!Restart, P!store, FaultsCount
  <1>12. ASSUME NEW e \in Endpoints, P!Subscribe(e) \/ P!Unsubscribe(e) \/ P!SendOne(e)
         PROVE  AlertsFit' /\ FaultsCount'
    BY <1>1, <1>3, <1>12 DEF P!Subscribe, P!Unsubscribe, P!SendOne, P!alerts, P!store, P!world, P!Fails
  <1>13. QED
    BY <1>4, <1>5, <1>6, <1>7, <1>8, <1>9, <1>10, <1>11, <1>12 DEF P!Next, P!ScanStep

AlertsHold == AlertsFit /\ ScanFits /\ FaultsCount

LEMMA AlertsStart == P!Init => AlertsFit /\ ScanFits
  <1> SUFFICES ASSUME P!Init PROVE AlertsFit /\ ScanFits
    OBVIOUS
  <1>1. reports = 0 /\ recent = P!LongAgo /\ told = P!LongAgo /\ scan = P!NoScan
    BY DEF P!Init
  <1>2. AlertsFit
    BY <1>1 DEF AlertsFit, P!LongAgo, P!Cooldown
  <1>3. ScanFits
    BY <1>1 DEF ScanFits, P!NoScan
  <1>4. QED
    BY <1>2, <1>3

LEMMA EachIsTold ==
  ASSUME AlertsFit, FaultsCount, NEW t \in Tasks, P!MergeInconsistent(t)
  PROVE  told'[<<"merge-inconsistent", t>>] < P!Cooldown \/ faults' # faults
  <1>1. reports' \in Nat /\ <<"merge-inconsistent", t>> \in P!AlertKeys
    BY DEF AlertsFit, P!MergeInconsistent, P!Reports, P!AlertKeys
  <1>2. QED
    BY <1>1, FiringFits DEF P!MergeInconsistent

LEMMA AlertsAlwaysHold == P!Spec => []AlertsHold
  <1>1. P!Init => AlertsHold
    BY AlertsStart DEF P!Init, AlertsHold, FaultsCount
  <1>2. AlertsHold /\ [P!Next]_P!vars => AlertsHold'
    <2>1. ASSUME AlertsHold, UNCHANGED P!vars PROVE AlertsHold'
      BY <2>1 DEF AlertsHold, AlertsFit, ScanFits, FaultsCount, P!vars, P!world, P!alerts, P!store
    <2>2. QED
      BY <2>1, AlertStep, ScanStepFits DEF AlertsHold
  <1>3. QED
    BY <1>1, <1>2, PTL DEF P!Spec

(* Whenever a merge is reported as inconsistent an alert of it is in the   *)
(* store that is younger than the cooldown, unless the store fails on this *)
(* very report, whatever was remembered, forgotten or not stored before.   *)
THEOREM InconsistenciesAreTold == P!Spec => P!EveryInconsistencyIsTold
  <1>1. AlertsHold /\ [P!Next]_P!vars =>
          [\A t \in Tasks : P!MergeInconsistent(t) =>
             told'[<<"merge-inconsistent", t>>] < P!Cooldown \/ faults' # faults]_P!vars
    BY EachIsTold DEF AlertsHold
  <1>2. QED
    BY <1>1, AlertsAlwaysHold, PTL DEF P!Spec, P!EveryInconsistencyIsTold
-----------------------------------------------------------------------------
(* What TLC explores: a behaviour is about one module, the others rest.    *)
LockRests == UNCHANGED worktreeVars

LEMMA LockRestsKeepIt == ASSUME LockInv, LockRests PROVE LockInv'
  BY DEF LockRests, worktreeVars, LockInv, LockType, Progress, TicketsDiffer, TailIsLast, Chained,
         InsideIsOldest, EndedIsReleased, Open, Issued, Inside, Released

LEMMA PartStep ==
  ASSUME [MCNext]_all
  PROVE  /\ Next \/ LockRests
         /\ S!Next \/ UNCHANGED serviceVars
         /\ A!Next \/ UNCHANGED agentVars
         /\ \/ part = "supervisor" /\ P!Next
            \/ UNCHANGED supervisorVars /\ (part = "supervisor" => UNCHANGED faults)
         /\ UNCHANGED part
  <1>1. CASE OnWorktrees(Next)
    BY <1>1 DEF OnWorktrees
  <1>2. CASE OnAgent(A!Next)
    BY <1>2 DEF OnAgent, LockRests
  <1>3. CASE OnSupervisor(P!Next)
    BY <1>3 DEF OnSupervisor, LockRests
  <1>4. CASE OnServices(S!Next)
    BY <1>4 DEF OnServices, LockRests
  <1>5. CASE OnGithub(G!Next)
    BY <1>5 DEF OnGithub, LockRests
  <1>6. CASE OnSink(L!Next)
    BY <1>6 DEF OnSink, LockRests
  <1>7. CASE UNCHANGED all
    BY <1>7 DEF all, LockRests
  <1>8. QED
    BY <1>1, <1>2, <1>3, <1>4, <1>5, <1>6, <1>7 DEF MCNext

LEMMA ServicesRestKeepIt == ASSUME IInv, UNCHANGED serviceVars PROVE IInv' /\ IsNews
  <1>1. UNCHANGED <<service, log, at, endpoints, sending, pushed, before>>
    BY DEF serviceVars
  <1>2. endpoints' \subseteq Endpoints
    BY <1>1 DEF IInv, Typed
  <1>3. QED
    BY <1>1, <1>2, OthersKeepIt DEF IsNews

(* In every behaviour that TLC explores the lock is exclusive, ...         *)
THEOREM TheLockIsExclusive == MCSpec => []LockIsExclusive
  <1>1. LockInv /\ [MCNext]_all => LockInv'
    BY PartStep, LockStepKeepsIt, LockRestsKeepIt
  <1>2. MCInit => LockInv
    BY LockStarts DEF MCInit
  <1>3. QED
    BY <1>1, <1>2, LockExcludes, PTL DEF MCSpec

LEMMA ServicesStayInOrder == MCSpec => []IInv
  <1>1. IInv /\ [MCNext]_all => IInv'
    BY PartStep, StepKeepsIt, ServicesRestKeepIt
  <1>2. MCInit => IInv
    BY ServicesInit DEF MCInit
  <1>3. QED
    BY <1>1, <1>2, PTL DEF MCSpec

(* ... no transition falls between a service's scan and its tail, ...      *)
THEOREM EveryScanMeetsItsTail == MCSpec => []ScanMeetsTail
  <1>1. IInv => ScanMeetsTail
    BY DEF IInv, Knowing, ScanMeetsTail, S!ScanMeetsTail
  <1>2. QED
    BY <1>1, ServicesStayInOrder, PTL

(* ... and no browser is told of what is history.                          *)
THEOREM NoHistoryIsPushed == MCSpec => HistoryIsNotPushed
  <1>1. IInv /\ [MCNext]_all =>
          [\A e \in Endpoints :
             pushed'[e] # pushed[e] => pushed'[e] > pushed[e] /\ pushed'[e] > before]_S!vars
    BY PartStep, StepKeepsIt, ServicesRestKeepIt DEF IsNews
  <1>2. QED
    BY <1>1, ServicesStayInOrder, PTL DEF MCSpec, HistoryIsNotPushed, S!HistoryIsNotPushed

(* Nor is a worktree given that is not whole, ...                          *)
THEOREM GivenWorktreesAreWhole == MCSpec => GivenWorktreeIsWhole
  <1>1. ASSUME TreeInv, LockRests PROVE TreeInv' /\ AllGivesWhole
    <2>1. UNCHANGED <<dir, registered, call, killed>>
      BY <1>1 DEF LockRests, worktreeVars
    <2>2. TreeType' /\ LateIsTimeout' /\ TreesFit'
      BY <1>1, <2>1 DEF TreeInv, TreeType, LateIsTimeout, Late, Inside, Released, Issued, TreesFit, Undisturbed, Adding, At
    <2>3. LockInv'
      BY <1>1, LockRestsKeepIt DEF TreeInv
    <2>4. QED
      BY <2>1, <2>2, <2>3 DEF TreeInv, AllGivesWhole, GivesWhole, Released
  <1>2. TreeInv /\ [MCNext]_all => TreeInv' /\ AllGivesWhole
    BY <1>1, PartStep, TreeInvStep
  <1>3. TreeInv /\ [MCNext]_all =>
          [\A c \in Calls :
             /\ ~Released(c) /\ call'[c].answer = "ok" /\ ~Cleans(c)
             /\ ~killed /\ \A d \in Calls : call[d].answer # "timeout"
             => dir'[call[c].task] = "whole" /\ call[c].task \in registered']_vars
    BY <1>2 DEF AllGivesWhole, GivesWhole, Undisturbed
  <1>4. MCInit => TreeInv
    BY TreesStart DEF MCInit
  <1>5. QED
    BY <1>2, <1>3, <1>4, PTL DEF MCSpec, GivenWorktreeIsWhole

LEMMA AgentsStayFit == MCSpec => []AInv
  <1>1. ASSUME AInv, UNCHANGED agentVars PROVE AInv'
    <2>1. /\ UNCHANGED <<script, wrote, logged, piped, sentinel, saved, resumed, engine, run>>
          /\ UNCHANGED <<Places(run), Tallies(run), run.stage, run.last, run.failed>>
      BY <1>1 DEF agentVars, Places, Tallies
    <2>2. LogGrows' /\ (Complete => Complete')
      BY <1>1, <2>1 DEF AInv, LogGrows, Complete
    <2>3. wrote' \in Nat /\ logged' \in Nat /\ logged <= logged' /\ run' \in RunRecord
      BY <1>1, <2>1 DEF AInv, AgentTyped
    <2>4. QED
      BY <1>1, <2>1, <2>2, <2>3, QuietKeepsIt
  <1>2. AInv /\ [MCNext]_all => AInv'
    BY <1>1, PartStep, AgentStep
  <1>3. ASSUME MCInit PROVE AInv
    <2>1. PICK scripts : scripts = (IF part = "agent" THEN Scripts ELSE {Says("pi", << >>)}) /\ A!InitWith(scripts)
      BY <1>3 DEF MCInit
    <2>2. << >> \in Seq(A!LineTypes("pi")) /\ "pi" \in A!Agents
      BY DEF A!Agents
    <2>3. \A s \in scripts : s.provider \in A!Agents /\ s.lines \in Seq(A!LineTypes(s.provider))
      <3>1. CASE part = "agent"
        BY <2>1, <3>1, Assumptions DEF A!AgentRunAssumption
      <3>2. CASE part # "agent"
        <4>1. ASSUME NEW s \in scripts PROVE s.provider = "pi" /\ s.lines = << >>
          BY <2>1, <3>2, <4>1 DEF Says
        <4>2. QED
          BY <2>2, <4>1
      <3>3. QED
        BY <3>1, <3>2
    <2>4. QED
      BY <2>1, <2>3, AgentStarts
  <1>4. QED
    BY <1>2, <1>3, PTL DEF MCSpec

(* ... a line lost or read twice, ...                                      *)
THEOREM LinesAreOnce == MCSpec => LinesAreReadOnce
  <1>1. AInv /\ [MCNext]_all =>
          [run.todo # << >> /\ run'.seen # run.seen /\ run'.stage # "off" => Head(run.todo) = run.seen + 1]_A!vars
    BY PartStep, OneAfterTheOther DEF agentVars
  <1>2. QED
    BY <1>1, AgentsStayFit, PTL DEF MCSpec, LinesAreReadOnce, A!LinesAreReadOnce

(* ... or a run ended otherwise than its log tells, ...                    *)
THEOREM RunsEndAsLogged == MCSpec => OutcomeFitsLog
  <1>1. ASSUME UNCHANGED agentVars, NEW outcome PROVE ~A!Ends(outcome)
    BY <1>1 DEF agentVars, A!Ends
  <1>2. AInv /\ [MCNext]_all =>
          [~resumed /\ ~run.failed =>
             /\ A!Ends("completed") => A!Closed # {} /\ A!Told \cap (A!Failing \cup A!Stalling) = {}
             /\ A!Ends("recovered") => A!Told \cap A!Stalling # {} \/ run.idle # "off"
             /\ A!Ends("interrupted") => A!Closed = {} \/ A!Told \cap A!Failing # {}]_A!vars
    BY <1>1, PartStep, OutcomeTells
  <1>3. QED
    BY <1>2, AgentsStayFit, PTL DEF MCSpec, OutcomeFitsLog, A!OutcomeFitsLog

(* ... and every inconsistency is told.                                    *)
THEOREM NoInconsistencyIsMissed == MCSpec => EveryInconsistencyIsTold
  <1> DEFINE Alerts == AlertsFit /\ ScanFits /\ (part = "supervisor" => FaultsCount)
  <1>1. ASSUME AlertsFit, ScanFits, UNCHANGED supervisorVars PROVE AlertsFit' /\ ScanFits'
    BY <1>1 DEF AlertsFit, ScanFits, supervisorVars
  <1>2. ASSUME Alerts, [MCNext]_all PROVE Alerts'
    <2>1. CASE part = "supervisor" /\ P!Next
      BY <1>2, <2>1, AlertStep, ScanStepFits
    <2>2. CASE UNCHANGED supervisorVars /\ (part = "supervisor" => UNCHANGED faults)
      BY <1>1, <1>2, <2>2, PartStep DEF FaultsCount
    <2>3. QED
      BY <1>2, <2>1, <2>2, PartStep
  <1>3. ASSUME Alerts, [MCNext]_all, NEW t \in Tasks, P!MergeInconsistent(t)
        PROVE  told'[<<"merge-inconsistent", t>>] < P!Cooldown \/ faults' # faults
    <2>1. CASE part = "supervisor"
      BY <1>3, <2>1, EachIsTold
    <2>2. CASE UNCHANGED supervisorVars
      BY <1>3, <2>2 DEF AlertsFit, P!MergeInconsistent, P!Reports, supervisorVars
    <2>3. QED
      BY <1>3, <2>1, <2>2, PartStep
  <1>4. Alerts /\ [MCNext]_all =>
          [\A t \in Tasks : P!MergeInconsistent(t) =>
             told'[<<"merge-inconsistent", t>>] < P!Cooldown \/ faults' # faults]_P!vars
    BY <1>3
  <1>5. MCInit => Alerts
    BY AlertsStart DEF MCInit, P!Init, FaultsCount
  <1>6. QED
    BY <1>2, <1>4, <1>5, PTL DEF MCSpec, EveryInconsistencyIsTold, P!EveryInconsistencyIsTold
=============================================================================
