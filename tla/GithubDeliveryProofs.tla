------------------------ MODULE GithubDeliveryProofs ------------------------
(***************************************************************************)
(* Delivery by way of GitHub, for any number of tasks, operators, runs,    *)
(* faults and crashes: no merge goes untold, no head is repaired twice, no *)
(* unchecked work is merged by the babysitter.  One inductive invariant    *)
(* carries the three: it says what every call of MergeService and every    *)
(* watch of the babysitter may rely on at each stage, although others push *)
(* to, rebase, merge and take away what it works with.                     *)
(***************************************************************************)
EXTENDS DeliveryProofs

Heads == Nat \X Nat
OptHead == Heads \cup {Unset}
Callers == {"dispatcher", "babysitter", "land"} \cup Operators

AtBranch == {"prepare", "push"}
AtRequest == {"review", "reviewFound", "mergeable", "apply", "finalize"}
CallStages == AtBranch \cup {"rebase", "pushRebased", "find", "open"} \cup AtRequest
Call == [by : Callers, task : Tasks, stage : CallStages, pr : Nat, head : OptHead,
         tries : Nat, aborted : BOOLEAN]

Watching == {"sleep", "look", "confirm", "judge"}
Poll == [task : Tasks, stage : Watching \cup {"start", "repair"}, pr : Nat, head : OptHead,
         aborted : BOOLEAN]

GithubStatuses == {"running", "finalizing", "pr-open", "needs-review", "merged", "cancelled"}

ActorTypes ==
  /\ status \in [Tasks -> GithubStatuses]
  /\ calls \subseteq Call /\ polls \subseteq Poll

DataTypes ==
  /\ reported \in [Tasks -> OptHead]
  /\ local \in [Tasks -> Heads] /\ remote \in [Tasks -> OptHead]
  /\ prs \in [Tasks -> Seq({"open", "merged"})]
  /\ checks \subseteq Tasks \X OptHead \X {"passed", "failed", "other"}
  /\ merges \subseteq Callers \X Tasks \X OptHead
  /\ repairs \in Seq(Tasks \X Heads)
  /\ {baseV, faults, crashes} \subseteq Nat

(* The head k of a branch is later than h: it has more commits of the      *)
(* agent, or as many and a later base.                                     *)
Later(h, k) == h[1] < k[1] \/ (h[1] = k[1] /\ h[2] < k[2])
UpTo(h, k) == h = k \/ Later(h, k)

HasMerged(t) == G!Contains(prs[t], "merged")

(* a check of this work of the agent has ended without a failure *)
Checked(t, h) == \E x \in checks : x[1] = t /\ x[2][1] = h[1] /\ x[3] # "failed"

CallLive(e) == e.by = "babysitter" /\ ~e.aborted => status[e.task] = "pr-open"

CallFits(e) ==
  /\ e.stage \notin AtBranch => remote[e.task] # Unset
  /\ e.stage \in AtRequest => e.pr \in DOMAIN prs[e.task]
  /\ e.stage = "finalize" => HasMerged(e.task)
  /\ e.by = "babysitter" /\ e.task \notin strays =>
       /\ ~e.aborted => Checked(e.task, local[e.task])
       /\ e.stage = "apply" => Checked(e.task, e.head)

PollLive(p) == ~p.aborted => status[p.task] = "pr-open"

PollFits(p) ==
  /\ p.stage # "start" => p.head # Unset
  /\ p.stage \in {"confirm", "judge"} => G!Concluded(p.task, p.head) # {}
  /\ p.stage \in Watching /\ ~p.aborted =>
       /\ remote[p.task] # Unset
       /\ p.task \notin strays => p.head[1] = local[p.task][1]
       /\ p.task \notin late =>
            /\ UpTo(p.head, remote[p.task])
            /\ reported[p.task] # Unset => Later(reported[p.task], p.head)
  /\ p.stage = "repair" =>
       /\ p.aborted
       /\ p.task \notin late =>
            /\ reported[p.task] # Unset /\ UpTo(p.head, reported[p.task])
            /\ \A i \in DOMAIN repairs : repairs[i] # <<p.task, p.head>>

TaskFits(t) ==
  /\ status[t] = "pr-open" =>
       remote[t] # Unset /\ (t \notin strays => remote[t][1] = local[t][1])
  /\ t \notin late /\ reported[t] # Unset => remote[t] # Unset /\ UpTo(reported[t], remote[t])
  /\ local[t][2] <= baseV
  /\ remote[t] # Unset => UpTo(remote[t], local[t])

(* no head is to be repaired, or has been, twice *)
RepairsFit ==
  /\ \A i \in DOMAIN repairs :
       LET t == repairs[i][1] IN
         t \notin late => reported[t] # Unset /\ UpTo(repairs[i][2], reported[t])
  /\ OneRepairPerHead
  /\ \A p, q \in polls :
       p.stage = "repair" /\ q.stage = "repair" /\ p.task = q.task /\ p.head = q.head
         /\ p.task \notin late => p = q

ActorsFit ==
  /\ \A e \in calls : CallLive(e) /\ CallFits(e)
  /\ \A p \in polls : PollLive(p) /\ PollFits(p)

GithubInv ==
  /\ DataTypes /\ ActorTypes /\ ActorsFit
  /\ \A t \in Tasks : TaskFits(t)
  /\ RepairsFit
  /\ G!MergeIsTold
  /\ G!AutoMergedWorkWasChecked
-----------------------------------------------------------------------------
LEMMA LaterIsOrder ==
  ASSUME NEW h \in Heads, NEW k \in Heads, NEW m \in Heads
  PROVE  /\ ~Later(h, h) /\ UpTo(h, h)
         /\ UpTo(h, k) /\ h # k => Later(h, k)
         /\ UpTo(h, k) /\ UpTo(k, m) => UpTo(h, m)
         /\ Later(h, k) /\ UpTo(k, m) => Later(h, m)
         /\ UpTo(h, k) /\ Later(k, m) => Later(h, m)
  BY DEF Heads, Later, UpTo

LEMMA UnsetIsNoHead == Unset \notin Heads
  BY Assumptions DEF G!GithubDeliveryAssumption, Heads

(* what a step only adds to: nothing that was checked, pushed or merged is *)
(* taken back                                                              *)
Onward ==
  /\ checks \subseteq checks' /\ strays \subseteq strays' /\ late \subseteq late'
  /\ \A t \in Tasks :
       /\ DOMAIN prs[t] \subseteq DOMAIN prs'[t] /\ (HasMerged(t) => HasMerged(t)')
       /\ remote[t] # Unset => remote'[t] # Unset /\ UpTo(remote[t], remote'[t])
       /\ status[t] # "running" => local'[t][1] = local[t][1]

(* the same call, or watch, though it may have been dropped *)
Carried(e, d) ==
  /\ d.by = e.by /\ d.task = e.task /\ d.stage = e.stage /\ d.pr = e.pr /\ d.head = e.head
  /\ e.aborted => d.aborted

CarriedPoll(p, q) ==
  /\ q.task = p.task /\ q.stage = p.stage /\ q.pr = p.pr /\ q.head = p.head
  /\ p.aborted => q.aborted

LEMMA CallPersists ==
  ASSUME DataTypes, Onward, NEW e \in Call, CallFits(e), CallLive(e)
  PROVE  CallFits(e)'
  <1>1. e.task \in Tasks
    BY DEF Call
  <1>2. ASSUME NEW h, NEW k, Checked(e.task, h), k[1] = h[1]
        PROVE  \E x \in checks' : x[1] = e.task /\ x[2][1] = k[1] /\ x[3] # "failed"
    BY <1>2 DEF Checked, Onward
  <1>3. e.by = "babysitter" /\ e.task \notin strays' =>
          /\ ~e.aborted => Checked(e.task, local[e.task])'
          /\ e.stage = "apply" => Checked(e.task, e.head)'
    <2> SUFFICES ASSUME e.by = "babysitter", e.task \notin strays'
                 PROVE  /\ ~e.aborted => Checked(e.task, local[e.task])'
                        /\ e.stage = "apply" => Checked(e.task, e.head)'
      OBVIOUS
    <2>1. e.task \notin strays
      BY DEF Onward
    <2>2. ASSUME ~e.aborted PROVE Checked(e.task, local[e.task])'
      <3>1. Checked(e.task, local[e.task]) /\ status[e.task] = "pr-open"
        BY <2>1, <2>2 DEF CallFits, CallLive
      <3>2. local'[e.task][1] = local[e.task][1]
        BY <1>1, <3>1 DEF Onward
      <3>3. QED
        BY <1>2, <3>1, <3>2 DEF Checked
    <2>3. ASSUME e.stage = "apply" PROVE Checked(e.task, e.head)'
      BY <1>2, <2>1, <2>3 DEF CallFits, Checked
    <2>4. QED
      BY <2>2, <2>3
  <1>4. QED
    BY <1>1, <1>3 DEF CallFits, Onward

LEMMA PollPersists ==
  ASSUME DataTypes, DataTypes', Onward, UNCHANGED <<reported, repairs>>,
         NEW p \in Poll, PollFits(p), PollLive(p)
  PROVE  PollFits(p)'
  <1>1. p.task \in Tasks /\ p.head \in OptHead
    BY DEF Poll
  <1>2. G!Concluded(p.task, p.head) # {} => G!Concluded(p.task, p.head)' # {}
    BY DEF Onward, G!Concluded
  <1>3. p.stage \in Watching /\ ~p.aborted =>
          /\ remote'[p.task] # Unset
          /\ p.task \notin strays' => p.head[1] = local'[p.task][1]
          /\ p.task \notin late' => /\ UpTo(p.head, remote'[p.task])
                                    /\ reported[p.task] # Unset => Later(reported[p.task], p.head)
    <2> SUFFICES ASSUME p.stage \in Watching, ~p.aborted
                 PROVE  /\ remote'[p.task] # Unset
                        /\ p.task \notin strays' => p.head[1] = local'[p.task][1]
                        /\ p.task \notin late' =>
                             /\ UpTo(p.head, remote'[p.task])
                             /\ reported[p.task] # Unset => Later(reported[p.task], p.head)
      OBVIOUS
    <2>1. /\ remote[p.task] # Unset /\ status[p.task] = "pr-open"
          /\ p.head # Unset
      BY DEF PollFits, PollLive, Watching
    <2>2. remote'[p.task] # Unset /\ UpTo(remote[p.task], remote'[p.task])
          /\ local'[p.task][1] = local[p.task][1]
      BY <1>1, <2>1 DEF Onward
    <2>3. p.task \notin strays' => p.head[1] = local'[p.task][1]
      BY <2>2 DEF PollFits, Onward
    <2>4. ASSUME p.task \notin late'
          PROVE  /\ UpTo(p.head, remote'[p.task])
                 /\ reported[p.task] # Unset => Later(reported[p.task], p.head)
      <3>1. /\ UpTo(p.head, remote[p.task])
            /\ reported[p.task] # Unset => Later(reported[p.task], p.head)
        BY <2>4 DEF PollFits, Onward
      <3>2. UpTo(p.head, remote'[p.task])
        <4>1. p.head \in Heads /\ remote[p.task] \in Heads /\ remote'[p.task] \in Heads
          BY <1>1, <2>1, <2>2 DEF OptHead, DataTypes
        <4>2. QED
          BY <2>2, <3>1, <4>1, LaterIsOrder
      <3>3. QED
        BY <3>1, <3>2
    <2>5. QED
      BY <2>2, <2>3, <2>4
  <1>4. QED
    BY <1>1, <1>2, <1>3 DEF PollFits, Onward
(* what a step makes of the calls and the watches it leaves *)
Stays(others, watches) == status' = status /\ calls' = others /\ polls' = watches

MovesOn(t, to, others, watches) ==
  /\ t \in Tasks /\ to \in GithubStatuses
  /\ G!MoveTo(t, to, others, watches)

LEMMA NewCallFits ==
  ASSUME NEW caller \in Callers, NEW t \in Tasks
  PROVE  /\ G!NewCall(caller, t) \in Call
         /\ G!NewCall(caller, t).by = caller /\ G!NewCall(caller, t).task = t
         /\ G!NewCall(caller, t).stage = "prepare" /\ ~G!NewCall(caller, t).aborted
  BY DEF G!NewCall, Call, OptHead, CallStages, AtBranch

LEMMA NewPollFits ==
  ASSUME NEW t \in Tasks
  PROVE  /\ G!NewPoll(t) \in Poll /\ G!NewPoll(t).task = t
         /\ G!NewPoll(t).stage = "start" /\ ~G!NewPoll(t).aborted
         /\ PollFits(G!NewPoll(t))'
  BY DEF G!NewPoll, Poll, OptHead, Watching, PollFits

LEMMA AbortedCall ==
  ASSUME NEW e \in Call, NEW x \in BOOLEAN
  PROVE  LET d == [e EXCEPT !.aborted = e.aborted \/ x] IN
           d \in Call /\ Carried(e, d) /\ (x => d.aborted)
  BY DEF Call, Carried

LEMMA AbortedPoll ==
  ASSUME NEW p \in Poll, NEW x \in BOOLEAN
  PROVE  LET q == [p EXCEPT !.aborted = p.aborted \/ x] IN
           /\ q \in Poll /\ CarriedPoll(p, q) /\ (x => q.aborted)
           /\ p.aborted => q = p
  BY DEF Poll, CarriedPoll

LEMMA CarriedFits ==
  ASSUME NEW e, NEW d, CallFits(e)', Carried(e, d)
  PROVE  CallFits(d)'
  BY DEF CallFits, Carried

LEMMA CarriedPollFits ==
  ASSUME NEW p, NEW q, PollFits(p)', CarriedPoll(p, q)
  PROVE  PollFits(q)'
  BY DEF PollFits, CarriedPoll

LEMMA CallsMove ==
  ASSUME NEW others \in SUBSET Call, NEW watches, NEW t, NEW to,
         ActorTypes, MovesOn(t, to, others, watches),
         \A e \in others : CallLive(e) /\ CallFits(e)'
  PROVE  /\ calls' \subseteq Call
         /\ \A d \in calls' : CallLive(d)' /\ CallFits(d)'
         /\ \A e \in others : \E d \in calls' : d.task = e.task /\ d.stage = e.stage
  <1> DEFINE Dropping(e) == [e EXCEPT !.aborted = e.aborted \/ G!Dropped(e, t, to)]
             new == G!NewCall("dispatcher", t)
  <1>1. /\ t \in Tasks /\ status' = [status EXCEPT ![t] = to]
        /\ \/ calls' = {Dropping(e) : e \in others}
           \/ calls' = {Dropping(e) : e \in others} \cup {new}
    BY DEF MovesOn, G!MoveTo
  <1>2. \A u \in Tasks : status'[u] = IF u = t THEN to ELSE status[u]
    BY <1>1 DEF ActorTypes
  <1>3. ASSUME NEW e \in others
        PROVE  /\ Dropping(e) \in Call /\ Carried(e, Dropping(e))
               /\ G!Dropped(e, t, to) => Dropping(e).aborted
    <2>1. G!Dropped(e, t, to) \in BOOLEAN
      BY DEF G!Dropped
    <2>2. QED
      BY <2>1, AbortedCall
  <1>4. new \in Call /\ new.by = "dispatcher" /\ new.stage = "prepare"
    BY <1>1, NewCallFits DEF Callers
  <1>5. ASSUME NEW d, d = new PROVE CallLive(d)' /\ CallFits(d)'
    BY <1>4, <1>5 DEF CallLive, CallFits, AtBranch, AtRequest
  <1> HIDE DEF Dropping, new
  <1>6. ASSUME NEW e \in others, NEW d, d = Dropping(e) PROVE CallLive(d)' /\ CallFits(d)'
    <2>1. /\ Carried(e, d) /\ (G!Dropped(e, t, to) => d.aborted) /\ CallLive(e) /\ CallFits(e)'
          /\ e.task \in Tasks
      BY <1>3, <1>6 DEF Call
    <2>2. CallFits(d)'
      BY <2>1, CarriedFits
    <2>3. CallLive(d)'
      BY <1>2, <2>1 DEF CallLive, Carried, G!Dropped
    <2>4. QED
      BY <2>2, <2>3
  <1>7. calls' \subseteq Call
    BY <1>1, <1>3, <1>4
  <1>8. ASSUME NEW d \in calls' PROVE CallLive(d)' /\ CallFits(d)'
    <2>1. CASE d = new
      BY <1>5, <2>1
    <2>2. CASE \E e \in others : d = Dropping(e)
      BY <1>6, <2>2
    <2>3. QED
      BY <1>1, <2>1, <2>2
  <1>9. ASSUME NEW e \in others PROVE \E d \in calls' : d.task = e.task /\ d.stage = e.stage
    <2>1. Dropping(e) \in calls'
      BY <1>1
    <2>2. QED
      BY <1>3, <2>1 DEF Carried
  <1>10. QED
    BY <1>7, <1>8, <1>9

LEMMA PollsMove ==
  ASSUME NEW others, NEW watches \in SUBSET Poll, NEW t, NEW to,
         ActorTypes, MovesOn(t, to, others, watches),
         \A p \in watches : PollLive(p) /\ PollFits(p)'
  PROVE  /\ polls' \subseteq Poll
         /\ \A q \in polls' : PollLive(q)' /\ PollFits(q)'
         /\ \A q \in polls' : q.stage = "repair" => q \in watches
  <1> DEFINE ended == "pr-open" \in {status[t], to}
             Dropping(p) == [p EXCEPT !.aborted = p.aborted \/ (p.task = t /\ ended)]
             new == G!NewPoll(t)
  <1>1. /\ t \in Tasks /\ status' = [status EXCEPT ![t] = to]
        /\ \A q \in polls' : (q = new /\ to = "pr-open") \/ \E p \in watches : q = Dropping(p)
    BY DEF MovesOn, G!MoveTo
  <1>2. \A u \in Tasks : status'[u] = IF u = t THEN to ELSE status[u]
    BY <1>1 DEF ActorTypes
  <1>3. ASSUME NEW p \in watches
        PROVE  /\ Dropping(p) \in Poll /\ CarriedPoll(p, Dropping(p))
               /\ p.task = t /\ ended => Dropping(p).aborted
               /\ p.aborted => Dropping(p) = p
    <2>1. (p.task = t /\ ended) \in BOOLEAN
      OBVIOUS
    <2>2. QED
      BY <2>1, AbortedPoll
  <1>4. new \in Poll /\ new.task = t /\ new.stage = "start"
    BY <1>1, NewPollFits
  <1>5. ASSUME NEW q, q = new, to = "pr-open" PROVE PollLive(q)' /\ PollFits(q)'
    BY <1>1, <1>2, <1>4, <1>5 DEF PollLive, PollFits, Watching
  <1> HIDE DEF Dropping, new
  <1>6. ASSUME NEW p \in watches, NEW q, q = Dropping(p)
        PROVE  /\ PollLive(q)' /\ PollFits(q)'
               /\ q.stage = "repair" => q = p
    <2>1. /\ CarriedPoll(p, q) /\ (p.task = t /\ ended => q.aborted) /\ PollLive(p) /\ PollFits(p)'
          /\ p.task \in Tasks /\ (p.aborted => q = p)
      BY <1>3, <1>6 DEF Poll
    <2>2. PollFits(q)'
      BY <2>1, CarriedPollFits
    <2>3. PollLive(q)'
      BY <1>2, <2>1 DEF PollLive, CarriedPoll
    <2>4. q.stage = "repair" => p.aborted
      BY <2>1 DEF PollFits, CarriedPoll
    <2>5. QED
      BY <2>1, <2>2, <2>3, <2>4
  <1>7. polls' \subseteq Poll
    BY <1>1, <1>3, <1>4
  <1>8. ASSUME NEW q \in polls'
        PROVE  PollLive(q)' /\ PollFits(q)' /\ (q.stage = "repair" => q \in watches)
    <2>1. CASE q = new /\ to = "pr-open"
      BY <1>4, <1>5, <2>1
    <2>2. CASE \E p \in watches : q = Dropping(p)
      BY <1>6, <2>2
    <2>3. QED
      BY <1>1, <2>1, <2>2
  <1>9. QED
    BY <1>7, <1>8

(* A step that leaves the calls "others" and the watches "watches", and    *)
(* moves at most one task.                                                 *)
Leaves(others, watches) ==
  Stays(others, watches) \/ \E t, to : MovesOn(t, to, others, watches)

LEMMA ActorsAfter ==
  ASSUME NEW others \in SUBSET Call, NEW watches \in SUBSET Poll, ActorTypes,
         Leaves(others, watches),
         \A e \in others : CallLive(e) /\ CallFits(e)',
         \A p \in watches : PollLive(p) /\ PollFits(p)'
  PROVE  /\ ActorTypes' /\ ActorsFit'
         /\ \A q \in polls' : q.stage = "repair" => q \in watches
         /\ \A e \in others : \E d \in calls' : d.task = e.task /\ d.stage = e.stage
  <1>1. CASE Stays(others, watches)
    BY <1>1 DEF Stays, ActorTypes, ActorsFit, CallLive, PollLive
  <1>2. CASE \E t, to : MovesOn(t, to, others, watches)
    <2>1. PICK t, to : MovesOn(t, to, others, watches)
      BY <1>2
    <2>2. status' \in [Tasks -> GithubStatuses]
      BY <2>1 DEF MovesOn, G!MoveTo, ActorTypes
    <2>3. QED
      BY <2>1, <2>2, CallsMove, PollsMove DEF ActorTypes, ActorsFit
  <1>3. QED
    BY <1>1, <1>2 DEF Leaves
-----------------------------------------------------------------------------
(* the parts of the invariant that are not about one call or one watch *)
LEMMA RepairsPersist ==
  ASSUME RepairsFit, late \subseteq late', UNCHANGED <<reported, repairs>>,
         \A q \in polls' : q.stage = "repair" => q \in polls
  PROVE  RepairsFit'
  BY DEF RepairsFit, OneRepairPerHead, G!OneRepairPerHead

LEMMA MergesPersist ==
  ASSUME G!AutoMergedWorkWasChecked, Onward, merges' = merges
  PROVE  G!AutoMergedWorkWasChecked'
  BY DEF G!AutoMergedWorkWasChecked, Onward

LEMMA TasksPersist ==
  ASSUME NEW u, TaskFits(u), UNCHANGED <<reported, local, remote, baseV>>,
         strays \subseteq strays', late \subseteq late',
         status'[u] = "pr-open" => status[u] = "pr-open"
  PROVE  TaskFits(u)'
  BY DEF TaskFits

LEMMA ToldPersists ==
  ASSUME G!MergeIsTold, Onward,
         \A t \in Tasks : status'[t] = "merged" <=> status[t] = "merged",
         \A t \in Tasks : HasMerged(t)' => HasMerged(t),
         alarms \subseteq alarms', faults' = 0 => faults = 0, crashes' = 0 => crashes = 0,
         \A e \in calls : e.stage = "finalize" =>
           \E d \in calls' : d.task = e.task /\ d.stage = "finalize"
  PROVE  G!MergeIsTold'
  BY DEF G!MergeIsTold, Onward, HasMerged
-----------------------------------------------------------------------------
(* transitions *)
Unopened == \A u \in Tasks : status'[u] = "pr-open" => status[u] = "pr-open"
SameMerged == \A u \in Tasks : status'[u] = "merged" <=> status[u] = "merged"
OthersStay(e) ==
  \A x \in calls \ {e} : \E d \in calls' : d.task = x.task /\ d.stage = x.stage
FinalizersStay ==
  \A e \in calls : e.stage = "finalize" =>
    \E d \in calls' : d.task = e.task /\ d.stage = "finalize"

Moved(t, to) == \A u \in Tasks : status'[u] = IF u = t THEN to ELSE status[u]

LEMMA MovesTo ==
  ASSUME ActorTypes, NEW t \in Tasks, NEW others, NEW watches, NEW to \in GithubStatuses,
         G!MoveTo(t, to, others, watches)
  PROVE  MovesOn(t, to, others, watches) /\ Moved(t, to) /\ Leaves(others, watches)
  <1>1. MovesOn(t, to, others, watches)
    BY DEF MovesOn
  <1>2. Moved(t, to)
    BY DEF G!MoveTo, Moved, ActorTypes
  <1>3. QED
    BY <1>1, <1>2 DEF Leaves

LEMMA TransitMoves ==
  ASSUME ActorTypes, NEW t \in Tasks, NEW others, NEW watches
  PROVE  /\ G!Transit(t, "merge-conflict", others, watches) =>
              /\ status[t] \in {"pr-open", "finalizing", "ci-pending"}
              /\ G!MoveTo(t, "needs-review", others, watches)
         /\ G!Transit(t, "mark-running", others, watches) =>
              /\ status[t] \in {"ready", "needs-review", "pr-open"}
              /\ G!MoveTo(t, "running", others, watches)
         /\ G!Transit(t, "open-review", others, watches) =>
              /\ status[t] = "finalizing"
              /\ G!MoveTo(t, "pr-open", others, watches)
         /\ G!Transit(t, "merge-task", others, watches) =>
              /\ status[t] = "pr-open"
              /\ G!MoveTo(t, "merged", others, watches)
  BY DEF G!Transit, G!Accepts, G!From, G!Target

(* a transition from work that is open to neither open nor merged work *)
LEMMA ClosingMove ==
  ASSUME NEW t, NEW to, Moved(t, to), status[t] # "merged",
         to \notin {"pr-open", "merged"}
  PROVE  Unopened /\ SameMerged
  BY DEF Moved, Unopened, SameMerged

(* a call that throws, meets a conflict or goes on, and leaves the tasks   *)
(* that are merged to be recorded as they are                              *)
GoesOn(e) == \E d \in Call : G!Goes(e, d) /\ CallLive(d) /\ CallFits(d)'

LEMMA CallActs ==
  ASSUME GithubInv, DataTypes', Onward, UNCHANGED <<reported, late, repairs>>,
         NEW e \in calls,
         G!Throws(e) \/ G!Conflicts(e) \/ GoesOn(e)
  PROVE  /\ ActorTypes' /\ ActorsFit' /\ RepairsFit'
         /\ Unopened /\ SameMerged /\ OthersStay(e)
  <1>0. /\ ActorTypes /\ ActorsFit /\ RepairsFit /\ DataTypes
        /\ e.task \in Tasks /\ calls \subseteq Call /\ polls \subseteq Poll
    BY DEF GithubInv, ActorTypes, Call
  <1>1. \A d \in calls : CallLive(d) /\ CallFits(d)'
    BY <1>0, CallPersists DEF ActorsFit
  <1>2. \A p \in polls : PollLive(p) /\ PollFits(p)'
    BY <1>0, PollPersists DEF ActorsFit
  <1>3. ASSUME NEW others \in SUBSET Call, calls \ {e} \subseteq others,
               \A d \in others : CallLive(d) /\ CallFits(d)', Leaves(others, polls),
               Unopened /\ SameMerged
        PROVE  /\ ActorTypes' /\ ActorsFit' /\ RepairsFit'
               /\ Unopened /\ SameMerged /\ OthersStay(e)
    <2>1. /\ ActorTypes' /\ ActorsFit'
          /\ \A q \in polls' : q.stage = "repair" => q \in polls
          /\ \A x \in others : \E d \in calls' : d.task = x.task /\ d.stage = x.stage
      BY <1>0, <1>2, <1>3, ActorsAfter
    <2>2. RepairsFit'
      BY <1>0, <2>1, RepairsPersist
    <2>3. OthersStay(e)
      BY <1>3, <2>1 DEF OthersStay
    <2>4. QED
      BY <1>3, <2>1, <2>2, <2>3
  <1>4. CASE G!Throws(e)
    <2>1. Leaves(calls \ {e}, polls) /\ Unopened /\ SameMerged
      BY <1>4 DEF G!Throws, Leaves, Stays, Unopened, SameMerged
    <2>2. calls \ {e} \in SUBSET Call /\ \A d \in calls \ {e} : CallLive(d) /\ CallFits(d)'
      BY <1>0, <1>1
    <2>3. QED
      BY <1>3, <2>1, <2>2
  <1>5. CASE GoesOn(e)
    <2>1. PICK d \in Call : G!Goes(e, d) /\ CallLive(d) /\ CallFits(d)'
      BY <1>5 DEF GoesOn
    <2>2. Leaves((calls \ {e}) \cup {d}, polls) /\ Unopened /\ SameMerged
      BY <2>1 DEF G!Goes, Leaves, Stays, Unopened, SameMerged
    <2>3. /\ (calls \ {e}) \cup {d} \in SUBSET Call
          /\ \A x \in (calls \ {e}) \cup {d} : CallLive(x) /\ CallFits(x)'
      BY <1>0, <1>1, <2>1
    <2>4. QED
      BY <1>3, <2>2, <2>3
  <1>6. CASE G!Conflicts(e) /\ ~G!Throws(e)
    <2>1. G!Transit(e.task, "merge-conflict", calls \ {e}, polls)
      BY <1>6 DEF G!Conflicts, G!Returns
    <2>2. /\ status[e.task] \in {"pr-open", "finalizing", "ci-pending"}
          /\ G!MoveTo(e.task, "needs-review", calls \ {e}, polls)
      BY <1>0, <2>1, TransitMoves
    <2>3. Leaves(calls \ {e}, polls) /\ Moved(e.task, "needs-review")
      BY <1>0, <2>2, MovesTo DEF GithubStatuses
    <2>4. Unopened /\ SameMerged
      BY <2>2, <2>3, ClosingMove
    <2>5. calls \ {e} \in SUBSET Call /\ \A d \in calls \ {e} : CallLive(d) /\ CallFits(d)'
      BY <1>0, <1>1
    <2>6. QED
      BY <1>3, <2>3, <2>4, <2>5
  <1>7. QED
    BY <1>4, <1>5, <1>6

(* what the steps of a call seldom change *)
Data == <<reported, late, local, remote, prs, checks, baseV, merges, strays, repairs>>

LEMMA SameData ==
  ASSUME DataTypes, UNCHANGED Data, faults' \in Nat, crashes' \in Nat
  PROVE  DataTypes' /\ Onward
  BY DEF Data, DataTypes, Onward, HasMerged, UpTo

FewerFaults ==
  /\ faults' \in Nat /\ crashes' \in Nat
  /\ (faults' = 0 => faults = 0) /\ (crashes' = 0 => crashes = 0)

LEMMA QuietCallKeepsIt ==
  ASSUME GithubInv, UNCHANGED Data, FewerFaults, alarms' = alarms,
         NEW e \in calls, e.stage # "finalize",
         G!Throws(e) \/ G!Conflicts(e) \/ GoesOn(e)
  PROVE  GithubInv'
  <1>1. DataTypes' /\ Onward /\ UNCHANGED <<reported, late, repairs>>
    BY SameData DEF GithubInv, FewerFaults, Data
  <1>2. /\ ActorTypes' /\ ActorsFit' /\ RepairsFit'
        /\ Unopened /\ SameMerged /\ FinalizersStay
    BY <1>1, CallActs DEF OthersStay, FinalizersStay
  <1>3. \A u \in Tasks : TaskFits(u)'
    BY <1>2, TasksPersist DEF GithubInv, Unopened, Data
  <1>4. G!MergeIsTold'
    BY <1>1, <1>2, ToldPersists DEF GithubInv, FewerFaults, SameMerged, FinalizersStay, HasMerged, Data
  <1>5. G!AutoMergedWorkWasChecked'
    BY <1>1, MergesPersist DEF GithubInv, Data
  <1>6. QED
    BY <1>1, <1>2, <1>3, <1>4, <1>5 DEF GithubInv
-----------------------------------------------------------------------------
(* the steps of a call *)
Same(e, d) ==
  d \in Call /\ d.by = e.by /\ d.task = e.task /\ d.aborted = e.aborted

LEMMA StageField ==
  ASSUME NEW e \in Call, NEW stage \in CallStages, NEW d,
         d = [e EXCEPT !.stage = stage]
  PROVE  Same(e, d) /\ d.stage = stage /\ d.pr = e.pr /\ d.head = e.head
  BY DEF Call, Same

LEMMA TriesField ==
  ASSUME NEW e \in Call, NEW d,
         d = [e EXCEPT !.tries = e.tries + 1]
  PROVE  Same(e, d) /\ d.stage = e.stage /\ d.pr = e.pr /\ d.head = e.head
  BY DEF Call, Same

(* a call that goes to a stage that asks for no more than the one it is at *)
LEMMA StageGoes ==
  ASSUME DataTypes, Onward, NEW e \in Call, CallLive(e), CallFits(e),
         NEW stage \in CallStages \ {"apply"}, G!Stage(e, stage),
         stage \notin AtBranch => remote'[e.task] # Unset,
         stage \in AtRequest => e.stage \in AtRequest,
         stage = "finalize" => HasMerged(e.task)'
  PROVE  GoesOn(e)
  <1>1. PICK d : d = [e EXCEPT !.stage = stage]
    OBVIOUS
  <1>2. /\ d \in Call /\ d.by = e.by /\ d.task = e.task /\ d.stage = stage
        /\ d.pr = e.pr /\ d.head = e.head /\ d.aborted = e.aborted
    BY <1>1, StageField DEF Same
  <1>3. G!Goes(e, d)
    BY <1>1 DEF G!Stage
  <1>4. CallFits(e)'
    BY CallPersists
  <1>5. CallLive(d) /\ CallFits(d)'
    BY <1>2, <1>4 DEF CallLive, CallFits
  <1>6. QED
    BY <1>2, <1>3, <1>5 DEF GoesOn

LEMMA CallFacts ==
  ASSUME GithubInv, NEW e \in calls
  PROVE  /\ e \in Call /\ e.task \in Tasks /\ CallLive(e) /\ CallFits(e)
         /\ DataTypes /\ ActorTypes
         /\ e.stage \notin AtBranch => remote[e.task] # Unset
         /\ e.stage \in AtRequest => e.pr \in DOMAIN prs[e.task]
         /\ faults \in Nat /\ crashes \in Nat /\ baseV \in Nat
  BY DEF GithubInv, ActorTypes, ActorsFit, Call, CallFits, DataTypes

LEMMA SameFaults ==
  ASSUME faults \in Nat, crashes \in Nat, UNCHANGED crashes,
         UNCHANGED faults \/ G!Fails
  PROVE  FewerFaults
  BY DEF FewerFaults, G!Fails

LEMMA PrepareKeepsIt == ASSUME GithubInv, NEW e \in calls, G!Prepare(e) PROVE GithubInv'
  <1>1. UNCHANGED Data /\ UNCHANGED <<alarms, faults, crashes>> /\ e.stage = "prepare"
    BY DEF G!Prepare, Data, G!github, G!notes
  <1>2. FewerFaults /\ DataTypes' /\ Onward
    BY <1>1, SameFaults, CallFacts, SameData
  <1>3. CASE G!Stage(e, "push")
    BY <1>1, <1>2, <1>3, StageGoes, CallFacts, QuietCallKeepsIt DEF CallStages, AtBranch, AtRequest
  <1>4. CASE G!Throws(e)
    BY <1>1, <1>2, <1>4, QuietCallKeepsIt
  <1>5. QED
    BY <1>3, <1>4 DEF G!Prepare

LEMMA FindKeepsIt == ASSUME GithubInv, NEW e \in calls, G!Find(e) PROVE GithubInv'
  <1>1. UNCHANGED Data /\ UNCHANGED <<alarms, faults, crashes>> /\ e.stage = "find"
    BY DEF G!Find, Data, G!github, G!notes, G!trees
  <1>2. FewerFaults /\ DataTypes' /\ Onward
    BY <1>1, SameFaults, CallFacts, SameData
  <1>3. /\ e \in Call /\ CallLive(e) /\ CallFits(e) /\ e.task \in Tasks /\ remote'[e.task] # Unset
        /\ prs[e.task] \in Seq({"open", "merged"}) /\ prs' = prs
    BY <1>1, CallFacts DEF AtBranch, Data, DataTypes
  <1>4. CASE G!IsOpen(e.task)
    <2>1. PICK d : d = [e EXCEPT !.stage = "reviewFound", !.pr = Len(prs[e.task])]
      OBVIOUS
    <2>2. /\ d \in Call /\ d.by = e.by /\ d.task = e.task /\ d.stage = "reviewFound"
          /\ d.pr = Len(prs[e.task]) /\ d.aborted = e.aborted
      <3>1. Len(prs[e.task]) \in Nat /\ "reviewFound" \in CallStages
        BY <1>3 DEF CallStages, AtRequest
      <3>2. Same(e, d) /\ d.stage = "reviewFound" /\ d.pr = Len(prs[e.task])
        BY <1>3, <2>1, <3>1 DEF Call, Same
      <3>3. QED
        BY <3>2 DEF Same
    <2>3. d.pr \in DOMAIN prs'[e.task]
      BY <1>3, <1>4, <2>2 DEF G!IsOpen
    <2>4. CallFits(e)'
      BY <1>2, <1>3, CallPersists, CallFacts
    <2>5. CallLive(d) /\ CallFits(d)'
      BY <1>3, <2>2, <2>3, <2>4 DEF CallLive, CallFits
    <2>6. GoesOn(e)
      BY <1>4, <2>1, <2>2, <2>5 DEF GoesOn, G!Find
    <2>7. QED
      BY <1>1, <1>2, <2>6, QuietCallKeepsIt
  <1>5. CASE ~G!IsOpen(e.task)
    <2>1. G!Stage(e, "open")
      BY <1>5 DEF G!Find
    <2>2. GoesOn(e)
      BY <1>2, <1>3, <2>1, StageGoes, CallFacts DEF CallStages, AtBranch, AtRequest
    <2>3. QED
      BY <1>1, <1>2, <2>2, QuietCallKeepsIt
  <1>6. QED
    BY <1>4, <1>5

LEMMA MergeableKeepsIt == ASSUME GithubInv, NEW e \in calls, G!Mergeable(e) PROVE GithubInv'
  <1>1. UNCHANGED Data /\ UNCHANGED <<alarms, faults, crashes>> /\ e.stage = "mergeable"
    BY DEF G!Mergeable, Data, G!github, G!notes
  <1>2. FewerFaults /\ DataTypes' /\ Onward
    BY <1>1, SameFaults, CallFacts, SameData
  <1>3. /\ e \in Call /\ CallLive(e) /\ CallFits(e) /\ e.task \in Tasks /\ remote'[e.task] # Unset
        /\ prs[e.task] \in Seq({"open", "merged"}) /\ prs' = prs /\ e.pr \in DOMAIN prs[e.task]
        /\ remote[e.task] \in OptHead /\ remote' = remote
    BY <1>1, CallFacts DEF AtBranch, AtRequest, Data, DataTypes
  <1>4. CASE prs[e.task][e.pr] = "merged"
    <2>1. HasMerged(e.task)'
      BY <1>3, <1>4 DEF HasMerged, G!Contains
    <2>2. G!Stage(e, "finalize")
      BY <1>4 DEF G!Mergeable
    <2>3. GoesOn(e)
      BY <1>1, <1>2, <1>3, <2>1, <2>2, StageGoes, CallFacts DEF CallStages, AtBranch, AtRequest
    <2>4. QED
      BY <1>1, <1>2, <2>3, QuietCallKeepsIt
  <1>5. CASE /\ ~e.aborted
             /\ G!Goes(e, [e EXCEPT !.stage = "apply", !.head = remote[e.task]])
    <2>1. PICK d : d = [e EXCEPT !.stage = "apply", !.head = remote[e.task]]
      OBVIOUS
    <2>2. /\ d \in Call /\ d.by = e.by /\ d.task = e.task /\ d.stage = "apply"
          /\ d.pr = e.pr /\ d.head = remote[e.task] /\ d.aborted = e.aborted
      <3>1. "apply" \in CallStages
        BY DEF CallStages, AtRequest
      <3>2. Same(e, d) /\ d.stage = "apply" /\ d.pr = e.pr /\ d.head = remote[e.task]
        BY <1>3, <2>1, <3>1 DEF Call, Same
      <3>3. QED
        BY <3>2 DEF Same
    <2>3. e.by = "babysitter" /\ e.task \notin strays =>
            Checked(e.task, local[e.task]) /\ remote[e.task][1] = local[e.task][1]
      BY <1>3, <1>5 DEF CallFits, CallLive, GithubInv, TaskFits
    <2>4. CallFits(e)'
      BY <1>2, <1>3, CallPersists, CallFacts
    <2>5. CallLive(d) /\ CallFits(d)'
      BY <1>1, <1>3, <2>2, <2>3, <2>4 DEF CallLive, CallFits, Checked, Data, AtRequest, AtBranch
    <2>6. GoesOn(e)
      BY <1>5, <2>1, <2>2, <2>5 DEF GoesOn
    <2>7. QED
      BY <1>1, <1>2, <2>6, QuietCallKeepsIt
  <1>6. CASE G!Conflicts(e) \/ G!Throws(e)
    BY <1>1, <1>2, <1>6, QuietCallKeepsIt
  <1>7. QED
    BY <1>4, <1>5, <1>6 DEF G!Mergeable

LEMMA CallFailsKeepsIt == ASSUME GithubInv, NEW e \in calls, G!CallFails(e) PROVE GithubInv'
  <1>1. UNCHANGED Data /\ UNCHANGED <<alarms, crashes>> /\ e.stage # "finalize"
        /\ G!Fails /\ G!Throws(e)
    BY DEF G!CallFails, Data, G!github
  <1>2. FewerFaults
    BY <1>1, SameFaults, CallFacts
  <1>3. QED
    BY <1>1, <1>2, QuietCallKeepsIt

(* the rest of the invariant after a step of a call that is not the record *)
(* of a merge, which changes what is said of its task                      *)
LEMMA CallKeepsIt ==
  ASSUME GithubInv, DataTypes', Onward, UNCHANGED <<reported, late, repairs, merges, alarms>>,
         FewerFaults, NEW e \in calls, e.stage # "finalize",
         G!Throws(e) \/ G!Conflicts(e) \/ GoesOn(e),
         \A t \in Tasks : HasMerged(t)' => HasMerged(t),
         Unopened => \A u \in Tasks : TaskFits(u)'
  PROVE  GithubInv'
  <1>1. /\ ActorTypes' /\ ActorsFit' /\ RepairsFit'
        /\ Unopened /\ SameMerged /\ FinalizersStay
    BY CallActs DEF OthersStay, FinalizersStay
  <1>2. G!MergeIsTold'
    BY <1>1, ToldPersists DEF GithubInv, FewerFaults, SameMerged, FinalizersStay
  <1>3. G!AutoMergedWorkWasChecked'
    BY MergesPersist DEF GithubInv
  <1>4. QED
    BY <1>1, <1>2, <1>3 DEF GithubInv

LEMMA PushKeepsIt == ASSUME GithubInv, NEW e \in calls, G!Push(e) PROVE GithubInv'
  <1> DEFINE t == e.task
  <1>0. /\ t \in Tasks /\ e \in Call /\ CallLive(e) /\ CallFits(e) /\ DataTypes
        /\ e.stage \in {"push", "pushRebased"}
        /\ UNCHANGED <<reported, late, local, prs, checks, baseV, merges, strays, repairs, alarms,
                       faults, crashes>>
    BY CallFacts DEF G!Push, G!notes
  <1>1. FewerFaults
    BY SameFaults, CallFacts, <1>0
  <1>2. CASE t \notin worktrees
    BY <1>0, <1>1, <1>2, QuietCallKeepsIt DEF G!Push, Data
  <1>3. CASE t \in worktrees
    <2>0. /\ remote' = [remote EXCEPT ![t] = local[t]]
          /\ G!Throws(e) \/ G!Stage(e, "rebase") \/ G!Stage(e, "find")
      BY <1>3 DEF G!Push
    <2>1. /\ \A u \in Tasks : remote'[u] = IF u = t THEN local[t] ELSE remote[u]
          /\ \A u \in Tasks : local[u] \in Heads /\ local[u] # Unset
          /\ \A u \in Tasks : remote[u] # Unset => remote[u] \in Heads
          /\ \A u \in Tasks : reported[u] # Unset => reported[u] \in Heads
      BY <1>0, <2>0, UnsetIsNoHead DEF DataTypes, OptHead
    <2>2. DataTypes'
      BY <1>0, <2>0 DEF DataTypes, OptHead
    <2>3. \A u \in Tasks : TaskFits(u)
      BY DEF GithubInv
    <2>4. Onward
      BY <1>0, <2>1, <2>3 DEF Onward, HasMerged, TaskFits, UpTo
    <2>5. GoesOn(e) \/ G!Throws(e)
      BY <1>0, <2>0, <2>1, <2>4, StageGoes DEF CallStages, AtBranch, AtRequest
    <2>6. ASSUME Unopened, NEW u \in Tasks PROVE TaskFits(u)'
      <3>1. CASE u # t
        BY <1>0, <2>1, <2>3, <2>6, <3>1 DEF TaskFits, Unopened
      <3>2. CASE u = t
        <4>1. t \notin late /\ reported[t] # Unset => UpTo(reported[t], local[t])
          BY <1>0, <2>1, <2>3, LaterIsOrder DEF TaskFits
        <4>2. QED
          BY <1>0, <2>1, <2>3, <2>6, <3>2, <4>1 DEF TaskFits, Unopened, UpTo
      <3>3. QED
        BY <3>1, <3>2
    <2>7. QED
      BY <1>0, <1>1, <2>2, <2>4, <2>5, <2>6, CallKeepsIt DEF HasMerged
  <1>4. QED
    BY <1>2, <1>3

LEMMA RebaseKeepsIt == ASSUME GithubInv, NEW e \in calls, G!Rebase(e) PROVE GithubInv'
  <1> DEFINE t == e.task
  <1>0. /\ t \in Tasks /\ e \in Call /\ CallLive(e) /\ CallFits(e) /\ DataTypes
        /\ e.stage = "rebase" /\ remote[t] # Unset
        /\ UNCHANGED <<reported, late, remote, prs, checks, baseV, merges, strays, repairs, alarms,
                       faults, crashes>>
    BY CallFacts DEF G!Rebase, G!notes, G!github, AtBranch
  <1>1. FewerFaults
    BY SameFaults, CallFacts, <1>0
  <1>2. CASE UNCHANGED local /\ (G!Throws(e) \/ G!Conflicts(e))
    BY <1>0, <1>1, <1>2, QuietCallKeepsIt DEF Data
  <1>3. CASE /\ local' = [local EXCEPT ![t] = <<@[1], baseV>>]
             /\ G!Stage(e, "pushRebased")
    <2>1. /\ \A u \in Tasks : local'[u] = IF u = t THEN <<local[t][1], baseV>> ELSE local[u]
          /\ \A u \in Tasks : local[u] \in Heads /\ (remote[u] # Unset => remote[u] \in Heads)
          /\ baseV \in Nat
      BY <1>0, <1>3 DEF DataTypes, OptHead
    <2>2. <<local[t][1], baseV>> \in Heads /\ <<local[t][1], baseV>>[1] = local[t][1]
          /\ <<local[t][1], baseV>>[2] = baseV
      BY <1>0, <2>1 DEF Heads
    <2>3. DataTypes'
      BY <1>0, <1>3, <2>2 DEF DataTypes
    <2>4. \A u \in Tasks : TaskFits(u)
      BY DEF GithubInv
    <2>5. Onward
      BY <1>0, <2>1, <2>2 DEF Onward, HasMerged, UpTo
    <2>6. GoesOn(e)
      BY <1>0, <1>3, <2>5, StageGoes DEF CallStages, AtBranch, AtRequest
    <2>7. ASSUME Unopened, NEW u \in Tasks PROVE TaskFits(u)'
      <3>1. CASE u # t
        BY <1>0, <2>1, <2>4, <2>7, <3>1 DEF TaskFits, Unopened
      <3>2. CASE u = t
        <4>1. UpTo(local[t], <<local[t][1], baseV>>)
          <5>1. local[t] = <<local[t][1], local[t][2]>> /\ local[t][2] \in Nat /\ local[t][2] <= baseV
            BY <1>0, <2>1, <2>4 DEF Heads, TaskFits
          <5>2. QED
            BY <2>1, <2>2, <5>1 DEF UpTo, Later
        <4>2. UpTo(remote[t], <<local[t][1], baseV>>)
          <5>1. UpTo(remote[t], local[t])
            BY <1>0, <2>4 DEF TaskFits
          <5>2. QED
            BY <1>0, <2>1, <2>2, <4>1, <5>1, LaterIsOrder
        <4>3. QED
          BY <1>0, <2>1, <2>2, <2>4, <2>7, <3>2, <4>2 DEF TaskFits, Unopened
      <3>3. QED
        BY <3>1, <3>2
    <2>8. QED
      BY <1>0, <1>1, <2>3, <2>5, <2>6, <2>7, CallKeepsIt DEF HasMerged
  <1>4. QED
    BY <1>2, <1>3 DEF G!Rebase
-----------------------------------------------------------------------------
LEMMA Opened ==
  ASSUME NEW s \in Seq({"open", "merged"}), NEW n, n = Append(s, "open")
  PROVE  /\ n \in Seq({"open", "merged"}) /\ DOMAIN s \subseteq DOMAIN n
         /\ Len(n) \in Nat /\ Len(n) \in DOMAIN n
         /\ (\E i \in DOMAIN n : n[i] = "merged") <=> \E i \in DOMAIN s : s[i] = "merged"
  <1>1. /\ n \in Seq({"open", "merged"}) /\ Len(n) = Len(s) + 1 /\ Len(s) \in Nat
        /\ DOMAIN s = 1 .. Len(s) /\ DOMAIN n = 1 .. Len(n)
        /\ \A i \in 1 .. Len(s) : n[i] = s[i]
        /\ n[Len(s) + 1] = "open"
    OBVIOUS
  <1>2. \A i \in DOMAIN n : n[i] = "merged" => i \in DOMAIN s
    BY <1>1
  <1>3. QED
    BY <1>1, <1>2

LEMMA OpenKeepsIt == ASSUME GithubInv, NEW e \in calls, G!Open(e) PROVE GithubInv'
  <1> DEFINE t == e.task
  <1>0. /\ t \in Tasks /\ e \in Call /\ CallLive(e) /\ CallFits(e) /\ DataTypes
        /\ e.stage = "open" /\ remote[t] # Unset /\ prs[t] \in Seq({"open", "merged"})
        /\ UNCHANGED <<reported, late, remote, local, checks, baseV, merges, strays, repairs, alarms,
                       faults, crashes>>
    BY CallFacts DEF G!Open, G!notes, AtBranch, DataTypes
  <1>1. FewerFaults
    BY SameFaults, CallFacts, <1>0
  <1>2. CASE G!IsOpen(t)
    BY <1>0, <1>1, <1>2, QuietCallKeepsIt DEF Data, G!Open
  <1>3. CASE ~G!IsOpen(t)
    <2>1. /\ prs' = [prs EXCEPT ![t] = Append(prs[t], "open")]
          /\ G!Goes(e, [e EXCEPT !.stage = "review", !.pr = Len(prs'[t])])
      BY <1>3 DEF G!Open
    <2>2. PICK new : new = Append(prs[t], "open")
      OBVIOUS
    <2>3. /\ new \in Seq({"open", "merged"}) /\ DOMAIN prs[t] \subseteq DOMAIN new
          /\ Len(new) \in Nat /\ Len(new) \in DOMAIN new
          /\ (\E i \in DOMAIN new : new[i] = "merged")
               <=> \E i \in DOMAIN prs[t] : prs[t][i] = "merged"
      BY <1>0, <2>2, Opened
    <2>4. /\ DataTypes'
          /\ \A u \in Tasks : prs'[u] = IF u = t THEN new ELSE prs[u]
      BY <1>0, <2>1, <2>2, <2>3 DEF DataTypes
    <2>5. \A u \in Tasks : DOMAIN prs[u] \subseteq DOMAIN prs'[u] /\ (HasMerged(u)' <=> HasMerged(u))
      BY <2>3, <2>4 DEF HasMerged, G!Contains
    <2>6. Onward
      BY <1>0, <2>5 DEF Onward, UpTo
    <2>7. PICK d : d = [e EXCEPT !.stage = "review", !.pr = Len(prs'[t])]
      OBVIOUS
    <2>8. Same(e, d) /\ d.stage = "review" /\ d.pr = Len(new)
      <3>1. Len(prs'[t]) = Len(new) /\ "review" \in CallStages
        BY <1>0, <2>4 DEF CallStages, AtRequest
      <3>2. QED
        BY <1>0, <2>3, <2>7, <3>1 DEF Same, Call
    <2>9. d.pr \in DOMAIN prs'[t]
      BY <1>0, <2>3, <2>4, <2>8
    <2>10. CallFits(e)'
      BY <1>0, <2>6, CallPersists
    <2>11. CallLive(d) /\ CallFits(d)'
      BY <1>0, <2>8, <2>9, <2>10 DEF CallLive, CallFits, Same
    <2>12. GoesOn(e)
      BY <2>1, <2>7, <2>8, <2>11 DEF GoesOn, Same
    <2>13. Unopened => \A u \in Tasks : TaskFits(u)'
      BY <1>0, TasksPersist DEF GithubInv, Unopened
    <2>14. QED
      BY <1>0, <1>1, <2>4, <2>5, <2>6, <2>12, <2>13, CallKeepsIt
  <1>4. QED
    BY <1>2, <1>3
-----------------------------------------------------------------------------
LEMMA Merged ==
  ASSUME NEW s \in Seq({"open", "merged"}), NEW i \in DOMAIN s, NEW n, n = [s EXCEPT ![i] = "merged"]
  PROVE  /\ n \in Seq({"open", "merged"}) /\ DOMAIN n = DOMAIN s
         /\ \E j \in DOMAIN n : n[j] = "merged"
  <1>1. DOMAIN s = 1 .. Len(s) /\ Len(s) \in Nat
    OBVIOUS
  <1>2. n \in [1 .. Len(s) -> {"open", "merged"}] /\ n[i] = "merged"
    BY <1>1
  <1>3. QED
    BY <1>1, <1>2

(* a merge is done with the head whose checks were looked at, and is being *)
(* recorded, unless the answer was lost                                    *)
LEMMA ApplyKeepsIt == ASSUME GithubInv, NEW e \in calls, G!Apply(e) PROVE GithubInv'
  <1> DEFINE t == e.task
  <1>0. /\ t \in Tasks /\ e \in Call /\ CallLive(e) /\ CallFits(e) /\ DataTypes
        /\ e.stage = "apply" /\ remote[t] # Unset /\ prs[t] \in Seq({"open", "merged"})
        /\ e.pr \in DOMAIN prs[t] /\ e.by \in Callers /\ e.head \in OptHead
        /\ faults \in Nat /\ crashes \in Nat
        /\ UNCHANGED <<reported, late, remote, local, checks, baseV, strays, repairs, alarms, crashes>>
    BY CallFacts DEF G!Apply, G!notes, AtBranch, AtRequest, DataTypes, Call
  <1>1. UNCHANGED faults \/ G!Fails
    BY DEF G!Apply
  <1>2. FewerFaults
    BY <1>0, <1>1, SameFaults
  <1>3. CASE UNCHANGED <<prs, merges, faults>> /\ G!Conflicts(e)
    BY <1>0, <1>2, <1>3, QuietCallKeepsIt DEF Data
  <1>4. CASE /\ prs' = [prs EXCEPT ![t][e.pr] = "merged"]
             /\ merges' = merges \cup {<<e.by, t, e.head>>}
             /\ G!Stage(e, "finalize") \/ (G!Fails /\ G!Throws(e))
    <2>1. PICK new : new = [prs[t] EXCEPT ![e.pr] = "merged"]
      OBVIOUS
    <2>2. /\ new \in Seq({"open", "merged"}) /\ DOMAIN new = DOMAIN prs[t]
          /\ \E j \in DOMAIN new : new[j] = "merged"
      BY <1>0, <2>1, Merged
    <2>3. \A u \in Tasks : prs'[u] = IF u = t THEN new ELSE prs[u]
      BY <1>0, <1>4, <2>1 DEF DataTypes
    <2>4. DataTypes'
      <3>1. prs' = [prs EXCEPT ![t] = new]
        BY <1>4, <2>1
      <3>2. prs' \in [Tasks -> Seq({"open", "merged"})]
        BY <1>0, <2>2, <3>1 DEF DataTypes
      <3>3. merges' \subseteq Callers \X Tasks \X OptHead
        BY <1>0, <1>4 DEF DataTypes
      <3>4. QED
        BY <1>0, <1>2, <3>2, <3>3 DEF DataTypes, FewerFaults
    <2>5. /\ HasMerged(t)'
          /\ \A u \in Tasks : DOMAIN prs[u] = DOMAIN prs'[u] /\ (HasMerged(u) => HasMerged(u)')
          /\ \A u \in Tasks : HasMerged(u)' => HasMerged(u) \/ u = t
      <3>1. prs'[t] = new /\ HasMerged(t)'
        BY <1>0, <2>2, <2>3 DEF HasMerged, G!Contains
      <3>2. \A u \in Tasks : u # t => prs'[u] = prs[u] /\ (HasMerged(u)' <=> HasMerged(u))
        BY <2>3 DEF HasMerged, G!Contains
      <3>3. QED
        BY <1>0, <2>2, <3>1, <3>2
    <2>6. Onward
      BY <1>0, <2>5 DEF Onward, UpTo
    <2>7. GoesOn(e) \/ G!Throws(e)
      BY <1>0, <1>4, <2>5, <2>6, StageGoes DEF CallStages, AtRequest, AtBranch
    <2>8. /\ ActorTypes' /\ ActorsFit' /\ RepairsFit'
          /\ Unopened /\ SameMerged /\ FinalizersStay
      BY <1>0, <2>4, <2>6, <2>7, CallActs DEF OthersStay, FinalizersStay
    <2>9. \A u \in Tasks : TaskFits(u)'
      BY <1>0, <2>8, TasksPersist DEF GithubInv, Unopened
    <2>10. G!MergeIsTold'
      <3>1. faults' = 0 => \E d \in calls' : d.task = t /\ d.stage = "finalize"
        <4>1. CASE G!Stage(e, "finalize")
          <5>1. [e EXCEPT !.stage = "finalize"] \in calls'
            BY <4>1 DEF G!Stage, G!Goes
          <5>2. QED
            BY <1>0, <5>1 DEF Call
        <4>2. CASE G!Fails
          BY <1>0, <4>2 DEF G!Fails
        <4>3. QED
          BY <1>4, <4>1, <4>2
      <3> SUFFICES ASSUME NEW u \in Tasks
                   PROVE  /\ status'[u] = "merged" => HasMerged(u)'
                          /\ HasMerged(u)' /\ faults' = 0 /\ crashes' = 0 =>
                               \/ status'[u] = "merged" \/ u \in alarms'
                               \/ \E d \in calls' : d.task = u /\ d.stage = "finalize"
        BY DEF G!MergeIsTold, HasMerged
      <3>2. /\ status[u] = "merged" => HasMerged(u)
            /\ HasMerged(u) /\ faults = 0 /\ crashes = 0 =>
                 \/ status[u] = "merged" \/ u \in alarms
                 \/ \E d \in calls : d.task = u /\ d.stage = "finalize"
        BY DEF GithubInv, G!MergeIsTold, HasMerged
      <3>3. QED
        BY <1>0, <1>2, <2>5, <2>8, <3>1, <3>2 DEF FewerFaults, SameMerged, FinalizersStay
    <2>11. G!AutoMergedWorkWasChecked'
      <3>1. e.by = "babysitter" /\ t \notin strays =>
              \E x \in checks : x[1] = t /\ x[2][1] = e.head[1] /\ x[3] # "failed"
        BY <1>0 DEF CallFits, Checked
      <3>2. QED
        BY <1>0, <1>4, <3>1 DEF GithubInv, G!AutoMergedWorkWasChecked
    <2>12. QED
      BY <2>4, <2>8, <2>9, <2>10, <2>11 DEF GithubInv
  <1>5. CASE prs[t][e.pr] = "open" /\ remote[t] = e.head
    <2>1. /\ prs' = [prs EXCEPT ![t][e.pr] = "merged"]
          /\ merges' = merges \cup {<<e.by, t, e.head>>}
          /\ G!Stage(e, "finalize") \/ (G!Fails /\ G!Throws(e))
      BY <1>5 DEF G!Apply
    <2>2. QED
      BY <1>4, <2>1
  <1>6. CASE ~(prs[t][e.pr] = "open" /\ remote[t] = e.head)
    <2>1. UNCHANGED <<prs, merges, faults>> /\ G!Conflicts(e)
      BY <1>6 DEF G!Apply
    <2>2. QED
      BY <1>3, <2>1
  <1>7. QED
    BY <1>5, <1>6
-----------------------------------------------------------------------------
(* the record of a merge: made, tried again, or given up with an alarm *)
LEMMA FinalizeKeepsIt == ASSUME GithubInv, NEW e \in calls, G!Finalize(e) PROVE GithubInv'
  <1> DEFINE t == e.task
  <1>0. /\ t \in Tasks /\ e \in Call /\ CallLive(e) /\ CallFits(e) /\ DataTypes /\ ActorTypes
        /\ e.stage = "finalize" /\ HasMerged(t) /\ UNCHANGED Data
        /\ faults \in Nat /\ crashes \in Nat /\ UNCHANGED crashes
        /\ alarms \subseteq alarms' /\ (UNCHANGED faults \/ G!Fails)
    BY CallFacts DEF G!Finalize, G!github, Data, CallFits
  <1>1. FewerFaults
    BY <1>0, SameFaults
  <1>2. DataTypes' /\ Onward /\ \A u \in Tasks : HasMerged(u)' <=> HasMerged(u)
    BY <1>0, <1>1, SameData DEF FewerFaults, Data, HasMerged
  <1>3. ASSUME ActorTypes', ActorsFit', RepairsFit', Unopened, OthersStay(e),
               \A u \in Tasks \ {t} : status'[u] = "merged" <=> status[u] = "merged",
               \/ status'[t] = "merged" \/ t \in alarms'
               \/ \E d \in calls' : d.task = t /\ d.stage = "finalize"
        PROVE  GithubInv'
    <2>1. \A u \in Tasks : TaskFits(u)'
      BY <1>0, <1>3, TasksPersist DEF GithubInv, Unopened, Data
    <2>2. ASSUME NEW u \in Tasks
          PROVE  /\ status'[u] = "merged" => HasMerged(u)'
                 /\ HasMerged(u)' /\ faults' = 0 /\ crashes' = 0 =>
                      \/ status'[u] = "merged" \/ u \in alarms'
                      \/ \E d \in calls' : d.task = u /\ d.stage = "finalize"
      <3>1. /\ status[u] = "merged" => HasMerged(u)
            /\ HasMerged(u) /\ faults = 0 /\ crashes = 0 =>
                 \/ status[u] = "merged" \/ u \in alarms
                 \/ \E d \in calls : d.task = u /\ d.stage = "finalize"
        BY DEF GithubInv, G!MergeIsTold, HasMerged
      <3>2. CASE u = t
        BY <1>0, <1>2, <1>3, <3>2
      <3>3. CASE u # t
        BY <1>0, <1>1, <1>2, <1>3, <3>1, <3>3 DEF FewerFaults, OthersStay
      <3>4. QED
        BY <3>2, <3>3
    <2>3. G!MergeIsTold'
      BY <2>2 DEF G!MergeIsTold, HasMerged
    <2>4. G!AutoMergedWorkWasChecked'
      BY <1>0, <1>2, MergesPersist DEF GithubInv, Data
    <2>5. QED
      BY <1>2, <1>3, <2>1, <2>3, <2>4 DEF GithubInv
  <1>4. CASE G!Returns(e, "merge-task")
    <2>1. status[t] = "pr-open" /\ G!MoveTo(t, "merged", calls \ {e}, polls)
      BY <1>0, <1>4, TransitMoves DEF G!Returns
    <2>2. Leaves(calls \ {e}, polls) /\ Moved(t, "merged")
      BY <1>0, <2>1, MovesTo DEF GithubStatuses
    <2>3. \A d \in calls : CallLive(d) /\ CallFits(d)'
      BY <1>0, <1>2, CallPersists DEF GithubInv, ActorsFit, ActorTypes
    <2>4. UNCHANGED <<reported, late, repairs>> /\ \A p \in polls : PollLive(p) /\ PollFits(p)'
      BY <1>0, <1>2, PollPersists DEF GithubInv, ActorsFit, ActorTypes, Data
    <2>5. /\ ActorTypes' /\ ActorsFit'
          /\ \A q \in polls' : q.stage = "repair" => q \in polls
          /\ \A x \in calls \ {e} : \E d \in calls' : d.task = x.task /\ d.stage = x.stage
      <3>1. calls \ {e} \in SUBSET Call /\ polls \in SUBSET Poll
        BY <1>0 DEF ActorTypes
      <3>2. \A d \in calls \ {e} : CallLive(d) /\ CallFits(d)'
        BY <2>3
      <3>3. QED
        BY <1>0, <2>2, <2>4, <3>1, <3>2, ActorsAfter
    <2>6. RepairsFit'
      BY <2>4, <2>5, RepairsPersist DEF GithubInv
    <2>7. QED
      BY <1>0, <1>3, <2>2, <2>5, <2>6 DEF OthersStay, Moved, Unopened
  <1>5. CASE G!Goes(e, [e EXCEPT !.tries = e.tries + 1])
    <2>1. PICK d : d = [e EXCEPT !.tries = e.tries + 1]
      OBVIOUS
    <2>2. Same(e, d) /\ d.stage = e.stage /\ d.pr = e.pr /\ d.head = e.head
      BY <1>0, <2>1, TriesField
    <2>3. CallFits(e)'
      BY <1>0, <1>2, CallPersists
    <2>4. CallLive(d) /\ CallFits(d)'
      BY <1>0, <2>2, <2>3 DEF CallLive, CallFits, Same
    <2>5. GoesOn(e) /\ d \in calls'
      BY <1>5, <2>1, <2>2, <2>4 DEF GoesOn, Same, G!Goes
    <2>6. /\ ActorTypes' /\ ActorsFit' /\ RepairsFit'
          /\ Unopened /\ SameMerged /\ OthersStay(e)
      BY <1>0, <1>2, <2>5, CallActs DEF Data
    <2>7. QED
      BY <1>0, <1>3, <2>2, <2>5, <2>6 DEF SameMerged, Same
  <1>6. CASE G!Throws(e) /\ alarms' = alarms \cup {t}
    <2>1. /\ ActorTypes' /\ ActorsFit' /\ RepairsFit'
          /\ Unopened /\ SameMerged /\ OthersStay(e)
      BY <1>0, <1>2, <1>6, CallActs DEF Data
    <2>2. QED
      BY <1>0, <1>3, <1>6, <2>1 DEF SameMerged
  <1>7. QED
    BY <1>4, <1>5, <1>6 DEF G!Finalize

(* A task is called open; its work may not have been pushed, and the task  *)
(* is then a stray.                                                        *)
LEMMA ReviewKeepsIt == ASSUME GithubInv, NEW e \in calls, G!Review(e) PROVE GithubInv'
  <1> DEFINE t == e.task
             on == [e EXCEPT !.stage = "mergeable"]
  <1>0. /\ t \in Tasks /\ e \in Call /\ CallLive(e) /\ CallFits(e) /\ DataTypes /\ ActorTypes
        /\ e.stage \in {"review", "reviewFound"} /\ remote[t] # Unset
        /\ UNCHANGED <<reported, late, local, remote, prs, checks, baseV, merges, repairs, alarms,
                       faults, crashes>>
    BY CallFacts DEF G!Review, G!github, AtBranch
  <1>1. FewerFaults
    BY <1>0, SameFaults, CallFacts
  <1>2. strays \subseteq strays' /\ e.stage # "finalize" /\ t \in DOMAIN status
    BY <1>0 DEF G!Review, ActorTypes
  <1>3. DataTypes' /\ Onward
    BY <1>0, <1>2 DEF DataTypes, Onward, HasMerged, UpTo
  <1>4. PICK d : d = on
    OBVIOUS
  <1>5. Same(e, d) /\ d.stage = "mergeable" /\ d.pr = e.pr
    BY <1>0, <1>4, StageField DEF CallStages, AtRequest
  <1>6. CallLive(d) /\ CallFits(d)'
    <2>1. CallFits(e)'
      BY <1>0, <1>3, CallPersists
    <2>2. QED
      BY <1>0, <1>5, <2>1 DEF CallLive, CallFits, Same, AtBranch, AtRequest
  <1>7. CASE ~G!Accepts(t, "open-review")
    <2>1. G!Throws(e) \/ G!Goes(e, on)
      BY <1>7 DEF G!Review
    <2>2. G!Throws(e) \/ GoesOn(e)
      BY <1>4, <1>5, <1>6, <2>1 DEF GoesOn, Same
    <2>3. strays' = strays
      BY <1>7 DEF G!Review
    <2>4. QED
      BY <1>0, <1>1, <1>2, <2>2, <2>3, QuietCallKeepsIt DEF Data
  <1>8. CASE G!Accepts(t, "open-review")
    <2>1. PICK others : /\ others \in {calls \ {e}, (calls \ {e}) \cup {d}}
                        /\ G!Transit(t, "open-review", others, polls)
      BY <1>4, <1>8 DEF G!Review, G!Returns
    <2>2. /\ strays' = IF local[t][1] # remote[t][1] THEN strays \cup {t} ELSE strays
      BY <1>8 DEF G!Review
    <2>3. status[t] = "finalizing" /\ G!MoveTo(t, "pr-open", others, polls)
      BY <1>0, <2>1, TransitMoves
    <2>4. Leaves(others, polls) /\ Moved(t, "pr-open")
      BY <1>0, <2>3, MovesTo DEF GithubStatuses
    <2>5. others \in SUBSET Call /\ \A x \in others : CallLive(x) /\ CallFits(x)'
      <3>1. \A x \in calls : CallLive(x) /\ CallFits(x)'
        BY <1>0, <1>3, CallPersists DEF GithubInv, ActorsFit, ActorTypes
      <3>2. QED
        BY <1>0, <1>5, <1>6, <2>1, <3>1 DEF Same, ActorTypes
    <2>6. polls \in SUBSET Poll /\ \A p \in polls : PollLive(p) /\ PollFits(p)'
      BY <1>0, <1>3, PollPersists DEF GithubInv, ActorsFit, ActorTypes
    <2>7. /\ ActorTypes' /\ ActorsFit'
          /\ \A q \in polls' : q.stage = "repair" => q \in polls
          /\ \A x \in others : \E y \in calls' : y.task = x.task /\ y.stage = x.stage
      BY <1>0, <2>4, <2>5, <2>6, ActorsAfter
    <2>8. RepairsFit'
      BY <1>0, <2>7, RepairsPersist DEF GithubInv
    <2>9. \A u \in Tasks : TaskFits(u)'
      BY <1>0, <2>2, <2>4 DEF GithubInv, TaskFits, Moved
    <2>10. SameMerged /\ FinalizersStay
      BY <1>2, <2>1, <2>3, <2>4, <2>7 DEF SameMerged, FinalizersStay, Moved
    <2>11. G!MergeIsTold'
      BY <1>0, <1>1, <1>3, <2>10, ToldPersists DEF GithubInv, FewerFaults, SameMerged, FinalizersStay, HasMerged
    <2>12. G!AutoMergedWorkWasChecked'
      BY <1>0, <1>3, MergesPersist DEF GithubInv
    <2>13. QED
      BY <1>3, <2>7, <2>8, <2>9, <2>11, <2>12 DEF GithubInv
  <1>9. QED
    BY <1>7, <1>8

LEMMA CallStepKeepsIt ==
  ASSUME GithubInv, NEW e \in calls, G!CallStep(e) \/ G!CallFails(e) PROVE GithubInv'
  BY PrepareKeepsIt, PushKeepsIt, RebaseKeepsIt, FindKeepsIt, OpenKeepsIt, ReviewKeepsIt,
     MergeableKeepsIt, ApplyKeepsIt, FinalizeKeepsIt, CallFailsKeepsIt DEF G!CallStep
-----------------------------------------------------------------------------
(* A step that adds calls, replaces or drops watches, or moves a task that *)
(* neither was nor becomes open or merged.                                 *)
LEMMA QuietKeepsIt ==
  ASSUME GithubInv, UNCHANGED Data, FewerFaults, alarms' = alarms,
         NEW others \in SUBSET Call, NEW watches \in SUBSET Poll,
         Leaves(others, watches), Unopened, SameMerged, calls \subseteq others,
         \A e \in others \ calls : CallLive(e) /\ CallFits(e)',
         \A p \in watches \ polls : PollLive(p) /\ PollFits(p)' /\ p.stage # "repair"
  PROVE  GithubInv'
  <1>0. DataTypes /\ ActorTypes /\ ActorsFit /\ RepairsFit
    BY DEF GithubInv
  <1>1. DataTypes' /\ Onward /\ UNCHANGED <<reported, late, repairs>>
    BY SameData DEF GithubInv, FewerFaults, Data
  <1>2. \A e \in others : CallLive(e) /\ CallFits(e)'
    BY <1>0, <1>1, CallPersists DEF ActorsFit
  <1>3. \A p \in watches : PollLive(p) /\ PollFits(p)'
    BY <1>0, <1>1, PollPersists DEF ActorsFit
  <1>4. /\ ActorTypes' /\ ActorsFit'
        /\ \A q \in polls' : q.stage = "repair" => q \in watches
        /\ \A x \in others : \E d \in calls' : d.task = x.task /\ d.stage = x.stage
    BY <1>0, <1>2, <1>3, ActorsAfter
  <1>5. RepairsFit'
    BY <1>0, <1>1, <1>4, RepairsPersist
  <1>6. \A u \in Tasks : TaskFits(u)'
    BY TasksPersist DEF GithubInv, Unopened, Data
  <1>7. FinalizersStay
    BY <1>4 DEF FinalizersStay
  <1>8. G!MergeIsTold'
    BY <1>1, <1>7, ToldPersists DEF GithubInv, FewerFaults, SameMerged, FinalizersStay, HasMerged, Data
  <1>9. G!AutoMergedWorkWasChecked'
    BY <1>1, MergesPersist DEF GithubInv, Data
  <1>10. QED
    BY <1>1, <1>4, <1>5, <1>6, <1>8, <1>9 DEF GithubInv
-----------------------------------------------------------------------------
(* the steps of a watch *)
WatchesOn(p) ==
  \E q \in Poll : G!Watches(p, q) /\ PollLive(q) /\ PollFits(q)' /\ q.stage # "repair"

LEMMA QuietPollKeepsIt ==
  ASSUME GithubInv, UNCHANGED Data, FewerFaults, alarms' = alarms, NEW p \in polls,
         \/ G!GivesUp(p) \/ WatchesOn(p)
         \/ G!Transit(p.task, "merge-conflict", calls, polls \ {p})
         \/ G!Transit(p.task, "mark-running", calls, polls \ {p})
  PROVE  GithubInv'
  <1>0. /\ calls \in SUBSET Call /\ polls \in SUBSET Poll /\ polls \ {p} \in SUBSET Poll
        /\ p.task \in Tasks /\ ActorTypes
    BY DEF GithubInv, ActorTypes, Poll
  <1>1. CASE G!GivesUp(p)
    <2>1. Leaves(calls, polls \ {p}) /\ Unopened /\ SameMerged
      BY <1>1 DEF G!GivesUp, Leaves, Stays, Unopened, SameMerged
    <2>2. QED
      BY <1>0, <2>1, QuietKeepsIt
  <1>2. CASE WatchesOn(p)
    <2>1. PICK q \in Poll : G!Watches(p, q) /\ PollLive(q) /\ PollFits(q)' /\ q.stage # "repair"
      BY <1>2 DEF WatchesOn
    <2>2. Leaves(calls, (polls \ {p}) \cup {q}) /\ Unopened /\ SameMerged
      BY <2>1 DEF G!Watches, Leaves, Stays, Unopened, SameMerged
    <2>3. (polls \ {p}) \cup {q} \in SUBSET Poll
      BY <1>0
    <2>4. QED
      BY <1>0, <2>1, <2>2, <2>3, QuietKeepsIt
  <1>3. CASE G!Transit(p.task, "merge-conflict", calls, polls \ {p})
    <2>1. /\ status[p.task] \in {"pr-open", "finalizing", "ci-pending"}
          /\ G!MoveTo(p.task, "needs-review", calls, polls \ {p})
      BY <1>0, <1>3, TransitMoves
    <2>2. Leaves(calls, polls \ {p}) /\ Moved(p.task, "needs-review")
      BY <1>0, <2>1, MovesTo DEF GithubStatuses
    <2>3. Unopened /\ SameMerged
      BY <2>1, <2>2, ClosingMove
    <2>4. QED
      BY <1>0, <2>2, <2>3, QuietKeepsIt
  <1>4. CASE G!Transit(p.task, "mark-running", calls, polls \ {p})
    <2>1. /\ status[p.task] \in {"ready", "needs-review", "pr-open"}
          /\ G!MoveTo(p.task, "running", calls, polls \ {p})
      BY <1>0, <1>4, TransitMoves
    <2>2. Leaves(calls, polls \ {p}) /\ Moved(p.task, "running")
      BY <1>0, <2>1, MovesTo DEF GithubStatuses
    <2>3. Unopened /\ SameMerged
      BY <2>1, <2>2, ClosingMove
    <2>4. QED
      BY <1>0, <2>2, <2>3, QuietKeepsIt
  <1>5. QED
    BY <1>1, <1>2, <1>3, <1>4

LEMMA PollFacts ==
  ASSUME GithubInv, NEW p \in polls
  PROVE  /\ p \in Poll /\ p.task \in Tasks /\ PollLive(p) /\ PollFits(p)
         /\ DataTypes /\ ActorTypes /\ TaskFits(p.task) /\ p.head \in OptHead
         /\ faults \in Nat /\ crashes \in Nat
  BY DEF GithubInv, ActorTypes, ActorsFit, Poll, DataTypes

SamePoll(p, q) == q \in Poll /\ q.task = p.task /\ q.aborted = p.aborted

LEMMA PollStage ==
  ASSUME NEW p \in Poll, NEW stage \in Watching \cup {"repair"}, NEW q, q = [p EXCEPT !.stage = stage]
  PROVE  SamePoll(p, q) /\ q.stage = stage /\ q.head = p.head /\ q.pr = p.pr
  BY DEF Poll, SamePoll

(* a watch that goes on with the head it has *)
LEMMA PollGoes ==
  ASSUME GithubInv, UNCHANGED Data, FewerFaults, NEW p \in polls, p.stage \in Watching,
         NEW stage \in Watching, G!Watches(p, [p EXCEPT !.stage = stage]),
         stage \in {"confirm", "judge"} => G!Concluded(p.task, p.head) # {}
  PROVE  WatchesOn(p)
  <1>1. PICK q : q = [p EXCEPT !.stage = stage]
    OBVIOUS
  <1>2. SamePoll(p, q) /\ q.stage = stage /\ q.head = p.head /\ p \in Poll
    BY <1>1, PollFacts, PollStage
  <1>3. DataTypes' /\ Onward /\ UNCHANGED <<reported, repairs>>
    BY SameData DEF GithubInv, FewerFaults, Data
  <1>4. PollFits(p)' /\ PollLive(p)
    BY <1>3, PollFacts, PollPersists
  <1>5. G!Concluded(p.task, p.head)' = G!Concluded(p.task, p.head)
    BY DEF G!Concluded, Data
  <1>6. PollLive(q) /\ PollFits(q)'
    BY <1>2, <1>4, <1>5 DEF PollLive, PollFits, SamePoll, Watching
  <1>7. QED
    BY <1>1, <1>2, <1>6 DEF WatchesOn, SamePoll, Watching

(* The head that a watch starts with is later than the one that was        *)
(* reported last.                                                          *)
LEMMA PollStartKeepsIt == ASSUME GithubInv, NEW p \in polls, G!PollStart(p) PROVE GithubInv'
  <1> DEFINE t == p.task
  <1>0. /\ p \in Poll /\ t \in Tasks /\ PollLive(p) /\ DataTypes /\ TaskFits(t)
        /\ UNCHANGED Data /\ alarms' = alarms /\ UNCHANGED <<faults, crashes>>
    BY PollFacts DEF G!PollStart, G!Quiet, G!github, G!reports, Data
  <1>1. FewerFaults /\ DataTypes' /\ Onward
    <2>1. FewerFaults
      BY <1>0, PollFacts, SameFaults
    <2>2. QED
      BY <1>0, <2>1, SameData DEF FewerFaults
  <1>2. CASE G!GivesUp(p)
    BY <1>0, <1>1, <1>2, QuietPollKeepsIt
  <1>3. CASE /\ status[t] = "pr-open" /\ reported[t] # remote[t] /\ ~p.aborted
             /\ G!Watches(p, [p EXCEPT !.stage = "sleep", !.pr = Len(prs[t]), !.head = remote[t]])
    <2>1. PICK q : q = [p EXCEPT !.stage = "sleep", !.pr = Len(prs[t]), !.head = remote[t]]
      OBVIOUS
    <2>2. SamePoll(p, q) /\ q.stage = "sleep" /\ q.head = remote[t]
      <3>1. prs[t] \in Seq({"open", "merged"}) /\ remote[t] \in OptHead /\ Len(prs[t]) \in Nat
        BY <1>0 DEF DataTypes
      <3>2. QED
        BY <1>0, <2>1, <3>1 DEF SamePoll, Poll, Watching
    <2>3. remote[t] # Unset /\ remote[t] \in Heads /\ (t \notin strays => remote[t][1] = local[t][1])
      BY <1>0, <1>3 DEF TaskFits, DataTypes, OptHead
    <2>4. t \notin late /\ reported[t] # Unset => Later(reported[t], remote[t])
      <3>1. ASSUME t \notin late, reported[t] # Unset PROVE Later(reported[t], remote[t])
        <4>1. reported[t] \in Heads /\ UpTo(reported[t], remote[t])
          BY <1>0, <3>1 DEF DataTypes, OptHead, TaskFits
        <4>2. QED
          BY <1>3, <2>3, <4>1, LaterIsOrder
      <3>2. QED
        BY <3>1
    <2>5. PollLive(q) /\ PollFits(q)'
      BY <1>0, <1>3, <2>2, <2>3, <2>4 DEF PollLive, PollFits, SamePoll, Data, UpTo
    <2>6. WatchesOn(p)
      BY <1>3, <2>1, <2>2, <2>5 DEF WatchesOn, SamePoll
    <2>7. QED
      BY <1>0, <1>1, <2>6, QuietPollKeepsIt
  <1>4. QED
    BY <1>2, <1>3 DEF G!PollStart, G!AlreadyReported

LEMMA PollTurnKeepsIt ==
  ASSUME GithubInv, NEW p \in polls,
         G!PollWakes(p) \/ G!PollLooks(p) \/ G!PollConfirms(p) \/ G!PollFails(p)
  PROVE  GithubInv'
  <1>0. /\ UNCHANGED Data /\ alarms' = alarms /\ crashes' = crashes
        /\ UNCHANGED faults \/ G!Fails
    BY DEF G!PollWakes, G!PollLooks, G!PollConfirms, G!PollFails, G!Quiet, G!github, G!reports, Data
  <1>1. FewerFaults
    BY <1>0, PollFacts, SameFaults
  <1>2. CASE G!PollWakes(p)
    BY <1>0, <1>1, <1>2, PollGoes, QuietPollKeepsIt DEF G!PollWakes, Watching
  <1>3. CASE G!PollConfirms(p)
    <2>1. p.stage = "confirm" /\ G!Concluded(p.task, p.head) # {}
      BY <1>3, PollFacts DEF G!PollConfirms, PollFits
    <2>2. QED
      BY <1>0, <1>1, <1>3, <2>1, PollGoes, QuietPollKeepsIt DEF G!PollConfirms, Watching
  <1>4. CASE G!PollFails(p)
    BY <1>0, <1>1, <1>4, QuietPollKeepsIt DEF G!PollFails
  <1>5. CASE G!PollLooks(p)
    <2>1. \/ G!Transit(p.task, "merge-conflict", calls, polls \ {p}) \/ G!GivesUp(p)
          \/ G!Watches(p, [p EXCEPT !.stage = "sleep"])
          \/ /\ G!Watches(p, [p EXCEPT !.stage = "confirm"])
             /\ G!Concluded(p.task, p.head) # {}
      BY <1>5 DEF G!PollLooks
    <2>2. p.stage = "look"
      BY <1>5 DEF G!PollLooks
    <2>3. CASE G!Watches(p, [p EXCEPT !.stage = "sleep"])
      BY <1>0, <1>1, <2>2, <2>3, PollGoes, QuietPollKeepsIt DEF Watching
    <2>4. CASE /\ G!Watches(p, [p EXCEPT !.stage = "confirm"])
               /\ G!Concluded(p.task, p.head) # {}
      BY <1>0, <1>1, <2>2, <2>4, PollGoes, QuietPollKeepsIt DEF Watching
    <2>5. CASE G!Transit(p.task, "merge-conflict", calls, polls \ {p}) \/ G!GivesUp(p)
      BY <1>0, <1>1, <2>5, QuietPollKeepsIt
    <2>6. QED
      BY <2>1, <2>3, <2>4, <2>5
  <1>6. QED
    BY <1>2, <1>3, <1>4, <1>5
-----------------------------------------------------------------------------
(* the watches after a move, one by one *)
LEMMA PollsAre ==
  ASSUME NEW others, NEW watches \in SUBSET Poll, NEW t, NEW to, to # "pr-open",
         MovesOn(t, to, others, watches)
  PROVE  \A q \in polls' : \E p \in watches :
           /\ q \in Poll /\ CarriedPoll(p, q)
           /\ p.task = t /\ status[t] = "pr-open" => q.aborted
           /\ p.aborted => q = p
  <1> DEFINE ended == "pr-open" \in {status[t], to}
             Dropping(p) == [p EXCEPT !.aborted = p.aborted \/ (p.task = t /\ ended)]
  <1>1. \A q \in polls' : \E p \in watches : q = Dropping(p)
    BY DEF MovesOn, G!MoveTo
  <1>2. ASSUME NEW p \in watches
        PROVE  /\ Dropping(p) \in Poll /\ CarriedPoll(p, Dropping(p))
               /\ p.task = t /\ status[t] = "pr-open" => Dropping(p).aborted
               /\ p.aborted => Dropping(p) = p
    <2>1. (p.task = t /\ ended) \in BOOLEAN
      OBVIOUS
    <2>2. QED
      BY <2>1, AbortedPoll
  <1> HIDE DEF Dropping
  <1>3. QED
    BY <1>1, <1>2

LEMMA SameWatch ==
  ASSUME NEW r, NEW p \in Poll, NEW q \in Poll, CarriedPoll(r, p), CarriedPoll(r, q),
         p.aborted, q.aborted
  PROVE  p = q
  BY DEF Poll, CarriedPoll

(* Checks that failed are reported: the head is later than the one that    *)
(* was reported last, so no agent has been sent to repair it and no other  *)
(* watch is about to, and every other watch of the task has been dropped.  *)
LEMMA ReportKeepsIt ==
  ASSUME GithubInv, NEW p \in polls, p.stage = "judge",
         G!Transit(p.task, "merge-conflict", calls,
                   (polls \ {p}) \cup {[p EXCEPT !.stage = "repair"]}),
         reported' = [reported EXCEPT ![p.task] = p.head],
         late' = IF p.aborted THEN late \cup {p.task} ELSE late,
         UNCHANGED <<local, remote, prs, checks, baseV, merges, strays, repairs, alarms, faults, crashes>>
  PROVE  GithubInv'
  <1> DEFINE t == p.task
  <1>0. /\ p \in Poll /\ t \in Tasks /\ PollLive(p) /\ PollFits(p) /\ DataTypes /\ ActorTypes
        /\ p.head \in Heads /\ polls \in SUBSET Poll /\ calls \in SUBSET Call
        /\ faults \in Nat /\ crashes \in Nat
    BY PollFacts DEF PollFits, OptHead, ActorTypes
  <1>1. PICK r : r = [p EXCEPT !.stage = "repair"]
    OBVIOUS
  <1>2. SamePoll(p, r) /\ r.stage = "repair" /\ r.head = p.head
    BY <1>0, <1>1, PollStage
  <1>3. /\ status[t] \in {"pr-open", "finalizing", "ci-pending"}
        /\ MovesOn(t, "needs-review", calls, (polls \ {p}) \cup {r})
        /\ Moved(t, "needs-review")
    <2>1. /\ status[t] \in {"pr-open", "finalizing", "ci-pending"}
          /\ G!MoveTo(t, "needs-review", calls, (polls \ {p}) \cup {r})
      BY <1>0, <1>1, TransitMoves
    <2>2. QED
      BY <1>0, <2>1, MovesTo DEF GithubStatuses
  <1>4. /\ \A u \in Tasks : reported'[u] = IF u = t THEN p.head ELSE reported[u]
        /\ late \subseteq late' /\ (t \notin late' => t \notin late /\ ~p.aborted)
    BY <1>0 DEF DataTypes
  <1>5. t \notin late' =>
          /\ status[t] = "pr-open" /\ remote[t] # Unset /\ UpTo(p.head, remote[t])
          /\ reported[t] # Unset => Later(reported[t], p.head) /\ reported[t] \in Heads
    BY <1>0, <1>4 DEF PollFits, PollLive, Watching, DataTypes, OptHead
  <1>6. DataTypes' /\ Onward
    <2>1. DataTypes'
      BY <1>0 DEF DataTypes, OptHead
    <2>2. QED
      BY <1>4, <2>1 DEF Onward, HasMerged, UpTo
  <1>7. Unopened /\ SameMerged
    BY <1>3, ClosingMove
  <1>8. /\ calls' \subseteq Call
        /\ \A d \in calls' : CallLive(d)' /\ CallFits(d)'
        /\ \A e \in calls : \E d \in calls' : d.task = e.task /\ d.stage = e.stage
    <2>1. \A e \in calls : CallLive(e) /\ CallFits(e)'
      BY <1>0, <1>6, CallPersists DEF GithubInv, ActorsFit
    <2>2. QED
      BY <1>0, <1>3, <2>1, CallsMove
  <1>9. ASSUME NEW q \in polls'
        PROVE  /\ q \in Poll
               /\ \/ \E u \in polls : /\ CarriedPoll(u, q)
                                      /\ u.task = t /\ status[t] = "pr-open" => q.aborted
                                      /\ u.aborted => q = u
                  \/ CarriedPoll(r, q) /\ (status[t] = "pr-open" => q.aborted)
    <2>1. (polls \ {p}) \cup {r} \in SUBSET Poll
      BY <1>0, <1>2 DEF SamePoll
    <2>2. PICK u \in (polls \ {p}) \cup {r} :
                 /\ q \in Poll /\ CarriedPoll(u, q)
                 /\ u.task = t /\ status[t] = "pr-open" => q.aborted
                 /\ u.aborted => q = u
      BY <1>3, <1>9, <2>1, PollsAre
    <2>3. QED
      BY <1>2, <2>2 DEF SamePoll
  <1>10. ASSUME t \notin late', reported[t] # Unset, NEW h \in OptHead, h # Unset, UpTo(h, reported[t])
         PROVE  UpTo(h, p.head) /\ h # p.head
    <2>1. h \in Heads /\ reported[t] \in Heads /\ Later(reported[t], p.head)
      BY <1>5, <1>10 DEF OptHead
    <2>2. Later(h, p.head) /\ ~Later(p.head, p.head)
      BY <1>0, <1>10, <2>1, LaterIsOrder
    <2>3. QED
      BY <2>2 DEF UpTo
  <1>11. ASSUME NEW u \in polls, u.stage = "repair", u.task = t, t \notin late'
         PROVE  UpTo(u.head, p.head) /\ u.head # p.head
    <2>1. /\ u.head \in OptHead /\ u.head # Unset /\ reported[t] # Unset
          /\ UpTo(u.head, reported[t])
      BY <1>4, <1>11, PollFacts DEF PollFits
    <2>2. QED
      BY <1>10, <1>11, <2>1
  <1>12. ASSUME NEW i \in DOMAIN repairs, repairs[i][1] = t, t \notin late'
         PROVE  UpTo(repairs[i][2], p.head) /\ repairs[i][2] # p.head
    <2>1. repairs[i] \in Tasks \X Heads
      BY <1>0 DEF DataTypes
    <2>2. repairs[i][2] \in OptHead /\ repairs[i][2] \in Heads /\ reported[t] # Unset /\ UpTo(repairs[i][2], reported[t])
      BY <1>4, <1>12, <2>1 DEF GithubInv, RepairsFit, OptHead
    <2>3. repairs[i][2] # Unset
      BY <2>1, UnsetIsNoHead
    <2>4. QED
      BY <1>10, <1>12, <2>2, <2>3
  <1>13. ASSUME NEW q \in polls' PROVE PollLive(q)' /\ PollFits(q)'
    <2>1. CASE \E u \in polls : /\ CarriedPoll(u, q)
                                /\ u.task = t /\ status[t] = "pr-open" => q.aborted
                                /\ u.aborted => q = u
      <3>1. PICK u \in polls : /\ CarriedPoll(u, q)
                               /\ u.task = t /\ status[t] = "pr-open" => q.aborted
                               /\ u.aborted => q = u
        BY <2>1
      <3>2. u \in Poll /\ u.task \in Tasks /\ PollLive(u) /\ PollFits(u)
        BY PollFacts
      <3>3. u.task = t => q.aborted
        BY <1>3, <3>1, <3>2 DEF PollLive, CarriedPoll
      <3>4. PollLive(q)'
        BY <1>3, <3>1, <3>2, <3>3 DEF PollLive, CarriedPoll, Moved
      <3>5. PollFits(u)' \/ u.task = t
        <4> SUFFICES ASSUME u.task # t PROVE PollFits(u)'
          OBVIOUS
        <4>1. u.task \notin late' => u.task \notin late
          BY <1>4
        <4>2. reported'[u.task] = reported[u.task]
          BY <1>4, <3>2
        <4>3. G!Concluded(u.task, u.head)' = G!Concluded(u.task, u.head)
          BY DEF G!Concluded
        <4>4. QED
          BY <3>2, <4>1, <4>2, <4>3 DEF PollFits
      <3>6. PollFits(q)'
        <4>1. CASE u.task # t
          BY <3>1, <3>5, <4>1, CarriedPollFits
        <4>2. CASE u.task = t
          <5>1. G!Concluded(u.task, u.head)' = G!Concluded(u.task, u.head)
            BY DEF G!Concluded
          <5>2. u.stage = "repair" /\ t \notin late' =>
                  /\ p.head # Unset /\ UpTo(u.head, p.head)
                  /\ \A i \in DOMAIN repairs : repairs[i] # <<t, u.head>>
            BY <1>4, <1>11, <3>2, <4>2, <1>0, UnsetIsNoHead DEF PollFits
          <5>3. QED
            BY <1>0, <1>4, <3>1, <3>2, <3>3, <4>2, <5>1, <5>2 DEF PollFits, CarriedPoll, Watching
        <4>3. QED
          BY <4>1, <4>2
      <3>7. QED
        BY <3>4, <3>6
    <2>2. CASE CarriedPoll(r, q) /\ (status[t] = "pr-open" => q.aborted)
      <3>1. q.aborted /\ q.task = t /\ q.stage = "repair" /\ q.head = p.head
        BY <1>0, <1>2, <1>3, <2>2 DEF CarriedPoll, SamePoll, PollLive
      <3>2. t \notin late' =>
              /\ reported'[t] = p.head /\ p.head # Unset /\ UpTo(p.head, p.head)
              /\ \A i \in DOMAIN repairs : repairs[i] # <<t, p.head>>
        BY <1>0, <1>4, <1>12, UnsetIsNoHead DEF UpTo
      <3>3. QED
        BY <3>1, <3>2, <1>0, UnsetIsNoHead DEF PollLive, PollFits, Watching
    <2>3. QED
      BY <1>9, <2>1, <2>2
  <1>14. RepairsFit'
    <2>1. ASSUME NEW i \in DOMAIN repairs, repairs[i][1] \notin late'
          PROVE  /\ reported'[repairs[i][1]] # Unset
                 /\ UpTo(repairs[i][2], reported'[repairs[i][1]])
      <3>1. repairs[i][1] \in Tasks
        <4>1. repairs[i] \in Tasks \X Heads
          BY <1>0 DEF DataTypes
        <4>2. QED
          BY <4>1
      <3>2. CASE repairs[i][1] = t
        BY <1>0, <1>4, <1>12, <2>1, <3>2, UnsetIsNoHead
      <3>3. CASE repairs[i][1] # t
        BY <1>4, <2>1, <3>1, <3>3 DEF GithubInv, RepairsFit
      <3>4. QED
        BY <3>2, <3>3
    <2>2. OneRepairPerHead'
      BY <1>4 DEF GithubInv, RepairsFit, OneRepairPerHead, G!OneRepairPerHead
    <2>3. ASSUME NEW x \in polls', NEW y \in polls', x.stage = "repair", y.stage = "repair",
                 x.task = y.task, x.head = y.head, x.task \notin late'
          PROVE  x = y
      <3>1. ASSUME NEW z \in polls', z.stage = "repair"
            PROVE  /\ z \in Poll
                   /\ \/ z \in polls
                      \/ CarriedPoll(r, z) /\ z.aborted /\ z.task = t /\ z.head = p.head
        <4>1. CASE \E u \in polls : /\ CarriedPoll(u, z)
                                    /\ u.task = t /\ status[t] = "pr-open" => z.aborted
                                    /\ u.aborted => z = u
          <5>1. PICK u \in polls : CarriedPoll(u, z) /\ (u.aborted => z = u)
            BY <4>1
          <5>2. u.aborted
            BY <3>1, <5>1, PollFacts DEF PollFits, CarriedPoll
          <5>3. QED
            BY <1>9, <5>1, <5>2
        <4>2. CASE CarriedPoll(r, z) /\ (status[t] = "pr-open" => z.aborted)
          BY <1>0, <1>2, <1>3, <1>9, <4>2 DEF CarriedPoll, SamePoll, PollLive
        <4>3. QED
          BY <1>9, <4>1, <4>2
      <3>2. CASE x \in polls /\ y \in polls
        BY <1>4, <2>3, <3>2 DEF GithubInv, RepairsFit
      <3>3. CASE x \in polls /\ y.task = t /\ y.head = p.head
        BY <1>11, <2>3, <3>3
      <3>4. CASE y \in polls /\ x.task = t /\ x.head = p.head
        BY <1>11, <2>3, <3>4
      <3>5. CASE CarriedPoll(r, x) /\ x.aborted /\ CarriedPoll(r, y) /\ y.aborted
        BY <2>3, <3>1, <3>5, SameWatch
      <3>6. QED
        BY <2>3, <3>1, <3>2, <3>3, <3>4, <3>5
    <2>4. QED
      BY <2>1, <2>2, <2>3 DEF RepairsFit
  <1>15. ASSUME NEW u \in Tasks PROVE TaskFits(u)'
    <2>1. CASE u # t
      BY <1>3, <1>4, <2>1 DEF GithubInv, TaskFits, Moved
    <2>2. CASE u = t
      BY <1>0, <1>3, <1>4, <1>5, <2>2 DEF GithubInv, TaskFits, Moved
    <2>3. QED
      BY <2>1, <2>2
  <1>16. G!MergeIsTold'
    <2>1. FinalizersStay
      BY <1>8 DEF FinalizersStay
    <2>2. QED
      BY <1>6, <1>7, <2>1, ToldPersists DEF GithubInv, SameMerged, FinalizersStay, HasMerged
  <1>17. G!AutoMergedWorkWasChecked'
    BY <1>6, MergesPersist DEF GithubInv
  <1>18. ActorTypes' /\ ActorsFit'
    <2>1. status' \in [Tasks -> GithubStatuses]
      BY <1>0, <1>3 DEF MovesOn, G!MoveTo, ActorTypes
    <2>2. polls' \subseteq Poll
      BY <1>9
    <2>3. QED
      BY <1>8, <1>13, <2>1, <2>2 DEF ActorTypes, ActorsFit
  <1>19. QED
    BY <1>6, <1>14, <1>15, <1>16, <1>17, <1>18 DEF GithubInv
-----------------------------------------------------------------------------
LEMMA PollJudgesKeepsIt == ASSUME GithubInv, NEW p \in polls, G!PollJudges(p) PROVE GithubInv'
  <1> DEFINE t == p.task
             new == [G!NewCall("babysitter", t) EXCEPT !.aborted = p.aborted]
             failed == G!Concluded(t, p.head) = {"failed"}
  <1>0. /\ p \in Poll /\ t \in Tasks /\ PollLive(p) /\ PollFits(p) /\ DataTypes /\ ActorTypes
        /\ p.stage = "judge"
        /\ UNCHANGED <<local, remote, prs, checks, baseV, merges, strays, repairs, alarms, faults, crashes>>
    BY PollFacts DEF G!PollJudges, G!Quiet, G!github
  <1>1. FewerFaults
    BY <1>0, PollFacts, SameFaults
  <1>2. CASE failed /\ G!Accepts(t, "merge-conflict")
    <2>1. /\ G!Transit(t, "merge-conflict", calls, (polls \ {p}) \cup {[p EXCEPT !.stage = "repair"]})
          /\ reported' = [reported EXCEPT ![t] = p.head]
          /\ late' = IF p.aborted THEN late \cup {t} ELSE late
      BY <1>2 DEF G!PollJudges
    <2>2. QED
      BY <1>0, <2>1, ReportKeepsIt
  <1>3. CASE failed /\ ~G!Accepts(t, "merge-conflict")
    <2>1. G!GivesUp(p) /\ UNCHANGED <<reported, late>>
      BY <1>3 DEF G!PollJudges, G!reports
    <2>2. QED
      BY <1>0, <1>1, <2>1, QuietPollKeepsIt DEF Data
  <1>4. CASE ~failed
    <2>1. /\ polls' = polls \ {p} /\ status' = status /\ UNCHANGED <<reported, late>>
          /\ calls' = calls \/ (calls' = calls \cup {new} /\ status[t] = "pr-open")
      BY <1>4 DEF G!PollJudges, G!reports
    <2>2. UNCHANGED Data
      BY <1>0, <2>1 DEF Data
    <2>3. PICK e : e = new
      OBVIOUS
    <2>4. /\ e \in Call /\ e.by = "babysitter" /\ e.task = t /\ e.stage = "prepare"
          /\ e.aborted = p.aborted
      <3>1. p.aborted \in BOOLEAN /\ G!NewCall("babysitter", t) \in Call
        BY <1>0, NewCallFits DEF Poll, Callers
      <3>2. QED
        BY <1>0, <2>3, <3>1, NewCallFits DEF Call, G!NewCall
    <2>5. \E x \in checks : x[1] = t /\ x[2] = p.head /\ x[3] # "failed"
      <3>1. G!Concluded(t, p.head) # {}
        BY <1>0 DEF PollFits
      <3>2. PICK k \in G!Concluded(t, p.head) : k # "failed"
        BY <1>4, <3>1
      <3>3. QED
        BY <3>2 DEF G!Concluded
    <2>6. CallFits(e)'
      BY <1>0, <2>4, <2>5 DEF CallFits, AtBranch, AtRequest, Checked, PollFits, Watching
    <2>7. CASE calls' = calls
      BY <1>0, <1>1, <2>1, <2>2, <2>7, QuietPollKeepsIt DEF G!GivesUp
    <2>8. CASE calls' = calls \cup {e} /\ status[t] = "pr-open"
      <3>1. CallLive(e)
        BY <2>4, <2>8 DEF CallLive
      <3>2. Leaves(calls \cup {e}, polls \ {p}) /\ Unopened /\ SameMerged
        BY <2>1, <2>8 DEF Leaves, Stays, Unopened, SameMerged
      <3>3. calls \cup {e} \in SUBSET Call /\ polls \ {p} \in SUBSET Poll
        BY <1>0, <2>4 DEF ActorTypes
      <3>4. QED
        BY <1>0, <1>1, <2>2, <2>6, <3>1, <3>2, <3>3, QuietKeepsIt
    <2>9. QED
      BY <2>1, <2>3, <2>7, <2>8
  <1>5. QED
    BY <1>2, <1>3, <1>4

LEMMA Appended ==
  ASSUME NEW S, NEW s \in Seq(S), NEW x \in S, NEW n, n = Append(s, x)
  PROVE  /\ n \in Seq(S)
         /\ \A i \in DOMAIN n : (i \in DOMAIN s /\ n[i] = s[i]) \/ (i = Len(s) + 1 /\ n[i] = x)
  OBVIOUS

(* An agent is sent to repair a head that no agent was sent to repair, and *)
(* that no other watch has left to repair.                                 *)
LEMMA RepairKeepsIt == ASSUME GithubInv, NEW p \in polls, G!Repair(p) PROVE GithubInv'
  <1> DEFINE t == p.task
  <1>0. /\ p \in Poll /\ t \in Tasks /\ PollLive(p) /\ PollFits(p) /\ DataTypes /\ ActorTypes
        /\ p.stage = "repair" /\ p.head \in OptHead /\ p.head # Unset
        /\ calls \in SUBSET Call /\ polls \ {p} \in SUBSET Poll
        /\ UNCHANGED <<reported, late, local, remote, prs, checks, baseV, merges, strays, alarms,
                       faults, crashes>>
    BY PollFacts DEF G!Repair, G!Quiet, G!github, G!reports, PollFits, ActorTypes
  <1>1. FewerFaults
    BY <1>0, PollFacts, SameFaults
  <1>2. CASE G!GivesUp(p) /\ repairs' = repairs
    BY <1>0, <1>1, <1>2, QuietPollKeepsIt DEF Data
  <1>3. CASE /\ G!Transit(t, "mark-running", calls, polls \ {p})
             /\ repairs' = Append(repairs, <<t, p.head>>)
    <2>1. /\ status[t] \in {"ready", "needs-review", "pr-open"}
          /\ G!MoveTo(t, "running", calls, polls \ {p})
      BY <1>0, <1>3, TransitMoves
    <2>2. MovesOn(t, "running", calls, polls \ {p}) /\ Moved(t, "running")
      BY <1>0, <2>1, MovesTo DEF GithubStatuses
    <2>3. Unopened /\ SameMerged
      BY <2>1, <2>2, ClosingMove
    <2>4. PICK new : new = repairs'
      OBVIOUS
    <2>5. /\ new \in Seq(Tasks \X Heads) /\ repairs \in Seq(Tasks \X Heads)
          /\ \A i \in DOMAIN new : \/ i \in DOMAIN repairs /\ new[i] = repairs[i]
                                   \/ i = Len(repairs) + 1 /\ new[i] = <<t, p.head>>
      <3>1. <<t, p.head>> \in Tasks \X Heads /\ repairs \in Seq(Tasks \X Heads)
        BY <1>0 DEF OptHead, DataTypes
      <3>2. QED
        BY <1>3, <2>4, <3>1, Appended
    <2>6. t \notin late =>
            /\ reported[t] # Unset /\ UpTo(p.head, reported[t])
            /\ \A i \in DOMAIN repairs : repairs[i] # <<t, p.head>>
      BY <1>0 DEF PollFits
    <2>7. DataTypes' /\ Onward
      <3>1. DataTypes'
        BY <1>0, <2>4, <2>5 DEF DataTypes
      <3>2. QED
        BY <1>0, <3>1 DEF Onward, HasMerged, UpTo
    <2>8. /\ calls' \subseteq Call
          /\ \A d \in calls' : CallLive(d)' /\ CallFits(d)'
          /\ \A e \in calls : \E d \in calls' : d.task = e.task /\ d.stage = e.stage
      <3>1. \A e \in calls : CallLive(e) /\ CallFits(e)'
        BY <1>0, <2>7, CallPersists DEF GithubInv, ActorsFit, ActorTypes
      <3>2. QED
        BY <1>0, <2>2, <3>1, CallsMove
    <2>9. ASSUME NEW u \in polls \ {p} PROVE PollLive(u) /\ PollFits(u)'
      <3>1. u \in Poll /\ PollLive(u) /\ PollFits(u) /\ u.task \in Tasks
        BY PollFacts
      <3>2. G!Concluded(u.task, u.head)' = G!Concluded(u.task, u.head)
        BY <1>0 DEF G!Concluded
      <3>3. ASSUME u.stage = "repair", u.task \notin late, NEW i \in DOMAIN new
            PROVE  new[i] # <<u.task, u.head>>
        <4>1. u.task = t => u.head # p.head
          BY <1>0, <2>9, <3>3 DEF GithubInv, RepairsFit
        <4>2. \A j \in DOMAIN repairs : repairs[j] # <<u.task, u.head>>
          BY <3>1, <3>3 DEF PollFits
        <4>3. QED
          BY <2>5, <3>3, <4>1, <4>2
      <3>4. QED
        BY <1>0, <2>4, <3>1, <3>2, <3>3 DEF PollFits
    <2>10. /\ polls' \subseteq Poll
           /\ \A q \in polls' : PollLive(q)' /\ PollFits(q)'
           /\ \A q \in polls' : q.stage = "repair" => q \in polls \ {p}
      BY <1>0, <2>2, <2>9, PollsMove
    <2>11. RepairsFit'
      <3>1. ASSUME NEW i \in DOMAIN new, new[i][1] \notin late
            PROVE  reported[new[i][1]] # Unset /\ UpTo(new[i][2], reported[new[i][1]])
        <4>1. CASE i \in DOMAIN repairs /\ new[i] = repairs[i]
          BY <3>1, <4>1 DEF GithubInv, RepairsFit
        <4>2. CASE new[i] = <<t, p.head>>
          BY <2>6, <3>1, <4>2
        <4>3. QED
          BY <2>5, <4>1, <4>2
      <3>2. ASSUME NEW i \in DOMAIN new, NEW j \in DOMAIN new, new[i] = new[j], new[i][1] \notin late
            PROVE  i = j
        <4>1. CASE i \in DOMAIN repairs /\ new[i] = repairs[i] /\ j \in DOMAIN repairs /\ new[j] = repairs[j]
          BY <3>2, <4>1 DEF GithubInv, RepairsFit, OneRepairPerHead, G!OneRepairPerHead
        <4>2. CASE i \in DOMAIN repairs /\ new[i] = repairs[i] /\ new[j] = <<t, p.head>>
          <5>1. repairs[i] = <<t, p.head>> /\ <<t, p.head>>[1] \notin late
            BY <3>2, <4>2
          <5>2. QED
            BY <2>6, <4>2, <5>1
        <4>3. CASE j \in DOMAIN repairs /\ new[j] = repairs[j] /\ new[i] = <<t, p.head>>
          BY <2>6, <3>2, <4>3
        <4>4. CASE i = Len(repairs) + 1 /\ j = Len(repairs) + 1
          BY <4>4
        <4>5. QED
          BY <2>5, <4>1, <4>2, <4>3, <4>4
      <3>3. OneRepairPerHead'
        BY <1>0, <2>4, <3>2 DEF OneRepairPerHead, G!OneRepairPerHead
      <3>4. \A x, y \in polls' :
              x.stage = "repair" /\ y.stage = "repair" /\ x.task = y.task /\ x.head = y.head
                /\ x.task \notin late => x = y
        BY <2>10 DEF GithubInv, RepairsFit
      <3>5. QED
        BY <1>0, <2>4, <3>1, <3>3, <3>4 DEF RepairsFit
    <2>12. \A u \in Tasks : TaskFits(u)'
      BY <1>0, <2>3, TasksPersist DEF GithubInv, Unopened
    <2>13. G!MergeIsTold'
      <3>1. FinalizersStay
        BY <2>8 DEF FinalizersStay
      <3>2. QED
        BY <1>0, <1>1, <2>3, <2>7, <3>1, ToldPersists
           DEF GithubInv, FewerFaults, SameMerged, FinalizersStay, HasMerged
    <2>14. G!AutoMergedWorkWasChecked'
      BY <1>0, <2>7, MergesPersist DEF GithubInv
    <2>15. ActorTypes'
      BY <1>0, <2>2, <2>8, <2>10 DEF ActorTypes, MovesOn, G!MoveTo
    <2>16. QED
      BY <2>7, <2>8, <2>10, <2>11, <2>12, <2>13, <2>14, <2>15 DEF GithubInv, ActorsFit
  <1>4. QED
    BY <1>2, <1>3 DEF G!Repair, G!Rerun

LEMMA PollStepKeepsIt ==
  ASSUME GithubInv, NEW p \in polls, G!PollStep(p) \/ G!PollFails(p) PROVE GithubInv'
  BY PollStartKeepsIt, PollTurnKeepsIt, PollJudgesKeepsIt, RepairKeepsIt DEF G!PollStep
-----------------------------------------------------------------------------
(* a step that moves no task and leaves the watches as they are *)
LEMMA CallsAreAdded ==
  ASSUME GithubInv, UNCHANGED Data, FewerFaults, UNCHANGED <<alarms, status, polls>>,
         NEW more \in SUBSET Call, calls' = calls \cup more,
         \A e \in more : e.by # "babysitter" /\ e.stage = "prepare"
  PROVE  GithubInv'
  <1>1. \A e \in more : CallLive(e) /\ CallFits(e)'
    BY DEF CallLive, CallFits, AtBranch, AtRequest
  <1>2. Leaves(calls \cup more, polls) /\ Unopened /\ SameMerged
    BY DEF Leaves, Stays, Unopened, SameMerged
  <1>3. calls \cup more \in SUBSET Call /\ polls \in SUBSET Poll
    BY DEF GithubInv, ActorTypes
  <1>4. QED
    BY <1>1, <1>2, <1>3, QuietKeepsIt

LEMMA AskedKeepsIt ==
  ASSUME GithubInv,
         \/ \E o \in Operators, t \in Tasks : G!OperatorMerges(o, t)
         \/ G!StartLand \/ G!LandCalls
  PROVE  GithubInv'
  <1>0. /\ UNCHANGED Data /\ UNCHANGED <<alarms, status, polls, faults, crashes>>
        /\ faults \in Nat /\ crashes \in Nat
    BY DEF G!OperatorMerges, G!StartLand, G!LandCalls, G!github, G!trees, G!notes, Data,
           GithubInv, DataTypes
  <1>1. FewerFaults /\ UNCHANGED Data /\ UNCHANGED <<alarms, status, polls>>
    BY <1>0, SameFaults
  <1>2. ASSUME NEW o \in Operators, NEW t \in Tasks, G!OperatorMerges(o, t) PROVE GithubInv'
    <2>1. calls' = calls \cup {G!NewCall(o, t)} /\ o # "babysitter" /\ o \in Callers
      BY <1>2, Assumptions DEF G!OperatorMerges, G!GithubDeliveryAssumption, Callers
    <2>2. /\ G!NewCall(o, t) \in Call /\ G!NewCall(o, t).by # "babysitter"
          /\ G!NewCall(o, t).stage = "prepare"
      BY <2>1, NewCallFits
    <2>3. PICK more : more = {G!NewCall(o, t)}
      OBVIOUS
    <2>4. more \in SUBSET Call /\ \A e \in more : e.by # "babysitter" /\ e.stage = "prepare"
      BY <2>2, <2>3
    <2>5. QED
      BY <1>1, <2>1, <2>3, <2>4, CallsAreAdded
  <1>3. CASE G!StartLand
    <2>1. PICK more : more = {}
      OBVIOUS
    <2>2. calls' = calls \cup more /\ more \in SUBSET Call
      BY <1>3, <2>1 DEF G!StartLand
    <2>3. QED
      BY <1>1, <2>1, <2>2, CallsAreAdded
  <1>4. CASE G!LandCalls
    <2>1. PICK i \in DOMAIN LandOrder : calls' = calls \cup {G!NewCall("land", LandOrder[i])}
      BY <1>4 DEF G!LandCalls
    <2>2. LandOrder[i] \in Tasks
      BY Assumptions DEF G!GithubDeliveryAssumption
    <2>3. /\ G!NewCall("land", LandOrder[i]) \in Call
          /\ G!NewCall("land", LandOrder[i]).by # "babysitter"
          /\ G!NewCall("land", LandOrder[i]).stage = "prepare"
      BY <2>2, NewCallFits DEF Callers
    <2>4. PICK more : more = {G!NewCall("land", LandOrder[i])}
      OBVIOUS
    <2>5. more \in SUBSET Call /\ \A e \in more : e.by # "babysitter" /\ e.stage = "prepare"
      BY <2>3, <2>4
    <2>6. QED
      BY <1>1, <2>1, <2>4, <2>5, CallsAreAdded
  <1>5. QED
    BY <1>2, <1>3, <1>4

LEMMA ContinuesKeepsIt ==
  ASSUME GithubInv, NEW t \in Tasks, G!OperatorContinues(t) PROVE GithubInv'
  <1>0. /\ UNCHANGED Data /\ UNCHANGED <<alarms, faults, crashes>>
        /\ faults \in Nat /\ crashes \in Nat /\ ActorTypes
        /\ G!Transit(t, "mark-running", calls, polls)
    BY DEF G!OperatorContinues, G!Rerun, G!github, G!notes, Data, GithubInv, DataTypes
  <1>1. FewerFaults
    BY <1>0, SameFaults
  <1>2. /\ status[t] \in {"ready", "needs-review", "pr-open"}
        /\ G!MoveTo(t, "running", calls, polls)
    BY <1>0, TransitMoves
  <1>3. Leaves(calls, polls) /\ Moved(t, "running")
    BY <1>0, <1>2, MovesTo DEF GithubStatuses
  <1>4. Unopened /\ SameMerged
    BY <1>2, <1>3, ClosingMove
  <1>5. QED
    BY <1>0, <1>1, <1>3, <1>4, QuietKeepsIt DEF ActorTypes

(* the agent may have committed: its task is not open, so nothing watches  *)
(* its head                                                                *)
LEMMA DeliversKeepsIt ==
  ASSUME GithubInv, NEW t \in Tasks, G!AgentDelivers(t) PROVE GithubInv'
  <1>0. /\ status[t] = "running" /\ G!MoveTo(t, "finalizing", calls, polls)
        /\ local' \in {local, [local EXCEPT ![t] = <<@[1] + 1, @[2]>>]}
        /\ UNCHANGED <<reported, late, remote, prs, checks, baseV, merges, strays, repairs, alarms,
                       faults, crashes>>
        /\ DataTypes /\ ActorTypes /\ faults \in Nat /\ crashes \in Nat
    BY DEF G!AgentDelivers, G!github, G!notes, GithubInv, DataTypes
  <1>1. FewerFaults
    BY <1>0, SameFaults
  <1>2. Leaves(calls, polls) /\ Moved(t, "finalizing")
    BY <1>0, MovesTo DEF GithubStatuses
  <1>3. Unopened /\ SameMerged
    BY <1>0, <1>2, ClosingMove
  <1>4. /\ local[t] \in Heads /\ \A u \in Tasks \ {t} : local'[u] = local[u]
        /\ local'[t] \in {local[t], <<local[t][1] + 1, local[t][2]>>}
    BY <1>0 DEF DataTypes
  <1>5. PICK k : k = <<local[t][1] + 1, local[t][2]>>
    OBVIOUS
  <1>6. k \in Heads /\ Later(local[t], k) /\ k[2] = local[t][2]
    BY <1>4, <1>5 DEF Heads, Later
  <1>7. DataTypes'
    BY <1>0, <1>5, <1>6 DEF DataTypes
  <1>8. Onward
    BY <1>0, <1>4, <1>7 DEF Onward, HasMerged, UpTo
  <1>9. /\ ActorTypes' /\ ActorsFit'
        /\ \A q \in polls' : q.stage = "repair" => q \in polls
        /\ \A x \in calls : \E d \in calls' : d.task = x.task /\ d.stage = x.stage
    <2>1. \A e \in calls : CallLive(e) /\ CallFits(e)'
      BY <1>0, <1>8, CallPersists DEF GithubInv, ActorsFit, ActorTypes
    <2>2. \A p \in polls : PollLive(p) /\ PollFits(p)'
      BY <1>0, <1>7, <1>8, PollPersists DEF GithubInv, ActorsFit, ActorTypes
    <2>3. QED
      BY <1>0, <1>2, <2>1, <2>2, ActorsAfter DEF ActorTypes
  <1>10. RepairsFit'
    BY <1>0, <1>9, RepairsPersist DEF GithubInv
  <1>11. ASSUME NEW u \in Tasks PROVE TaskFits(u)'
    <2>1. TaskFits(u)
      BY DEF GithubInv
    <2>2. CASE u # t
      BY <1>0, <1>2, <1>4, <2>1, <2>2 DEF TaskFits, Moved
    <2>3. CASE u = t
      <3>1. remote[t] # Unset => UpTo(remote[t], local'[t])
        <4>1. CASE local'[t] = local[t]
          BY <2>1, <2>3, <4>1 DEF TaskFits
        <4>2. CASE local'[t] = k
          <5>1. remote[t] # Unset => remote[t] \in Heads /\ UpTo(remote[t], local[t])
            BY <1>0, <2>1, <2>3 DEF TaskFits, DataTypes, OptHead
          <5>2. QED
            BY <1>4, <1>6, <4>2, <5>1, LaterIsOrder DEF UpTo
        <4>3. QED
          BY <1>4, <1>5, <4>1, <4>2
      <3>2. local'[t][2] = local[t][2]
        BY <1>4, <1>5, <1>6
      <3>3. status'[t] = "finalizing"
        BY <1>2 DEF Moved
      <3>4. QED
        BY <1>0, <2>1, <2>3, <3>1, <3>2, <3>3 DEF TaskFits
    <2>4. QED
      BY <2>2, <2>3
  <1>12. FinalizersStay
    BY <1>9 DEF FinalizersStay
  <1>13. G!MergeIsTold'
    BY <1>0, <1>3, <1>8, <1>12, ToldPersists DEF GithubInv, SameMerged, FinalizersStay, HasMerged
  <1>14. G!AutoMergedWorkWasChecked'
    BY <1>0, <1>8, MergesPersist DEF GithubInv
  <1>15. QED
    BY <1>7, <1>9, <1>10, <1>11, <1>13, <1>14 DEF GithubInv

(* what is outside the engine moves: the base branch, the checks *)
LEMMA WorldKeepsIt ==
  ASSUME GithubInv, G!BaseMoves \/ \E t \in Tasks : G!Conclude(t) PROVE GithubInv'
  <1>0. /\ DataTypes /\ ActorTypes
        /\ UNCHANGED <<status, calls, polls, reported, late, local, remote, prs, merges, strays, repairs,
                       alarms, faults, crashes>>
    BY DEF G!BaseMoves, G!Conclude, G!engine, G!trees, G!notes, GithubInv
  <1>1. /\ checks \subseteq checks' /\ checks' \subseteq Tasks \X OptHead \X {"passed", "failed", "other"}
        /\ baseV' \in Nat /\ baseV <= baseV'
    <2>1. CASE G!BaseMoves
      BY <1>0, <2>1 DEF G!BaseMoves, DataTypes
    <2>2. ASSUME NEW t \in Tasks, G!Conclude(t)
          PROVE  /\ checks \subseteq checks' /\ baseV' \in Nat /\ baseV <= baseV'
                 /\ checks' \subseteq Tasks \X OptHead \X {"passed", "failed", "other"}
      <3>1. /\ baseV' = baseV /\ baseV \in Nat /\ remote[t] \in OptHead
            /\ \E x \in {"passed", "failed", "other"} : checks' = checks \cup {<<t, remote[t], x>>}
        BY <1>0, <2>2 DEF G!Conclude, DataTypes
      <3>2. QED
        BY <1>0, <3>1 DEF DataTypes
    <2>3. QED
      BY <2>1, <2>2
  <1>2. DataTypes' /\ Onward
    BY <1>0, <1>1 DEF DataTypes, Onward, HasMerged, UpTo
  <1>3. ActorTypes' /\ ActorsFit'
    <2>1. \A e \in calls : CallLive(e)' /\ CallFits(e)'
      BY <1>0, <1>2, CallPersists DEF GithubInv, ActorsFit, ActorTypes, CallLive
    <2>2. \A p \in polls : PollLive(p)' /\ PollFits(p)'
      BY <1>0, <1>2, PollPersists DEF GithubInv, ActorsFit, ActorTypes, PollLive
    <2>3. QED
      BY <1>0, <2>1, <2>2 DEF ActorTypes, ActorsFit
  <1>4. RepairsFit'
    BY <1>0, RepairsPersist DEF GithubInv
  <1>5. ASSUME NEW u \in Tasks PROVE TaskFits(u)'
    <2>1. TaskFits(u) /\ local[u] \in Heads /\ baseV \in Nat
      BY <1>0 DEF GithubInv, DataTypes
    <2>2. local[u][2] <= baseV'
      BY <1>1, <2>1 DEF TaskFits, Heads
    <2>3. QED
      BY <1>0, <2>1, <2>2 DEF TaskFits
  <1>6. G!MergeIsTold' /\ G!AutoMergedWorkWasChecked'
    <2>1. G!MergeIsTold'
      BY <1>0 DEF GithubInv, G!MergeIsTold
    <2>2. QED
      BY <1>0, <1>2, <2>1, MergesPersist DEF GithubInv
  <1>7. QED
    BY <1>2, <1>3, <1>4, <1>5, <1>6 DEF GithubInv

(* the engine starts again: new calls and watches for the tasks it finds *)
LEMMA EngineRestartKeepsIt == ASSUME GithubInv, G!Restart PROVE GithubInv'
  <1>0. /\ DataTypes /\ ActorTypes /\ crashes' = crashes + 1
        /\ UNCHANGED <<status, reported, late, local, remote, prs, checks, baseV, merges, strays, repairs,
                       alarms, faults>>
    BY DEF G!Restart, G!github, G!trees, GithubInv
  <1>1. DataTypes' /\ Onward /\ crashes' # 0
    BY <1>0 DEF DataTypes, Onward, HasMerged, UpTo
  <1>2. ASSUME NEW d \in calls'
        PROVE  d \in Call /\ d.by = "dispatcher" /\ d.stage = "prepare"
    <2>1. PICK t \in Tasks : d = G!NewCall("dispatcher", t)
      BY DEF G!Restart, G!Dispatched, G!TakenUp
    <2>2. QED
      BY <2>1, NewCallFits DEF Callers
  <1>3. ASSUME NEW q \in polls'
        PROVE  q \in Poll /\ PollFits(q)' /\ q.stage = "start" /\ status[q.task] = "pr-open"
    <2>1. PICK t \in Tasks : status[t] = "pr-open" /\ q = G!NewPoll(t)
      BY DEF G!Restart, G!TakenUp
    <2>2. QED
      BY <2>1, NewPollFits
  <1>4. ActorTypes' /\ ActorsFit'
    <2>1. \A d \in calls' : CallLive(d)' /\ CallFits(d)'
      BY <1>2 DEF CallLive, CallFits, AtBranch, AtRequest
    <2>2. \A q \in polls' : PollLive(q)' /\ PollFits(q)'
      BY <1>0, <1>3 DEF PollLive
    <2>3. QED
      BY <1>0, <1>2, <1>3, <2>1, <2>2 DEF ActorTypes, ActorsFit
  <1>5. RepairsFit'
    BY <1>0, <1>3, RepairsPersist DEF GithubInv
  <1>6. \A u \in Tasks : TaskFits(u)'
    BY <1>0, TasksPersist DEF GithubInv
  <1>7. G!MergeIsTold'
    BY <1>0, <1>1 DEF GithubInv, G!MergeIsTold
  <1>8. G!AutoMergedWorkWasChecked'
    BY <1>0, <1>1, MergesPersist DEF GithubInv
  <1>9. QED
    BY <1>1, <1>4, <1>5, <1>6, <1>7, <1>8 DEF GithubInv

GithubVars == <<status, calls, polls, reported, late, local, remote, prs, checks, baseV, merges,
                strays, repairs, alarms, faults, crashes>>

LEMMA GithubStutter == ASSUME GithubInv, UNCHANGED GithubVars PROVE GithubInv'
  BY DEF GithubVars, GithubInv, DataTypes, ActorTypes, ActorsFit, CallLive, CallFits, PollLive, PollFits,
         TaskFits, RepairsFit, OneRepairPerHead, G!OneRepairPerHead, G!MergeIsTold,
         G!AutoMergedWorkWasChecked, HasMerged, Checked, G!Concluded

LEMMA GithubStepKeepsIt == ASSUME GithubInv, G!Next PROVE GithubInv'
  BY CallStepKeepsIt, PollStepKeepsIt, AskedKeepsIt, ContinuesKeepsIt, DeliversKeepsIt, WorldKeepsIt,
     EngineRestartKeepsIt DEF G!Next
-----------------------------------------------------------------------------
LEMMA GithubInitFits ==
  ASSUME NEW policy, NEW statuses \in [Tasks -> {"running", "pr-open", "cancelled"}],
         NEW pushed \in [Tasks -> {Unset, <<0, 0>>}], NEW requests \in [Tasks -> Seq({"open"})],
         \A t \in Tasks : statuses[t] = "pr-open" => pushed[t] = <<0, 0>>,
         G!InitWith(policy, statuses, pushed, requests)
  PROVE  GithubInv
  <1>1. /\ status = statuses /\ remote = pushed /\ prs = requests
        /\ reported = [t \in Tasks |-> Unset] /\ local = [t \in Tasks |-> <<0, 0>>]
        /\ calls = {} /\ polls = {} /\ checks = {} /\ merges = {} /\ repairs = << >>
        /\ baseV = 0 /\ faults = 0 /\ crashes = 0
    BY DEF G!InitWith
  <1>2. <<0, 0>> \in Heads /\ <<0, 0>>[1] = 0 /\ <<0, 0>>[2] = 0 /\ <<0, 0>> # Unset
    BY UnsetIsNoHead DEF Heads
  <1>3. \A t \in Tasks : requests[t] \in Seq({"open", "merged"}) /\ ~HasMerged(t)
    <2>1. \A s \in Seq({"open"}) : s \in Seq({"open", "merged"}) /\ \A i \in DOMAIN s : s[i] = "open"
      OBVIOUS
    <2>2. QED
      BY <1>1, <2>1 DEF HasMerged, G!Contains
  <1>4. DataTypes
    <2>1. prs \in [Tasks -> Seq({"open", "merged"})]
      BY <1>1, <1>3
    <2>2. local \in [Tasks -> Heads] /\ remote \in [Tasks -> OptHead] /\ reported \in [Tasks -> OptHead]
      BY <1>1, <1>2 DEF OptHead
    <2>3. QED
      BY <1>1, <2>1, <2>2 DEF DataTypes
  <1>5. ActorTypes /\ ActorsFit
    BY <1>1 DEF ActorTypes, ActorsFit, GithubStatuses
  <1>6. \A t \in Tasks : TaskFits(t)
    <2> SUFFICES ASSUME NEW t \in Tasks PROVE TaskFits(t)
      OBVIOUS
    <2>1. /\ reported[t] = Unset /\ local[t] = <<0, 0>> /\ remote[t] \in {Unset, <<0, 0>>}
          /\ status[t] = "pr-open" => remote[t] = <<0, 0>>
      BY <1>1
    <2>2. QED
      BY <1>1, <1>2, <2>1 DEF TaskFits, UpTo
  <1>7. RepairsFit
    BY <1>1 DEF RepairsFit, OneRepairPerHead, G!OneRepairPerHead
  <1>8. G!MergeIsTold /\ G!AutoMergedWorkWasChecked
    BY <1>1, <1>3 DEF G!MergeIsTold, G!AutoMergedWorkWasChecked, HasMerged
  <1>9. QED
    BY <1>4, <1>5, <1>6, <1>7, <1>8 DEF GithubInv

LEMMA GithubStarts == G!Init => GithubInv
  <1> SUFFICES ASSUME G!Init PROVE GithubInv
    OBVIOUS
  <1>1. PICK statuses, pushed, requests :
          /\ statuses = [t \in Tasks |-> "running"] /\ pushed = [t \in Tasks |-> Unset]
          /\ requests = [t \in Tasks |-> << >>]
    OBVIOUS
  <1>2. /\ statuses \in [Tasks -> {"running", "pr-open", "cancelled"}]
        /\ pushed \in [Tasks -> {Unset, <<0, 0>>}] /\ requests \in [Tasks -> Seq({"open"})]
        /\ \A t \in Tasks : statuses[t] = "pr-open" => pushed[t] = <<0, 0>>
    BY <1>1
  <1>3. PICK policy \in BOOLEAN : G!InitWith(policy, statuses, pushed, requests)
    BY <1>1 DEF G!Init
  <1>4. QED
    BY <1>2, <1>3, GithubInitFits

(* Every call and every watch finds what it relies on, whatever the others *)
(* do to its task, its branch and its pull request in the meantime.        *)
THEOREM GithubIsInOrder == G!Spec => []GithubInv
  <1>1. GithubInv /\ [G!Next]_G!vars => GithubInv'
    <2>1. UNCHANGED G!vars => UNCHANGED GithubVars
      BY DEF G!vars, G!engine, G!github, G!trees, G!notes, GithubVars
    <2>2. QED
      BY <2>1, GithubStepKeepsIt, GithubStutter
  <1>2. QED
    BY <1>1, GithubStarts, PTL DEF G!Spec
-----------------------------------------------------------------------------
(* a behaviour that is not about GitHub has merged nothing there *)
GithubOrResting ==
  /\ part \in GithubParts => GithubInv
  /\ part \notin GithubParts => repairs = << >> /\ merges = {}

LEMMA GithubPartsStartFit == ASSUME Init PROVE GithubOrResting
  <1>1. PICK statuses, pushed, requests :
          /\ statuses = IF part = "land" THEN [t \in Tasks |-> "pr-open"] ELSE OneTask("running")
          /\ pushed = [t \in Tasks |-> IF part = "land" THEN <<0, 0>> ELSE Unset]
          /\ requests = [t \in Tasks |-> IF part = "land" THEN <<"open">> ELSE << >>]
    OBVIOUS
  <1>2. /\ statuses \in [Tasks -> {"running", "pr-open", "cancelled"}]
        /\ pushed \in [Tasks -> {Unset, <<0, 0>>}] /\ requests \in [Tasks -> Seq({"open"})]
        /\ \A t \in Tasks : statuses[t] = "pr-open" => pushed[t] = <<0, 0>>
    BY <1>1 DEF OneTask
  <1>3. ASSUME part \in GithubParts PROVE GithubInv
    <2>1. CASE part = "land"
      <3>1. pushed = [t \in Tasks |-> <<0, 0>>] /\ requests = [t \in Tasks |-> <<"open">>]
        BY <1>1, <2>1
      <3>2. G!InitWith(FALSE, statuses, pushed, requests)
        BY <1>1, <2>1, <3>1 DEF Init
      <3>3. QED
        BY <1>2, <3>2, GithubInitFits
    <2>2. CASE part # "land"
      <3>1. pushed = [t \in Tasks |-> Unset] /\ requests = [t \in Tasks |-> << >>]
        BY <1>1, <2>2
      <3>2. G!InitWith(part = "merge", statuses, pushed, requests)
        BY <1>1, <1>3, <2>2, <3>1 DEF Init, GithubParts
      <3>3. QED
        BY <1>2, <3>2, GithubInitFits
    <2>3. QED
      BY <2>1, <2>2
  <1>4. ASSUME part \notin GithubParts PROVE repairs = << >> /\ merges = {}
    BY <1>4 DEF Init, GithubParts, NoGithub
  <1>5. QED
    BY <1>3, <1>4 DEF GithubOrResting

LEMMA GithubPartStep ==
  ASSUME [Next]_all
  PROVE  /\ part' = part
         /\ part \in GithubParts => G!Next \/ UNCHANGED GithubVars
         /\ part \notin GithubParts => UNCHANGED githubOnly
  <1>1. CASE Locally(L!Next)
    BY <1>1 DEF Locally, LocalParts, GithubParts
  <1>2. CASE OnGithub(G!Next)
    BY <1>2 DEF OnGithub
  <1>3. CASE Restacks(R!Next)
    BY <1>3 DEF Restacks, GithubParts
  <1>4. CASE UNCHANGED all
    BY <1>4 DEF all, githubOnly, shared, GithubVars
  <1>5. QED
    BY <1>1, <1>2, <1>3, <1>4 DEF Next

(* The same of a behaviour that is about one kind of delivery.             *)
THEOREM GithubStaysInOrder == Spec => []GithubOrResting
  <1>1. GithubOrResting /\ [Next]_all => GithubOrResting'
    BY GithubPartStep, GithubStepKeepsIt, GithubStutter DEF GithubOrResting, githubOnly
  <1>2. Init => GithubOrResting
    BY GithubPartsStartFit
  <1>3. QED
    BY <1>1, <1>2, PTL DEF Spec

(* No task is called merged that is not, and no merge of an undisturbed    *)
(* engine is lost: it is recorded, being recorded or reported as           *)
(* inconsistent (finalizeMerge of merge-service.ts).                       *)
THEOREM MergesAreTold == Spec => []MergeIsTold
  <1>1. GithubOrResting => MergeIsTold
    BY DEF GithubOrResting, GithubInv, MergeIsTold
  <1>2. QED
    BY <1>1, GithubStaysInOrder, PTL

(* The attempt cap of ci-babysitter-service.ts is enough: an agent is sent *)
(* to repair a head once, unless a dropped watch has reported it late.     *)
THEOREM HeadsAreRepairedOnce == Spec => []OneRepairPerHead
  <1>1. GithubOrResting => OneRepairPerHead
    <2>1. CASE part \in GithubParts
      BY <2>1 DEF GithubOrResting, GithubInv, RepairsFit
    <2>2. CASE part \notin GithubParts
      BY <2>2 DEF GithubOrResting, OneRepairPerHead, G!OneRepairPerHead
    <2>3. QED
      BY <2>1, <2>2
  <1>2. QED
    BY <1>1, GithubStaysInOrder, PTL

(* Neither the gate's pass nor the babysitter's merge of a task rests on a *)
(* check of something else.                                                *)
THEOREM PassesAreChecked == Spec => NothingPassesUnchecked
  <1>1. GithubOrResting => G!AutoMergedWorkWasChecked
    <2>1. CASE part \in GithubParts
      BY <2>1 DEF GithubOrResting, GithubInv
    <2>2. CASE part \notin GithubParts
      BY <2>2 DEF GithubOrResting, G!AutoMergedWorkWasChecked
    <2>3. QED
      BY <2>1, <2>2
  <1>2. InvIfLocal /\ GithubOrResting /\ [Next]_all =>
          [\A t \in Tasks :
             status[t] = "quality-pending" /\ status'[t] = "finalizing" =>
               \E g \in gates \ gates' : g.task = t /\ g.run = attempts[t]]_L!vars
    <2> SUFFICES ASSUME InvIfLocal, GithubOrResting, [Next]_all,
                        NEW t \in Tasks, status[t] = "quality-pending", status'[t] = "finalizing"
                 PROVE  \E g \in gates \ gates' : g.task = t /\ g.run = attempts[t]
      OBVIOUS
    <2>1. CASE part \in LocalParts
      <3>1. IInv /\ [L!Next]_L!vars
        BY <2>1, PartStep DEF InvIfLocal, Inv
      <3>2. QED
        BY <3>1, StepIsGood DEF Good, OwnPass, Passes
    <2>2. CASE part \in GithubParts
      BY <2>2 DEF GithubOrResting, GithubInv, ActorTypes, GithubStatuses
    <2>3. CASE part \notin LocalParts \cup GithubParts
      <3>1. status' = status
        BY <2>3 DEF Next, Locally, OnGithub, Restacks, all, shared
      <3>2. QED
        BY <3>1
    <2>4. QED
      BY <2>1, <2>2, <2>3
  <1>3. QED
    BY <1>1, <1>2, LocalStaysFit, GithubStaysInOrder, PTL
       DEF Spec, NothingPassesUnchecked, L!OnlyOwnGatePasses
=============================================================================
