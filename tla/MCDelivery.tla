----------------------------- MODULE MCDelivery -----------------------------
(***************************************************************************)
(* Instances of the three modules that deliver work, for TLC: Restacking,  *)
(* LocalDelivery and GithubDelivery.  A behaviour is about one of them;    *)
(* the others rest.                                                        *)
(***************************************************************************)
EXTENDS Integers, Sequences, FiniteSets, TLC

CONSTANTS
  Unset,
  a, b, c, op1, op2, k1, k2,       \* branches and operations of the restacks
  Stack, StackDeps, OpIds, Keys, KeyOf, Ancestor, RestackOrder, MaxHeads, MaxCalls,
  t1, t2, o1,                      \* tasks that are delivered, and an operator
  Tasks, Clashes, LocalRuns, MaxConflicts,
  main, dev, Branches, TargetOf,   \* branches of the clone
  DependsOn, LandOrder, Operators, GithubRuns, MaxBase, MaxFaults,
  MaxCrashes

(* the values of StackDeps, RestackOrder and KeyOf *)
ChainOfThree == a :> {} @@ b :> {a} @@ c :> {b}
Upwards == <<b, c>>
OwnKeys == op1 :> k1 @@ op2 :> k2

(* the value of TargetOf *)
OwnTargets == t1 :> main @@ t2 :> dev

(* the values of DependsOn and LandOrder *)
Chain == t1 :> {} @@ t2 :> {t1}
ParentFirst == <<t1, t2>>

VARIABLES
  part,    \* what the behaviour is about; it never changes
  (* Restacking *)
  wf, bases, resumed, content, heads, scan, exec, broken,
  (* LocalDelivery *)
  probed, handles, gateSub, gateEvents, gates, finalSub, finalEvents, finals,
  branch, clone, checkedOut, into, merging, lock, conflicts, dropped, undone,
  (* GithubDelivery *)
  autoMerge, reported, attached, polls, land, local, remote, prs, checks, baseV, merges,
  alarms, strays, late, repairs,
  (* of two of them, or of all *)
  asked, worktrees, faults, calls, status, attempts, crashes

restackOnly == <<wf, bases, resumed, content, heads, scan, exec, broken>>
localOnly   == <<probed, handles, gateSub, gateEvents, gates, finalSub, finalEvents, finals,
                 branch, clone, checkedOut, into, merging, lock, conflicts, dropped, undone>>
githubOnly  == <<autoMerge, reported, attached, polls, land, local, remote, prs, checks,
                 baseV, merges, alarms, strays, late, repairs>>
shared      == <<asked, worktrees, faults, calls, status, attempts, crashes>>
all == <<part, restackOnly, localOnly, githubOnly, shared>>

R == INSTANCE Restacking WITH
       Tasks <- Stack, DependsOn <- StackDeps,
       Sessions <- {}, Refs <- {}, Artifacts <- {}

L == INSTANCE LocalDelivery WITH
       DependsOn <- [t \in Tasks |-> {}],
       Sessions <- {}, Refs <- {}, Artifacts <- {}, OpIds <- {}, Keys <- {},
       MaxRuns <- LocalRuns

G == INSTANCE GithubDelivery WITH
       Sessions <- {}, Refs <- {}, Artifacts <- {}, OpIds <- {}, Keys <- {},
       MaxRuns <- GithubRuns

ASSUME Assumptions ==
  R!RestackingAssumption /\ L!LocalDeliveryAssumption /\ G!GithubDeliveryAssumption
-----------------------------------------------------------------------------
LocalParts  == {"gate", "clone"}
GithubParts == {"repair", "merge", "ask", "land"}

NoRestack ==
  /\ wf = R!NewWorkflow /\ bases = Unset /\ resumed = Unset /\ content = Unset /\ heads = Unset
  /\ scan = {} /\ exec = Unset /\ broken = FALSE

NoLocal ==
  /\ probed = {} /\ handles = {} /\ gateSub = "off" /\ gateEvents = << >> /\ gates = {}
  /\ finalSub = "off" /\ finalEvents = << >> /\ finals = [t \in Tasks |-> Unset]
  /\ branch = [t \in Tasks |-> {}] /\ clone = [x \in Branches |-> {}]
  /\ checkedOut = Unset /\ into = [t \in Tasks |-> Unset] /\ merging = Unset /\ lock = Unset
  /\ conflicts = 0 /\ dropped = FALSE /\ undone = FALSE

NoGithub ==
  /\ autoMerge = FALSE /\ reported = Unset /\ attached = FALSE /\ polls = {} /\ land = Unset
  /\ local = Unset /\ remote = Unset /\ prs = [t \in Tasks |-> << >>] /\ checks = {}
  /\ baseV = 0 /\ merges = {} /\ alarms = {} /\ strays = {} /\ late = {} /\ repairs = << >>

(* one task, the other being out of the way *)
OneTask(state) == [t \in Tasks |-> IF t = t1 THEN state ELSE "cancelled"]

Init ==
  \/ /\ part = "restack"
     /\ R!Init /\ NoLocal /\ NoGithub
     /\ status = OneTask("cancelled") /\ attempts = [t \in Tasks |-> 1]
  \/ /\ part = "gate"
     /\ L!InitWith(OneTask("running"), [t \in Tasks |-> {}], "on")
     /\ checkedOut = main
     /\ NoRestack /\ NoGithub /\ asked = {} /\ worktrees = {} /\ faults = 0 /\ calls = {}
  \/ /\ part = "clone"
     /\ L!InitWith([t \in Tasks |-> "finalizing"], [t \in Tasks |-> {<<t, 1>>}], "reading")
     /\ handles = Tasks
     /\ NoRestack /\ NoGithub /\ asked = {} /\ worktrees = {} /\ faults = 0 /\ calls = {}
  \/ /\ part \in {"repair", "merge", "ask"}
     /\ G!InitWith(part = "merge", OneTask("running"), [t \in Tasks |-> Unset],
                   [t \in Tasks |-> << >>])
     /\ NoRestack /\ NoLocal
  \/ /\ part = "land"
     /\ G!InitWith(FALSE, [t \in Tasks |-> "pr-open"], [t \in Tasks |-> <<0, 0>>],
                   [t \in Tasks |-> <<"open">>])
     /\ NoRestack /\ NoLocal

(* What happens in a part, beside the bounds of the modules: "gate" has no *)
(* checkouts, "clone" no retries, and no checkouts after a restart;        *)
(* "repair" is about checks that fail and agents sent back, "merge" about  *)
(* the babysitter's merges, "ask" about those of operators, "land" about a *)
(* landing.                                                                *)
InBounds ==
  CASE part = "restack" -> crashes' + faults' + calls' <= 1
    [] part = "gate"   -> UNCHANGED checkedOut
    [] part = "clone"  -> UNCHANGED attempts /\ (crashes' > 0 => UNCHANGED checkedOut)
    [] part = "repair" -> /\ baseV' = 0 /\ asked' = {} /\ local'[t1][1] <= 1
                          /\ faults' + crashes' <= (IF attempts'[t1] < 4 THEN 1 ELSE 0)
    [] part = "merge"  -> /\ attempts'[t1] <= 2 /\ asked' = {} /\ Cardinality(checks') <= 1
                          /\ faults' = 0 /\ crashes' = 0
    [] part = "ask"    -> /\ attempts'[t1] <= 2 /\ faults' = 0 /\ crashes' = 0
                          /\ checks' = {} /\ baseV' = 0 /\ "land" \notin asked'
    [] part = "land"   -> attempts' = attempts /\ crashes' = 0 /\ checks' = {}
    [] OTHER -> TRUE

Restacks(action) ==
  part = "restack" /\ action /\ InBounds /\ UNCHANGED <<part, localOnly, githubOnly, status, attempts>>

Locally(action) ==
  /\ part \in LocalParts
  /\ action
  /\ InBounds /\ UNCHANGED <<part, restackOnly, githubOnly, asked, worktrees, faults, calls>>

OnGithub(action) ==
  part \in GithubParts /\ action /\ InBounds /\ UNCHANGED <<part, restackOnly, localOnly>>

Next == Restacks(R!Next) \/ Locally(L!Next) \/ OnGithub(G!Next)

(* the fairness of the three modules *)
Fairness ==
  /\ WF_all(Restacks(R!ScanStep))
  /\ WF_all(Locally(L!Microtasks))
  /\ WF_all(Locally(L!MicrotasksAreDone /\ \E g \in gates : L!GateStep(g)))
  /\ \A t \in Tasks :
       /\ WF_all(Locally(L!MicrotasksAreDone /\ L!FinalStep(t)))
       /\ WF_all(Locally(L!MicrotasksAreDone /\ L!ProbeGate(t)))
       /\ WF_all(OnGithub(\E d \in calls : d.task = t /\ d.by = "dispatcher" /\ G!CallStep(d)))

Spec == Init /\ [][Next]_all /\ Fairness
-----------------------------------------------------------------------------
(* Restacking: a restack that completes undisturbed has reached every      *)
(* branch it can; every restack that was asked for ends.                   *)
UndisturbedRestackReachesAll == R!UndisturbedRestackReachesAll
EveryRestackEnds == R!EveryRestackEnds

(* LocalDelivery: the status of a task is true of the clone, and delivery  *)
(* goes on.                                                                *)
StatusTellsBase == part \in LocalParts => L!StatusTellsBase
DeliveryMovesOn == L!DeliveryMovesOn

(* LocalDelivery and GithubDelivery: neither the gate's pass nor the       *)
(* babysitter's merge of a task rests on a check of something else.        *)
NothingPassesUnchecked ==
  /\ L!OnlyOwnGatePasses
  /\ []G!AutoMergedWorkWasChecked

(* GithubDelivery: a merge is recorded or reported; no head is repaired    *)
(* twice; a finalizing task gets its pull request.                         *)
MergeIsTold              == part \in GithubParts => G!MergeIsTold
OneRepairPerHead         == G!OneRepairPerHead
FinalizingMovesOn        == G!FinalizingMovesOn
=============================================================================
