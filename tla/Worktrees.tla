------------------------------ MODULE Worktrees ------------------------------
(***************************************************************************)
(* GitWorktreeWorkspaceBackend: the worktrees of one repository, made and  *)
(* removed by git commands under a lock that is a chain of promises, each  *)
(* operation under a timeout that gives up the lock and not the operation. *)
(*                                                                         *)
(* Data abstraction: a worktree's directory is absent, without its .git    *)
(* marker ("stale"), not yet checked out ("partial") or whole; what git    *)
(* records of it is whether it is registered.  The cache of handles, which *)
(* saves get() a git command, and the seeding of node_modules but for its  *)
(* failure are left out.                                                   *)
(***************************************************************************)
EXTENDS Naturals, FiniteSets

CONSTANTS Tasks, Calls,   \* the tasks of the repository; the calls made
          Unset,
          MaxFaults       \* commands that fail for a reason of their own (a bound)

ASSUME WorktreesAssumption == Unset \notin Calls /\ MaxFaults \in Nat

VARIABLES dir, registered,   \* of each task; the tasks git has on record
          tail,              \* whose promise the lock map has
          arrivals,          \* how many calls have come to the lock
          call,              \* call[c]: the call's progress
          killed,            \* a command was killed half-way
          faults

vars == <<dir, registered, tail, arrivals, call, killed, faults>>

Kinds == {"create", "reset", "cleanup"}

(* has probeWorktree find a worktree *)
Marked == {"partial", "whole"}

(* a removal by an engine that is gone may have stopped half-way *)
Init ==
  /\ dir \in [Tasks -> {"absent", "stale", "whole"}]
  /\ registered = {t \in Tasks : dir[t] = "whole"}
  /\ tail = Unset /\ arrivals = 0
  /\ call = [c \in Calls |-> [stage |-> "new", kind |-> "create", task |-> Unset, waits |-> Unset,
                              failed |-> FALSE, answer |-> "none", ticket |-> 0]]
  /\ killed = FALSE /\ faults = 0

Issued(c) == call[c].stage # "new"

(* the gate of c is open *)
Released(c) == call[c].answer # "none"

Inside(c) == call[c].stage \notin {"new", "wait", "end"}

(* its operation goes on after it has timed out *)
Late(c) == Inside(c) /\ Released(c)
-----------------------------------------------------------------------------
(* withLock: c waits for the promise it finds in the map, and is found     *)
Issue(c) ==
  /\ ~Issued(c)
  /\ \E t \in Tasks, kind \in Kinds :
       call' = [call EXCEPT ![c] = [stage |-> "wait", kind |-> kind, task |-> t, waits |-> tail,
                                    failed |-> FALSE, answer |-> "none", ticket |-> arrivals]]
  /\ tail' = c
  /\ arrivals' = arrivals + 1
  /\ UNCHANGED <<dir, registered, killed, faults>>

(* a slip: what is found in the map is not awaited *)
EnterAtOnce(c) ==
  /\ call[c].stage = "wait"
  /\ call' = [call EXCEPT ![c].stage = IF call[c].kind = "cleanup" THEN "remove" ELSE "probe"]
  /\ UNCHANGED <<dir, registered, tail, arrivals, killed, faults>>

Enter(c) ==
  /\ call[c].stage = "wait"
  /\ call[c].waits # Unset => Released(call[c].waits)
  /\ call' = [call EXCEPT ![c].stage = IF call[c].kind = "cleanup" THEN "remove" ELSE "probe"]
  /\ UNCHANGED <<dir, registered, tail, arrivals, killed, faults>>

(* a slip: the map is cleared though another call may be found in it *)
ReleaseClears(c) == tail' = IF Released(c) THEN tail ELSE Unset

(* the finally clause of withLock *)
Release(c) == tail' = IF ~Released(c) /\ tail = c THEN Unset ELSE tail

Moves(c, stage) == call' = [call EXCEPT ![c].stage = stage] /\ UNCHANGED tail

Ends(c, answer) ==
  /\ call' = [call EXCEPT ![c].stage = "end", ![c].answer = IF @ = "none" THEN answer ELSE @]
  /\ Release(c)

(* withOperationTimeout: the caller is told, the operation goes on *)
Timeout(c) ==
  /\ Inside(c) /\ ~Released(c)
  /\ call' = [call EXCEPT ![c].answer = "timeout"]
  /\ Release(c)
  /\ UNCHANGED <<dir, registered, arrivals, killed, faults>>
-----------------------------------------------------------------------------
(* git and the file system.  git worktree add locks what it has not yet    *)
(* checked out; remove refuses what is locked, and does not find what is   *)
(* not registered or has lost its marker; prune forgets what has lost it.  *)
At(c, stage) == Inside(c) /\ call[c].stage = stage

Adding(t) == \E c \in Calls : At(c, "adding") /\ call[c].task = t

Fails == faults < MaxFaults /\ faults' = faults + 1

Removable(t) == t \in registered /\ dir[t] # "stale" /\ ~Adding(t)

Prunable == {t \in registered : dir[t] \notin Marked /\ ~Adding(t)}

Gone(t) == dir' = [dir EXCEPT ![t] = "absent"]

Untouched == UNCHANGED <<dir, registered>>

Quiet == UNCHANGED <<arrivals, killed>>

(* create: what is found decides *)
Probe(c) ==
  /\ At(c, "probe")
  /\ LET t == call[c].task
     IN  IF dir[t] = "absent" THEN Moves(c, "add")
         ELSE IF dir[t] = "stale" THEN Moves(c, "clear")
         ELSE IF call[c].kind = "reset" THEN Moves(c, "remove")
         ELSE Ends(c, "ok")
  /\ Untouched /\ Quiet /\ UNCHANGED faults

(* A reset ends with the failure of a command.  A cleanup goes on: not     *)
(* finding the worktree is no failure, and after another one it passes     *)
(* over the prune.                                                         *)
Cleans(c) == call[c].kind = "cleanup"

Remove(c) ==
  /\ At(c, "remove")
  /\ LET t == call[c].task
     IN  \/ /\ Removable(t)
            /\ Gone(t) /\ registered' = registered \ {t}
            /\ Moves(c, "prune") /\ UNCHANGED faults
         \/ /\ ~Removable(t) /\ ~Adding(t) /\ Cleans(c)
            /\ Moves(c, "prune")
            /\ Untouched /\ UNCHANGED faults
         \/ /\ IF Removable(t) \/ (~Adding(t) /\ Cleans(c)) THEN Fails ELSE UNCHANGED faults
            /\ Untouched
            /\ IF Cleans(c)
               THEN call' = [call EXCEPT ![c].failed = TRUE, ![c].stage = "clear"] /\ UNCHANGED tail
               ELSE Ends(c, "error")
  /\ Quiet

Prune(c) ==
  /\ At(c, "prune")
  /\ \/ /\ registered' = registered \ Prunable
        /\ Moves(c, "clear") /\ UNCHANGED faults
     \/ /\ Fails /\ UNCHANGED registered
        /\ IF Cleans(c) THEN Moves(c, "clear") ELSE Ends(c, "error")
  /\ UNCHANGED dir /\ Quiet

(* removeRecursive; that it fails does not matter to a cleanup *)
Clear(c) ==
  /\ At(c, "clear")
  /\ \/ Gone(call[c].task) /\ UNCHANGED faults
        /\ IF Cleans(c) THEN Ends(c, IF call[c].failed THEN "error" ELSE "ok") ELSE Moves(c, "add")
     \/ Fails /\ UNCHANGED dir
        /\ Ends(c, IF Cleans(c) /\ ~call[c].failed THEN "ok" ELSE "error")
  /\ UNCHANGED registered /\ Quiet

(* worktree add refuses a directory that is there, and one that is not     *)
(* there though it is registered                                           *)
Add(c) ==
  /\ At(c, "add")
  /\ LET t == call[c].task
     IN  IF dir[t] = "absent" /\ t \notin registered
         THEN \/ /\ dir' = [dir EXCEPT ![t] = "partial"]
                 /\ registered' = registered \cup {t}
                 /\ Moves(c, "adding") /\ UNCHANGED faults
              \/ Fails /\ Ends(c, "error") /\ Untouched
         ELSE Ends(c, "error") /\ Untouched /\ UNCHANGED faults
  /\ Quiet

(* The checkout ends, or is killed and leaves what it has made; what was   *)
(* removed under it makes it fail.                                         *)
CheckOut(c) ==
  /\ At(c, "adding")
  /\ LET t == call[c].task
     IN  \/ /\ dir[t] # "partial"
            /\ Ends(c, "error") /\ Untouched /\ UNCHANGED <<killed, faults>>
         \/ /\ dir[t] = "partial"
            /\ dir' = [dir EXCEPT ![t] = "whole"] /\ UNCHANGED registered
            /\ Moves(c, "seed") /\ UNCHANGED <<killed, faults>>
         \/ Fails /\ Ends(c, "error") /\ Untouched /\ killed' = TRUE
  /\ UNCHANGED arrivals

(* seedNodeModules links into the worktree, if it is still there *)
Seed(c) ==
  /\ At(c, "seed")
  /\ IF dir[call[c].task] = "absent" THEN Ends(c, "error") /\ UNCHANGED faults
     ELSE \/ Ends(c, "ok") /\ UNCHANGED faults
          \/ Ends(c, "error") /\ Fails
  /\ Untouched /\ Quiet

Step(c) == Enter(c) \/ Probe(c) \/ Remove(c) \/ Prune(c) \/ Clear(c) \/ Add(c)
             \/ CheckOut(c) \/ Seed(c)

Next == \E c \in Calls : Issue(c) \/ Timeout(c) \/ Step(c)

Spec == Init /\ [][Next]_vars
-----------------------------------------------------------------------------
(* The lock keeps the operations on a repository apart, but for those that *)
(* have overrun their timeout.                                             *)
LockIsExclusive ==
  \A c, d \in Calls : Inside(c) /\ Inside(d) /\ c # d => Late(c) \/ Late(d)

(* A worktree that a call was given is there and checked out, unless an    *)
(* operation that has overrun its timeout is at work, or has been, or git  *)
(* was killed.                                                             *)
GivenWorktreeIsWhole ==
  [][\A c \in Calls :
       /\ ~Released(c) /\ call'[c].answer = "ok" /\ ~Cleans(c)
       /\ ~killed /\ \A d \in Calls : call[d].answer # "timeout"
       => dir'[call[c].task] = "whole" /\ call[c].task \in registered']_vars

=============================================================================
