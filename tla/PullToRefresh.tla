---------------------------- MODULE PullToRefresh ----------------------------
(***************************************************************************)
(* usePullToRefresh(): fingers, animation frames and the promise of a      *)
(* refresh, in whatever order the browser brings them.                     *)
(*                                                                         *)
(* Data abstraction: how far the list is pulled is "none", "short" of the  *)
(* threshold or "past" it; "rest" is where the indicator waits for the     *)
(* refresh.  An animation is a frame on its "way", its last frame, and     *)
(* what is called after that.                                              *)
(***************************************************************************)
EXTENDS Naturals

CONSTANTS Fingers,
          Unset,
          MaxPulls      \* bound

VARIABLES
  reduced,          \* isReducedMotion()
  touching,         \* the fingers on the screen
  pointerId, engaged, currentOffset,
  frame,            \* an offset is to be drawn in the next frame
  snap,             \* the animation under way, or Unset
  refreshing,       \* the hook's flag
  work,             \* onRefresh() calls whose promise is open
  state,            \* what the hook returns: the offset and refreshing
  mounted, pulls

gesture == <<pointerId, engaged, currentOffset, frame>>
vars == <<reduced, touching, gesture, snap, refreshing, work, state, mounted, pulls>>

Init ==
  /\ reduced \in BOOLEAN
  /\ touching = {} /\ pointerId = Unset /\ engaged = FALSE /\ currentOffset = "none"
  /\ frame = FALSE /\ snap = Unset /\ refreshing = FALSE /\ work = 0
  /\ state = [offset |-> "none", refreshing |-> FALSE] /\ mounted = TRUE /\ pulls = 0

ClearGesture ==
  pointerId' = Unset /\ engaged' = FALSE /\ currentOffset' = "none" /\ frame' = FALSE

Show(offset) == state' = [offset |-> offset, refreshing |-> refreshing']
-----------------------------------------------------------------------------
(* onRefresh() gives a promise, or is done at once *)
RunRefreshCallback ==
  \/ work' = work + 1 /\ snap' = Unset /\ refreshing' = TRUE
  \/ /\ work' = work /\ refreshing' = FALSE
     /\ snap' = IF reduced THEN Unset ELSE [to |-> "none", after |-> "nothing"]

(* ease(): nothing to move is done at once, else the next frames do it *)
TriggerRefresh ==
  IF reduced
  THEN RunRefreshCallback /\ Show("none")
  ELSE /\ refreshing' = TRUE /\ snap' = [to |-> "rest", after |-> "refresh"]
       /\ UNCHANGED <<work, state>>

EaseBack(from) ==
  /\ UNCHANGED <<refreshing, work>>
  /\ IF from = "none" THEN snap' = Unset /\ Show("none")
     ELSE snap' = [to |-> "none", after |-> "nothing"] /\ UNCHANGED state

(* the frames of an animation *)
AnimateOnWay ==
  /\ mounted /\ snap # Unset
  /\ state' = [offset |-> "way", refreshing |-> refreshing] /\ state' # state
  /\ UNCHANGED <<reduced, touching, gesture, snap, refreshing, work, mounted, pulls>>

Animate ==
  /\ mounted /\ snap # Unset
  /\ IF snap.after = "refresh" THEN RunRefreshCallback
     ELSE snap' = Unset /\ UNCHANGED <<work, refreshing>>
  /\ state' = [offset |-> snap.to, refreshing |-> refreshing]
  /\ UNCHANGED <<reduced, touching, gesture, mounted, pulls>>

FlushFrame ==
  /\ mounted /\ frame /\ frame' = FALSE
  /\ state' = [offset |-> currentOffset, refreshing |-> refreshing]
  /\ UNCHANGED <<reduced, touching, pointerId, engaged, currentOffset, snap, refreshing,
                 work, mounted, pulls>>

(* finish() *)
RefreshSettles ==
  /\ work > 0 /\ work' = work - 1 /\ refreshing' = FALSE
  /\ IF ~mounted THEN UNCHANGED <<snap, state>>
     ELSE IF reduced THEN Show("none") /\ UNCHANGED snap
     ELSE snap' = [to |-> "none", after |-> "nothing"] /\ UNCHANGED state
  /\ UNCHANGED <<reduced, touching, gesture, mounted, pulls>>
-----------------------------------------------------------------------------
(* a slip: a refresh does not keep fingers off *)
PointerDownAnyway(f) ==
  /\ f \notin touching /\ pulls < MaxPulls
  /\ touching' = touching \cup {f} /\ pulls' = pulls + 1
  /\ IF mounted /\ pointerId = Unset
     THEN /\ snap' = Unset /\ pointerId' = f
          /\ engaged' = FALSE /\ currentOffset' = "none" /\ UNCHANGED frame
     ELSE UNCHANGED <<snap, gesture>>
  /\ UNCHANGED <<reduced, refreshing, work, state, mounted>>

PointerDown(f) ==
  /\ f \notin touching /\ pulls < MaxPulls
  /\ touching' = touching \cup {f} /\ pulls' = pulls + 1
  /\ IF mounted /\ pointerId = Unset /\ ~refreshing
     THEN /\ snap' = Unset /\ pointerId' = f
          /\ engaged' = FALSE /\ currentOffset' = "none" /\ UNCHANGED frame
     ELSE UNCHANGED <<snap, gesture>>
  /\ UNCHANGED <<reduced, refreshing, work, state, mounted>>

(* not listened to in reduced motion; a move to the side, or over what can *)
(* be scrolled, gives the gesture up                                       *)
PointerMove(f) ==
  /\ f = pointerId /\ f \in touching /\ mounted /\ ~reduced
  /\ \/ /\ currentOffset' \in {"none", "short", "past"} \ {currentOffset}
        /\ engaged' = TRUE /\ frame' = TRUE /\ UNCHANGED pointerId
     \/ ~engaged /\ ClearGesture
  /\ UNCHANGED <<reduced, touching, snap, refreshing, work, state, mounted, pulls>>

(* without a move before it the lifting tells how far the finger has come *)
PointerUp(f) ==
  /\ f \in touching /\ touching' = touching \ {f}
  /\ IF f # pointerId \/ ~mounted
     THEN UNCHANGED <<gesture, snap, refreshing, work, state>>
     ELSE /\ ClearGesture
          /\ IF ~engaged \/ reduced
             THEN TriggerRefresh \/ UNCHANGED <<snap, refreshing, work, state>>
             ELSE IF currentOffset = "past" THEN TriggerRefresh ELSE EaseBack(currentOffset)
  /\ UNCHANGED <<reduced, mounted, pulls>>

(* not listened to in reduced motion either: the pointer stays tracked *)
PointerCancel(f) ==
  /\ f \in touching /\ touching' = touching \ {f}
  /\ IF f # pointerId \/ ~mounted \/ reduced
     THEN UNCHANGED <<gesture, snap, refreshing, work, state>>
     ELSE /\ ClearGesture
          /\ IF engaged THEN EaseBack(currentOffset)
             ELSE UNCHANGED <<snap, refreshing, work, state>>
  /\ UNCHANGED <<reduced, mounted, pulls>>

Unmount ==
  /\ mounted /\ mounted' = FALSE
  /\ snap' = Unset /\ frame' = FALSE
  /\ UNCHANGED <<reduced, touching, pointerId, engaged, currentOffset, refreshing, work,
                 state, pulls>>

Next ==
  \/ AnimateOnWay \/ Animate \/ FlushFrame \/ RefreshSettles \/ Unmount
  \/ \E f \in Fingers : PointerDown(f) \/ PointerMove(f) \/ PointerUp(f) \/ PointerCancel(f)

(* frames are drawn, and a refresh settles *)
Fairness == WF_vars(Animate) /\ WF_vars(FlushFrame) /\ WF_vars(RefreshSettles)

Spec == Init /\ [][Next]_vars /\ Fairness
-----------------------------------------------------------------------------
(* A refresh that was triggered is run and ends, whatever the fingers do   *)
(* meanwhile; while it is not the list takes no other pull.                *)
EveryRefreshEnds == (refreshing /\ mounted) ~> (~refreshing \/ ~mounted)
===============================================================================
