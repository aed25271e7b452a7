----------------------------- MODULE DragToDismiss -----------------------------
(***************************************************************************)
(* useDragToDismiss(): a panel that is dragged or swiped away, by fingers  *)
(* that come, move, leave and are taken over by the browser in any order.  *)
(*                                                                         *)
(* Data abstraction: the finger is "back" of where it touched, "short" of  *)
(* the threshold or "past" it, and the drag is fast or it is not.  A list  *)
(* under the finger that scrolls, or a move to the side, gives it up.      *)
(***************************************************************************)
EXTENDS Naturals

CONSTANTS Fingers,
          Unset,
          MaxPresses    \* bound

VARIABLES
  reduced,          \* isReducedMotion()
  enabled,          \* what the owner's gate answers
  touching,         \* the fingers on the screen
  pointerId,        \* the finger tracked, or Unset
  engaged, currentOffset, fast,
  frame,            \* an offset is to be drawn in the next frame
  snap,             \* where the panel snaps back from, or Unset
  state,            \* what the hook returns: offset and dragging
  dismissals, mounted, presses

gesture == <<pointerId, engaged, currentOffset, fast, frame>>
vars == <<reduced, enabled, touching, gesture, snap, state, dismissals, mounted, presses>>

Init ==
  /\ reduced \in BOOLEAN /\ enabled = TRUE /\ touching = {} /\ pointerId = Unset /\ engaged = FALSE
  /\ currentOffset = "none" /\ fast = FALSE /\ frame = FALSE /\ snap = Unset
  /\ state = [offset |-> "none", dragging |-> FALSE]
  /\ dismissals = 0 /\ mounted = TRUE /\ presses = 0

ClearGesture ==
  /\ pointerId' = Unset /\ engaged' = FALSE /\ currentOffset' = "none"
  /\ fast' = FALSE /\ frame' = FALSE

OnDismiss == dismissals' = dismissals + 1
-----------------------------------------------------------------------------
FlushFrame ==
  /\ mounted /\ frame /\ frame' = FALSE
  /\ state' = [offset |-> currentOffset, dragging |-> TRUE]
  /\ UNCHANGED <<reduced, enabled, touching, pointerId, engaged, currentOffset, fast, snap,
                 dismissals, mounted, presses>>

(* a step of snapBack() on its way, and its last *)
SnapOnWay ==
  /\ mounted /\ snap # Unset
  /\ state' = [offset |-> "way", dragging |-> FALSE] /\ state' # state
  /\ UNCHANGED <<reduced, enabled, touching, gesture, snap, dismissals, mounted, presses>>

SnapEnds ==
  /\ mounted /\ snap # Unset /\ snap' = Unset
  /\ state' = [offset |-> "none", dragging |-> FALSE]
  /\ UNCHANGED <<reduced, enabled, touching, gesture, dismissals, mounted, presses>>
-----------------------------------------------------------------------------
(* a finger that is tracked keeps the others off *)
PointerDown(f) ==
  /\ f \notin touching /\ presses < MaxPresses
  /\ touching' = touching \cup {f} /\ presses' = presses + 1
  /\ IF mounted /\ pointerId = Unset /\ enabled
     THEN /\ snap' = Unset /\ pointerId' = f
          /\ engaged' = FALSE /\ currentOffset' = "none" /\ fast' = FALSE
          /\ UNCHANGED frame
     ELSE UNCHANGED <<snap, gesture>>
  /\ UNCHANGED <<reduced, enabled, state, dismissals, mounted>>

Tracked(f) == f = pointerId /\ f \in touching /\ mounted

Drag(d) ==
  /\ currentOffset' = d /\ engaged' = TRUE /\ frame' = TRUE /\ fast' \in BOOLEAN
  /\ UNCHANGED pointerId

(* in reduced motion nobody listens to moves *)
PointerMove(f) ==
  /\ Tracked(f) /\ ~reduced
  /\ \/ \E d \in {"back", "short", "past"} : Drag(d)
     \/ ~engaged /\ ClearGesture
  /\ UNCHANGED <<reduced, enabled, touching, snap, state, dismissals, mounted, presses>>

(* the finger may have come any way in the event that lifts it *)
PointerUp(f) ==
  /\ f \in touching /\ touching' = touching \ {f}
  /\ IF ~Tracked(f) THEN UNCHANGED <<gesture, snap, state, dismissals>>
     ELSE /\ ClearGesture
          /\ IF reduced \/ ~engaged
             THEN (OnDismiss \/ UNCHANGED dismissals) /\ UNCHANGED <<snap, state>>
             ELSE IF currentOffset = "past" \/ fast
             THEN /\ state' = [offset |-> currentOffset, dragging |-> FALSE]
                  /\ OnDismiss /\ UNCHANGED snap
             ELSE snap' = currentOffset /\ UNCHANGED <<state, dismissals>>
  /\ UNCHANGED <<reduced, enabled, mounted, presses>>

(* not listened to in reduced motion: the finger stays tracked *)
PointerCancel(f) ==
  /\ f \in touching /\ touching' = touching \ {f}
  /\ IF ~Tracked(f) \/ reduced THEN UNCHANGED <<gesture, snap>>
     ELSE ClearGesture /\ snap' = (IF engaged THEN currentOffset ELSE snap)
  /\ UNCHANGED <<reduced, enabled, state, dismissals, mounted, presses>>
-----------------------------------------------------------------------------
(* the owner's gate: another panel is open, the list is not at its top *)
Gate ==
  /\ mounted /\ enabled' = ~enabled
  /\ UNCHANGED <<reduced, touching, gesture, snap, state, dismissals, mounted, presses>>

Unmount ==
  /\ mounted /\ mounted' = FALSE /\ frame' = FALSE /\ snap' = Unset
  /\ UNCHANGED <<reduced, enabled, touching, pointerId, engaged, currentOffset, fast, state,
                 dismissals, presses>>

Next ==
  \/ FlushFrame \/ SnapOnWay \/ SnapEnds \/ Gate \/ Unmount
  \/ \E f \in Fingers : PointerDown(f) \/ PointerMove(f) \/ PointerUp(f) \/ PointerCancel(f)

Spec == Init /\ [][Next]_vars
-----------------------------------------------------------------------------
(* A finger that has left the screen is not waited for: else no later one  *)
(* could drag the panel.  Where motion is reduced the hook does not hear   *)
(* of a press the browser took over, and does wait.                        *)
FingersAreLetGo == mounted /\ ~reduced => pointerId \in touching \cup {Unset}
===============================================================================
