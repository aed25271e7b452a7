---------------------------- MODULE SubscriberHub ----------------------------
(***************************************************************************)
(* The fan-out of a workflow's events (persistence/subscriber-hub.ts) to   *)
(* readers that lose their connection and resume from the last cursor they *)
(* have, as the browser does through GET /workflows/:id/events?since=.     *)
(*                                                                         *)
(* A subscriber registers first, then replays the saved events after its   *)
(* cursor, then drains its buffer, where the hub has put every event since *)
(* it registered; cursors it has already yielded are skipped.  The buffer  *)
(* has a cap: transient events are dropped to keep to it, and a subscriber *)
(* that still exceeds it is aborted and has to resume.                     *)
(*                                                                         *)
(* An event is its cursor, and 0 is a transient event.  All saves are of   *)
(* this process: the hub does not see those of another one.                *)
(***************************************************************************)
EXTENDS Positions

CONSTANTS Subscribers,
          BufferCap,    \* BUFFER_CAP
          WireCap,      \* frames on the way to a reader (a bound)
          MaxCursor,    \* events saved in all (a bound)
          MaxBatch,     \* events of one save (a bound)
          MaxLosses     \* connections lost in all (a bound)

(* how the bounds are chosen; stated again where they are given *)
BoundsAssumption ==
  /\ {BufferCap, WireCap, MaxBatch} \subseteq Nat \ {0}
  /\ {MaxCursor, MaxLosses} \subseteq Nat

VARIABLES latest,       \* the greatest cursor in the events table
          stage,        \* stage[s]: where its generator is suspended
          buffer,       \* buffer[s]: the events the hub has pushed
          replay,       \* replay[s]: the rest of the replayed events
          lastYielded,  \* lastYielded[s]
          aborted,      \* aborted[s]
          wire,         \* wire[s]: durable frames on the way to the reader
          received,     \* received[s]: the cursor the reader resumes from
          losses        \* connections lost so far

vars == <<latest, stage, buffer, replay, lastYielded, aborted, wire, received,
          losses>>
reader == <<latest, received, losses>>

(* "off":      no iterator, "new": registered and not yet asked for an event,  *)
(* "replay":   in the loop over the replayed events,                         *)
(* "live":     in the loop over the buffer, "waiting": awaits sub.resolve,    *)
(* "ending":   was aborted while it waited                                    *)
Registered(s) == stage[s] # "off"

Transient == 0

Init ==
  /\ latest = 0
  /\ stage = [s \in Subscribers |-> "off"]
  /\ buffer = [s \in Subscribers |-> << >>]
  /\ replay = [s \in Subscribers |-> << >>]
  /\ lastYielded = [s \in Subscribers |-> 0]
  /\ aborted = [s \in Subscribers |-> FALSE]
  /\ wire = [s \in Subscribers |-> << >>]
  /\ received = [s \in Subscribers |-> 0]
  /\ losses = 0
-----------------------------------------------------------------------------
(* subscribe()[Symbol.asyncIterator](): registers before anything is read *)
Subscribe(s) ==
  /\ stage[s] = "off"
  /\ wire[s] = << >>
  /\ stage' = [stage EXCEPT ![s] = "new"]
  /\ lastYielded' = [lastYielded EXCEPT ![s] = received[s]]
  /\ aborted' = [aborted EXCEPT ![s] = FALSE]
  /\ UNCHANGED <<reader, buffer, replay, wire>>

(* the cursors after from, up to to *)
Between(from, to) == [i \in 1 .. (to - from) |-> from + i]

(* the first next() starts the generator, which reads eventsSince *)
StartReplay(s) ==
  /\ stage[s] = "new"
  /\ stage' = [stage EXCEPT ![s] = "replay"]
  /\ replay' = [replay EXCEPT ![s] = Between(lastYielded[s], latest)]
  /\ UNCHANGED <<reader, buffer, lastYielded, aborted, wire>>

Unregister(s) ==
  /\ stage' = [stage EXCEPT ![s] = "off"]
  /\ buffer' = [buffer EXCEPT ![s] = << >>]
  /\ replay' = [replay EXCEPT ![s] = << >>]

Yield(s, e) ==
  /\ Len(wire[s]) < WireCap
  /\ wire' = [wire EXCEPT ![s] = Append(@, e)]
  /\ lastYielded' = [lastYielded EXCEPT ![s] = e]

YieldReplayed(s) ==
  /\ stage[s] = "replay"
  /\ replay[s] # << >>
  /\ ~aborted[s]
  /\ Yield(s, Head(replay[s]))
  /\ replay' = [replay EXCEPT ![s] = Tail(@)]
  /\ UNCHANGED <<reader, stage, buffer, aborted>>

EndReplay(s) ==
  /\ stage[s] = "replay"
  /\ replay[s] = << >>
  /\ stage' = [stage EXCEPT ![s] = IF aborted[s] THEN "ending" ELSE "live"]
  /\ UNCHANGED <<reader, buffer, replay, lastYielded, aborted, wire>>

(* a transient event is passed on, a durable one that was replayed skipped *)
PassBy(s) ==
  /\ stage[s] = "live"
  /\ buffer[s] # << >>
  /\ Head(buffer[s]) = Transient \/ Head(buffer[s]) <= lastYielded[s]
  /\ buffer' = [buffer EXCEPT ![s] = Tail(@)]
  /\ UNCHANGED <<reader, stage, replay, lastYielded, aborted, wire>>

YieldBuffered(s) ==
  /\ stage[s] = "live"
  /\ buffer[s] # << >>
  /\ Head(buffer[s]) > lastYielded[s]
  /\ ~aborted[s]
  /\ Yield(s, Head(buffer[s]))
  /\ buffer' = [buffer EXCEPT ![s] = Tail(@)]
  /\ UNCHANGED <<reader, stage, replay, aborted>>

Wait(s) ==
  /\ stage[s] = "live"
  /\ buffer[s] = << >>
  /\ ~aborted[s]
  /\ stage' = [stage EXCEPT ![s] = "waiting"]
  /\ UNCHANGED <<reader, buffer, replay, lastYielded, aborted, wire>>

(* the generator sees that it was aborted and returns *)
End(s) ==
  /\ aborted[s]
  /\ \/ stage[s] = "replay" /\ replay[s] # << >>
     \/ stage[s] = "live" /\ buffer[s] = << >>
     \/ stage[s] = "live" /\ buffer[s] # << >> /\ Head(buffer[s]) > lastYielded[s]
     \/ stage[s] = "ending"
  /\ Unregister(s)
  /\ UNCHANGED <<reader, lastYielded, aborted, wire>>
-----------------------------------------------------------------------------
(* the positions of the first n transient events of b *)
FirstTransients(b, n) ==
  {i \in DOMAIN b : /\ b[i] = Transient
                    /\ Cardinality({j \in 1 .. i : b[j] = Transient}) <= n}

(* a slip: the oldest events are dropped, whatever they are *)
TrimmedOldest(b) ==
  IF Len(b) <= BufferCap THEN b
  ELSE SubSeq(b, Len(b) - BufferCap + 1, Len(b))

(* the buffer after the loop of enforceBufferCap *)
Trimmed(b) ==
  IF Len(b) <= BufferCap THEN b
  ELSE Chosen(b, DOMAIN b \ FirstTransients(b, Len(b) - BufferCap))

(* notify and notifyTransient: push, enforce the cap, wake who waits *)
Notify(events) ==
  LET pushed == [s \in Subscribers |->
                   IF Registered(s) THEN Trimmed(buffer[s] \o events) ELSE buffer[s]]
      overflows(s) == Len(pushed[s]) > BufferCap
  IN  /\ buffer' = pushed
      /\ aborted' = [s \in Subscribers |-> aborted[s] \/ overflows(s)]
      /\ stage' = [s \in Subscribers |->
                     IF stage[s] # "waiting" THEN stage[s]
                     ELSE IF overflows(s) THEN "ending" ELSE "live"]

(* save: the events get the next cursors, and the hub is told *)
Save(k) ==
  /\ latest + k <= MaxCursor
  /\ latest' = latest + k
  /\ Notify(Between(latest, latest + k))
  /\ UNCHANGED <<replay, lastYielded, wire, received, losses>>

PublishTransient ==
  /\ Notify(<<Transient>>)
  /\ UNCHANGED <<reader, replay, lastYielded, wire>>
-----------------------------------------------------------------------------
(* the reader remembers the greatest cursor it has seen *)
Receive(s) ==
  /\ wire[s] # << >>
  /\ wire' = [wire EXCEPT ![s] = Tail(@)]
  /\ received' = [received EXCEPT ![s] = IF Head(wire[s]) > @ THEN Head(wire[s]) ELSE @]
  /\ UNCHANGED <<latest, losses, stage, buffer, replay, lastYielded, aborted>>

(* the connection breaks, or the engine restarts: the frames on the way    *)
(* are lost and return() unregisters the subscriber                        *)
Disconnect(s) ==
  /\ Registered(s) \/ wire[s] # << >>
  /\ losses < MaxLosses
  /\ losses' = losses + 1
  /\ wire' = [wire EXCEPT ![s] = << >>]
  /\ aborted' = [aborted EXCEPT ![s] = TRUE]
  /\ Unregister(s)
  /\ UNCHANGED <<latest, received, lastYielded>>

Generator(s) ==
  \/ StartReplay(s) \/ YieldReplayed(s) \/ EndReplay(s)
  \/ PassBy(s) \/ YieldBuffered(s) \/ Wait(s) \/ End(s)

Next ==
  \/ \E k \in 1 .. MaxBatch : Save(k)
  \/ PublishTransient
  \/ \E s \in Subscribers : \/ Subscribe(s)
                            \/ Generator(s)
                            \/ Receive(s)
                            \/ Disconnect(s)

(* the reader reconnects after a delay and keeps asking for the next event *)
Fairness ==
  \A s \in Subscribers : /\ WF_vars(Subscribe(s))
                         /\ WF_vars(Generator(s))
                         /\ WF_vars(Receive(s))

Spec == Init /\ [][Next]_vars /\ Fairness
-----------------------------------------------------------------------------
(* What a subscriber that is not aborted still owes its reader, that is    *)
(* the frames on the way, the rest of its replay and the part of its       *)
(* buffer it will not skip, is exactly the events after the reader's       *)
(* cursor, once each and in order.                                         *)
PendingIsGapless ==
  \A s \in Subscribers :
    stage[s] \in {"replay", "live", "waiting"} /\ ~aborted[s] =>
      LET last == received[s] + Len(wire[s]) + Len(replay[s])
          owed == {i \in DOMAIN buffer[s] : buffer[s][i] > last}
      IN  /\ lastYielded[s] = received[s] + Len(wire[s])
          /\ wire[s] \o replay[s] = Between(received[s], last)
          /\ {buffer[s][i] : i \in owed} = (last + 1) .. latest
          /\ \A i, j \in owed : i < j => buffer[s][i] < buffer[s][j]

(* The hub cuts a subscriber off only when it is more than BufferCap       *)
(* durable events behind: no flood of transient events ends a stream.      *)
OnlyBacklogAborts ==
  [][\A s \in Subscribers :
       ~aborted[s] /\ aborted'[s] /\ losses' = losses
         => Cardinality({i \in DOMAIN buffer'[s] : buffer'[s][i] # Transient}) > BufferCap]_vars

Delivery == INSTANCE OrderedDelivery
              WITH Readers <- Subscribers, published <- latest

(* Through lost connections, replays and overflows every reader receives   *)
(* the durable events once and in order, ...                               *)
EventsInOrder == Delivery!Init /\ [][Delivery!Next]_(Delivery!vars)

(* ... and sooner or later all of them as long as connections do not break *)
(* for ever.                                                               *)
EveryEventArrives == Delivery!Spec
=============================================================================
