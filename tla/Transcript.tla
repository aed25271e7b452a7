------------------------------ MODULE Transcript ------------------------------
(***************************************************************************)
(* What an agent says, on its way to the transcript a user reads: the      *)
(* orchestrator writes an event to the store and then publishes it to the  *)
(* streams that are open; the panel shows what its stream brings and what  *)
(* a fetch of the stored transcript (the seed) brings, whichever is first, *)
(* while the user turns to other tasks and the tasks get further runs.     *)
(*                                                                         *)
(* Data abstraction: no two events of a run have the same text, so that    *)
(* two entries have one fingerprint exactly when they are the same event   *)
(* with the same time of occurrence.  The stored copy and the published    *)
(* one read the clock apart: a published copy is "later" unless it falls   *)
(* into the same millisecond.  Left out are the events that are neither    *)
(* stored nor shown (usage, final, permission_request).                    *)
(***************************************************************************)
EXTENDS Positions, SequencesExt

CONSTANTS Tasks,
          MaxRuns, MaxSaid, MaxSeeds   \* bounds

VARIABLES
  runs,      \* runs[t]: how many runs the task has had
  said,      \* the transcripts table: every event that was written, in order
  speaking,  \* the events that are written and not yet published
  panel,     \* the task on show and the runs its snapshot has
  stream,    \* "open" or "broken": the panel's event stream
  wire,      \* what is under way on it
  seeds,     \* the fetches of stored transcripts
  events     \* the panel's state: the transcript on show

transcriptVars == <<runs, said, speaking, panel, stream, wire, seeds, events>>

(* providerEventToTranscript: what is shown of a copy of an event *)
Entry(e, at) == [id |-> e.id, task |-> e.task, at |-> at]

(* listTranscript: the rows of one run, in the order they were written *)
listTranscript(t, run) ==
  Chosen(said, {i \in DOMAIN said : said[i].task = t /\ said[i].run = run})

transcriptEventFingerprint(e) == <<e.id, e.at>>

(* a slip: the seed takes the place of what is shown *)
MergeByReplacing(seeded, prev) == seeded

mergeSeededWithLive(seeded, prev) ==
  LET seen == {transcriptEventFingerprint(e) : e \in ToSet(seeded)}
  IN seeded \o Chosen(prev, {i \in DOMAIN prev : transcriptEventFingerprint(prev[i]) \notin seen})

(* the effects of a change of the task on show or of its number of runs: an earlier *)
(* seed is cancelled, the stored transcript of runs[0] is fetched, the stream is    *)
(* closed and another one opened                                                    *)
SeedEffect(t, n) ==
  seeds' = [i \in DOMAIN seeds |-> [seeds[i] EXCEPT !.cancelled = TRUE]]
             \o (IF n = 0 THEN <<>> ELSE <<[task |-> t, stage |-> "asked", rows |-> <<>>, cancelled |-> FALSE]>>)

StreamEffect == stream' = "open" /\ wire' = <<>>

Init ==
  /\ runs = [t \in Tasks |-> 0] /\ said = <<>> /\ speaking = {}
  /\ \E t \in Tasks : panel = [task |-> t, runs |-> 0]
  /\ stream = "open" /\ wire = <<>> /\ seeds = <<>> /\ events = <<>>
-----------------------------------------------------------------------------
(* The engine *)

RunStarts(t) ==
  /\ runs[t] < MaxRuns /\ runs' = [runs EXCEPT ![t] = @ + 1]
  /\ \A e \in speaking : e.task # t
  /\ UNCHANGED <<said, speaking, panel, stream, wire, seeds, events>>

(* run(): persistTranscript(now(), event) ... *)
Persist(t) ==
  /\ runs[t] > 0 /\ Len(said) < MaxSaid /\ \A e \in speaking : e.task # t
  /\ LET e == [id |-> Len(said) + 1, task |-> t, run |-> runs[t]]
     IN said' = Append(said, e) /\ speaking' = speaking \union {e}
  /\ UNCHANGED <<runs, panel, stream, wire, seeds, events>>

(* ... then publish(event), which reaches the streams that are open *)
Publish ==
  \E e \in speaking :
    /\ speaking' = speaking \ {e}
    /\ \E at \in {"stored", "later"} :
         wire' = IF stream = "open" THEN Append(wire, Entry(e, at)) ELSE wire
    /\ UNCHANGED <<runs, said, panel, stream, seeds, events>>

(* GET .../runs/:runId/transcript reads the rows there are *)
SeedIsRead(i) ==
  /\ i \in DOMAIN seeds /\ seeds[i].stage = "asked"
  /\ LET rows == listTranscript(seeds[i].task, 1)
     IN seeds' = [seeds EXCEPT ![i].stage = "read",
                               ![i].rows = [k \in DOMAIN rows |-> Entry(rows[k], "stored")]]
  /\ UNCHANGED <<runs, said, speaking, panel, stream, wire, events>>
-----------------------------------------------------------------------------
(* The panel *)

Show(t) ==
  /\ t # panel.task /\ Len(seeds) < MaxSeeds
  /\ panel' = [task |-> t, runs |-> runs[t]] /\ events' = <<>>
  /\ SeedEffect(t, runs[t]) /\ StreamEffect
  /\ UNCHANGED <<runs, said, speaking>>

SnapshotArrives ==
  /\ runs[panel.task] # panel.runs /\ Len(seeds) < MaxSeeds
  /\ panel' = [panel EXCEPT !.runs = runs[panel.task]]
  /\ SeedEffect(panel.task, panel'.runs) /\ StreamEffect
  /\ UNCHANGED <<runs, said, speaking, events>>

Settle(i) == seeds' = [seeds EXCEPT ![i].stage = "settled", ![i].rows = <<>>]

SeedReturns(i) ==
  /\ i \in DOMAIN seeds /\ seeds[i].stage = "read" /\ Settle(i)
  /\ events' = IF seeds[i].cancelled THEN events ELSE mergeSeededWithLive(seeds[i].rows, events)
  /\ UNCHANGED <<runs, said, speaking, panel, stream, wire>>

SeedFails(i) ==
  /\ i \in DOMAIN seeds /\ seeds[i].stage # "settled" /\ Settle(i)
  /\ UNCHANGED <<runs, said, speaking, panel, stream, wire, events>>

Deliver ==
  /\ stream = "open" /\ wire # <<>> /\ wire' = Tail(wire)
  /\ events' = IF Head(wire).task = panel.task
               THEN Append(events, Head(wire)) ELSE events
  /\ UNCHANGED <<runs, said, speaking, panel, stream, seeds>>

StreamBreaks ==
  /\ stream = "open" /\ stream' = "broken" /\ wire' = <<>>
  /\ UNCHANGED <<runs, said, speaking, panel, seeds, events>>

(* provider events have no cursor: nothing is sent again *)
StreamReopens ==
  /\ stream = "broken" /\ StreamEffect
  /\ UNCHANGED <<runs, said, speaking, panel, seeds, events>>

Next ==
  \/ \E t \in Tasks : RunStarts(t) \/ Show(t) \/ Persist(t)
  \/ Publish \/ SnapshotArrives \/ Deliver \/ StreamBreaks \/ StreamReopens
  \/ \E i \in 1..MaxSeeds : SeedIsRead(i) \/ SeedReturns(i) \/ SeedFails(i)

Spec == Init /\ [][Next]_transcriptVars
-----------------------------------------------------------------------------
(* The panel shows what was said in the task on show and nothing else, and while   *)
(* that task stays on show nothing that was shown goes away: whichever seeds and   *)
(* events arrive, in whatever order, of this task or of one that was left.         *)
ShownStaysShown ==
  [][ /\ \A e \in ToSet(events') : e.task = panel'.task
      /\ panel'.task = panel.task =>
           {e.id : e \in ToSet(events)} \subseteq {e.id : e \in ToSet(events')} ]_transcriptVars
=============================================================================
