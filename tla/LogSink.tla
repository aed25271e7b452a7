-------------------------------- MODULE LogSink --------------------------------
(***************************************************************************)
(* HttpSink and FileSink: where the engine's log goes.  Records are        *)
(* gathered, posted in batches one after the other, and never retried:     *)
(* what the endpoint did not take is told to the fallback, the sink of     *)
(* JSON lines, which cannot fail.                                          *)
(*                                                                         *)
(* Data abstraction: a record is its number.  A report of the fallback     *)
(* names the number of records it is about; the model keeps which.         *)
(***************************************************************************)
EXTENDS Naturals, Sequences, SequencesExt

CONSTANTS Sizes,          \* what batch size and queue cap may be set to
          MaxRecords      \* bound

LogSinkAssumption == Sizes \subseteq Nat \ {0} /\ MaxRecords \in Nat

VARIABLES
  batchSize, queueCap,
  queue,
  timer,            \* the flush timer is armed
  dropped,          \* the records droppedSinceLastWarn counts
  flushes,          \* the chain of flushPromise: the head is being posted
  closed, taken,
  file,             \* what FileSink wrote
  received,         \* what the endpoint took, in its order
  told              \* the records the fallback has told of as lost

vars == <<batchSize, queueCap, queue, timer, dropped, flushes, closed, taken, file, received, told>>

(* a setting that is no number is never reached: it is as large as any *)
Init ==
  /\ batchSize \in Sizes /\ queueCap \in Sizes
  /\ queue = <<>> /\ timer = FALSE /\ dropped = {} /\ flushes = <<>>
  /\ closed = FALSE /\ taken = 0 /\ file = <<>> /\ received = <<>> /\ told = {}
-----------------------------------------------------------------------------
(* a slip: a flush leaves it to the one under way *)
FlushAlone(records, lost) ==
  /\ timer' = FALSE
  /\ IF records = <<>> \/ flushes # <<>>
     THEN queue' = records /\ dropped' = lost /\ UNCHANGED <<flushes, told>>
     ELSE /\ queue' = <<>> /\ flushes' = Append(flushes, records)
          /\ dropped' = {} /\ told' = told \cup lost

(* flush() of a queue that holds these records; what was dropped before is *)
(* told when the next batch is cut                                         *)
Flush(records, lost) ==
  /\ timer' = FALSE /\ queue' = <<>>
  /\ IF records = <<>> THEN dropped' = lost /\ UNCHANGED <<flushes, told>>
     ELSE flushes' = Append(flushes, records) /\ dropped' = {} /\ told' = told \cup lost

Write ==
  LET record == taken + 1
      full == Len(queue) >= queueCap
      kept == Append(IF full THEN Tail(queue) ELSE queue, record)
      lost == dropped \cup (IF full THEN {Head(queue)} ELSE {}) IN
  /\ taken < MaxRecords /\ ~closed
  /\ taken' = record /\ file' = Append(file, record)
  /\ IF Len(kept) >= batchSize THEN Flush(kept, lost)
     ELSE queue' = kept /\ dropped' = lost /\ timer' = TRUE /\ UNCHANGED <<flushes, told>>
  /\ UNCHANGED <<batchSize, queueCap, closed, received>>

TimerFires ==
  /\ timer /\ Flush(queue, dropped)
  /\ UNCHANGED <<batchSize, queueCap, closed, taken, file, received>>

(* a post that fails may have been taken all the same *)
PostReturns ==
  /\ flushes # <<>> /\ flushes' = Tail(flushes)
  /\ \/ received' = received \o Head(flushes) /\ UNCHANGED told
     \/ /\ told' = told \cup ToSet(Head(flushes))
        /\ received' \in {received, received \o Head(flushes)}
  /\ UNCHANGED <<batchSize, queueCap, queue, timer, dropped, closed, taken, file>>

(* records of a closed sink are dropped, and told to nobody *)
Close ==
  /\ ~closed /\ closed' = TRUE
  /\ Flush(queue, dropped)
  /\ UNCHANGED <<batchSize, queueCap, taken, file, received>>

Next == Write \/ TimerFires \/ PostReturns \/ Close

(* timers fire, and a post is answered *)
Fairness == WF_vars(TimerFires) /\ WF_vars(PostReturns)

Spec == Init /\ [][Next]_vars /\ Fairness
-----------------------------------------------------------------------------
Settled(n) == n \in ToSet(received) \cup told

(* Every record the sink took reaches the endpoint or is told of as lost:  *)
(* none waits in a queue that nothing empties any more.  (Of finitely many *)
(* records: whenever some are unsettled, there comes a time when none is.) *)
EveryRecordIsSettled ==
  (\E n \in 1..taken : ~Settled(n)) ~> (\A n \in 1..taken : Settled(n))
===============================================================================
