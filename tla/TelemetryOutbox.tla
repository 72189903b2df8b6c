--------------------------- MODULE TelemetryOutbox ---------------------------
(***************************************************************************)
(* The outbox of events for Datadog (main.py, telemetry_outbox, the loop   *)
(* _telemetry_flush_loop and the handlers emit_event and flush_outbox).    *)
(* Any handler may enqueue an event with its own commit.  A flusher loads  *)
(* a batch into its session, POSTs the events one by one and writes what   *)
(* it changed with one COMMIT at the end, so what it knows is lost with it.*)
(* Failed events are tried again for ever.                                 *)
(***************************************************************************)
EXTENDS Naturals, FiniteSets

CONSTANTS
  Loop,           \* the background flush loop
  Handlers,       \* threads that serve emit_event and flush_outbox
  MaxEvents,      \* bound on the rows of telemetry_outbox
  Limit,          \* batch size of a flush
  MaxOperations,  \* bound on requests, failed POSTs, failed commits and restarts
  Null

ASSUME TelemetryAssumption ==
  /\ Loop \notin Handlers
  /\ MaxEvents \in Nat /\ MaxOperations \in Nat
  /\ Limit \in Nat \ {0}

Events == 1..MaxEvents
Workers == Handlers \cup {Loop}

\* next_attempt_at is in the past or in the future; no handler leaves it NULL.
Row == [status : {"pending", "sent", "failed", "skipped"}, attempts : Nat,
        next : {"due", "later"}]

ASSUME NullIsNoRow == Null \notin Row

VARIABLES
  keyed,       \* the process was started with DD_API_KEY
  row,         \* the committed rows of telemetry_outbox
  session,     \* what each worker has loaded and computed
  operations,  \* requests and failures so far
  received,    \* how often Datadog accepted each event
  disturbed    \* events two workers held at once, or whose acceptance got lost

vars == <<keyed, row, session, operations, received, disturbed>>

\* A session: events still to do, rows as loaded and rows as computed.
Closed ==
  [open |-> FALSE, todo |-> {}, old |-> [e \in Events |-> Null],
   new |-> [e \in Events |-> Null]]

TypeOK ==
  /\ keyed \in BOOLEAN
  /\ row \in [Events -> Row \cup {Null}]
  /\ session \in [Workers ->
       [open : BOOLEAN, todo : SUBSET Events, old : [Events -> Row \cup {Null}],
        new : [Events -> Row \cup {Null}]]]
  /\ operations \in 0..MaxOperations
  /\ received \in [Events -> Nat]
  /\ disturbed \subseteq Events

Init ==
  /\ keyed \in BOOLEAN
  /\ row = [e \in Events |-> Null]
  /\ session = [w \in Workers |-> Closed]
  /\ operations = 0
  /\ received = [e \in Events |-> 0]
  /\ disturbed = {}

Operation == operations < MaxOperations /\ operations' = operations + 1

-------------------------------------------------------------------------------
(* Rows.                                                                    *)

Fresh == [status |-> "pending", attempts |-> 0, next |-> "due"]

Held(w) == session[w].todo \cup {e \in Events : session[w].new[e] # Null}

Unused == {e \in Events : /\ row[e] = Null /\ received[e] = 0
                          /\ \A w \in Workers : e \notin Held(w)}

\* The ids that n new rows get.
NextIds(n) == {e \in Unused : Cardinality({f \in Unused : f < e}) < n}

\* Mutants: a failed event is not tried again; a sent one is.
DuePending ==
  {e \in Events : row[e] # Null /\ row[e].status = "pending" /\ row[e].next = "due"}
DueUnskipped ==
  {e \in Events : row[e] # Null /\ row[e].status # "skipped" /\ row[e].next = "due"}

Due ==
  {e \in Events : row[e] # Null /\ row[e].status \in {"pending", "failed"}
                                /\ row[e].next = "due"}

\* The first Limit due rows in id order.
Batch == {e \in Due : Cardinality({f \in Due : f < e}) < Limit}

\* The columns that worker w changed, written over the row of e.
Written(w, e) ==
  LET old == session[w].old[e]
      new == session[w].new[e]
  IN IF new = Null THEN row[e]
     ELSE IF old = Null THEN new
     ELSE [status |-> IF new.status # old.status THEN new.status ELSE row[e].status,
           attempts |-> IF new.attempts # old.attempts THEN new.attempts ELSE row[e].attempts,
           next |-> IF new.next # old.next THEN new.next ELSE row[e].next]

\* Mutant: a status that does not exist.
SkippedUnsent(old) == [old EXCEPT !.status = "unsent", !.attempts = @ + 1]

\* Without an API key the event is kept as evidence and never sent.
Skipped(old) == [old EXCEPT !.status = "skipped", !.attempts = @ + 1]

\* Mutants: the answer is not looked at; success is not noted.
PostedUnheard(old, ok) == [old EXCEPT !.status = "sent", !.attempts = @ + 1]
PostedUnnoted(old, ok) ==
  IF ok THEN [old EXCEPT !.attempts = @ + 1]
  ELSE [old EXCEPT !.status = "failed", !.attempts = @ + 1, !.next = "later"]

\* The row after a POST; next_attempt_at of a sent event is left as it was.
Posted(old, ok) ==
  IF ok THEN [old EXCEPT !.status = "sent", !.attempts = @ + 1]
  ELSE [old EXCEPT !.status = "failed", !.attempts = @ + 1, !.next = "later"]

-------------------------------------------------------------------------------
(* Flushing.                                                                *)

\* What _flush_telemetry_event makes of the next event.  Datadog may accept a
\* POST whose answer is lost.
FlushOne(w) ==
  /\ session[w].todo # {}
  /\ LET e == CHOOSE e \in session[w].todo : \A f \in session[w].todo : e <= f
         old == IF session[w].old[e] = Null THEN Fresh ELSE session[w].old[e]
         Flushed(new) == session' = [session EXCEPT ![w].todo = @ \ {e}, ![w].new[e] = new]
     IN \/ /\ ~keyed
           /\ Flushed(Skipped(old))
           /\ UNCHANGED <<operations, received, disturbed>>
        \/ /\ keyed
           /\ Flushed(Posted(old, TRUE))
           /\ received' = [received EXCEPT ![e] = @ + 1]
           /\ UNCHANGED <<operations, disturbed>>
        \/ /\ keyed
           /\ Operation
           /\ Flushed(Posted(old, FALSE))
           /\ \/ UNCHANGED <<received, disturbed>>
              \/ /\ received' = [received EXCEPT ![e] = @ + 1]
                 /\ disturbed' = disturbed \cup {e}
  /\ UNCHANGED <<keyed, row>>

Commit(w) ==
  /\ session[w].open /\ session[w].todo = {}
  /\ row' = [e \in Events |-> Written(w, e)]
  /\ session' = [session EXCEPT ![w] = Closed]
  /\ UNCHANGED <<keyed, operations, received, disturbed>>

StartFlush(w) ==
  /\ ~session[w].open
  /\ Batch # {}
  /\ session' = [session EXCEPT ![w] =
       [Closed EXCEPT !.open = TRUE, !.todo = Batch,
                      !.old = [e \in Events |-> IF e \in Batch THEN row[e] ELSE Null]]]
  /\ disturbed' = disturbed \cup {e \in Batch : \E u \in Workers : e \in Held(u)}
  /\ UNCHANGED <<keyed, row, received>>

LoopWakes == StartFlush(Loop) /\ UNCHANGED operations

FlushOutbox(w) == Operation /\ StartFlush(w)

\* emit_event with send_now: the row is flushed before anyone else sees it.
SendNow(w) ==
  /\ Operation
  /\ ~session[w].open
  /\ Unused # {}
  /\ session' = [session EXCEPT ![w] = [Closed EXCEPT !.open = TRUE, !.todo = NextIds(1)]]
  /\ UNCHANGED <<keyed, row, received, disturbed>>

\* A handler that commits n events at once.
Enqueue(n) ==
  /\ Cardinality(Unused) >= n
  /\ row' = [e \in Events |-> IF e \in NextIds(n) THEN Fresh ELSE row[e]]
  /\ UNCHANGED <<keyed, session, operations, received, disturbed>>

\* An executed call is an event of its own and two metrics.
LogExecution == Enqueue(3)

\* A guardrail check is one event; so are a gate check, an incident, and what
\* emit_event is given without send_now.
RuntimeCheck == Enqueue(1)

-------------------------------------------------------------------------------
(* Time and failures.                                                       *)

BackoffEnds(e) ==
  /\ row[e] # Null /\ row[e].next = "later"
  /\ row' = [row EXCEPT ![e].next = "due"]
  /\ UNCHANGED <<keyed, session, operations, received, disturbed>>

SentBy(w) == {e \in Events : session[w].new[e] # Null /\ session[w].new[e].status = "sent"}

\* COMMIT fails, or the loop is cancelled in the middle of a batch.
Fail(w) ==
  /\ Operation
  /\ session[w].open
  /\ session' = [session EXCEPT ![w] = Closed]
  /\ disturbed' = disturbed \cup SentBy(w)
  /\ UNCHANGED <<keyed, row, received>>

\* The process ends and is started again, with or without a key.
Restart ==
  /\ Operation
  /\ keyed' \in BOOLEAN
  /\ session' = [w \in Workers |-> Closed]
  /\ disturbed' = disturbed \cup UNION {SentBy(w) : w \in Workers}
  /\ UNCHANGED <<row, received>>

Work(w) == FlushOne(w) \/ Commit(w)

\* What happens without a request that records something else as well.
Flushing ==
  \/ LoopWakes
  \/ \E w \in Workers : Work(w) \/ Fail(w)
  \/ \E w \in Handlers : FlushOutbox(w) \/ SendNow(w)
  \/ \E e \in Events : BackoffEnds(e)

Next == Flushing \/ Restart \/ LogExecution \/ RuntimeCheck

\* The loop wakes up again and again, a started worker goes on, time passes;
\* Datadog and the database fail only MaxOperations times.
Fairness ==
  /\ WF_vars(LoopWakes)
  /\ \A w \in Workers : WF_vars(Work(w))
  /\ \A e \in Events : WF_vars(BackoffEnds(e))

Spec == Init /\ [][Next]_vars /\ Fairness

-------------------------------------------------------------------------------
(* Properties.                                                              *)

Status(e) == IF row[e] = Null THEN "none" ELSE row[e].status

\* An event recorded as sent was accepted, also when another worker wrote its
\* row in between (_flush_telemetry_event, _telemetry_flush_loop).
SentMeansReceived == \A e \in Events : Status(e) = "sent" => received[e] > 0

\* Datadog gets an event twice only if an answer, a commit or the process was
\* lost with the first, or two workers flushed it at once
\* (_telemetry_flush_loop, flush_outbox).
ResentForAReason == \A e \in Events : received[e] > 1 => e \in disturbed

\* A skipped event stays skipped, a sent one stays sent unless two workers
\* flushed it at once and the one that failed committed last.
SettledForGood ==
  [][\A e \in Events :
       /\ Status(e) = "skipped" => Status(e)' = "skipped"
       /\ Status(e) = "sent" /\ e \notin disturbed => Status(e)' = "sent"]_vars

\* Once failures cease, every event is sent or, without a key, skipped
\* (_telemetry_flush_loop).
EveryEventSettles == <>[](\A e \in Events : Status(e) \in {"none", "sent", "skipped"})
=============================================================================
