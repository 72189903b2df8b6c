--------------------------- MODULE WebhookDelivery ---------------------------
(***************************************************************************)
(* Outbound webhooks (app/webhooks.py and section 22 of main.py): the rows *)
(* of webhook_deliveries for one subscription, the background loop that    *)
(* flushes them, the handlers that flush, redeliver and test on request,   *)
(* and the receiver.  Every worker has a session of its own: it loads rows,*)
(* POSTs, and writes at one COMMIT the columns whose value it changed.     *)
(***************************************************************************)
EXTENDS Naturals, FiniteSets

CONSTANTS
  Loop,           \* the background flush loop
  Handlers,       \* threads that serve flush, redeliver and test requests
  MaxDeliveries,  \* bound on the rows of webhook_deliveries
  MaxAttempts,    \* max_attempts of the subscription
  Limit,          \* batch size of a flush
  MaxOperations,  \* bound on requests to the webhook API and on failures
  Null

ASSUME WebhookAssumption ==
  /\ Loop \notin Handlers
  /\ MaxDeliveries \in Nat /\ MaxOperations \in Nat
  /\ MaxAttempts \in Nat \ {0} /\ Limit \in Nat \ {0}

Deliveries == 1..MaxDeliveries
Workers == Handlers \cup {Loop}

(***************************************************************************)
(* next_attempt_at is NULL, in the past or in the future.                  *)
(***************************************************************************)
Row == [status : {"pending", "failed", "delivered", "dead"}, attempts : Nat,
        next : {"null", "due", "later"}]

ASSUME NullIsNoRow == Null \notin Row

VARIABLES
  sub,         \* the subscription: "enabled", "disabled" or "deleted"
  row,         \* the committed rows of webhook_deliveries
  session,     \* what each worker has loaded and computed
  operations,  \* requests and failures so far
  posts,       \* POSTs made for each delivery: what the network saw
  acked,       \* deliveries the receiver answered with 2xx
  everOff,     \* the subscription has been disabled or deleted
  disturbed    \* deliveries that two workers held at once, whose acceptance got
               \* lost, or that a user had sent again

vars == <<sub, row, session, operations, posts, acked, everOff, disturbed>>

\* A worker's session: the deliveries still to do, the rows as loaded and as
\* computed, and the subscription as loaded ("unknown" until it is).
Closed ==
  [kind |-> "none", todo |-> {}, old |-> [d \in Deliveries |-> Null],
   new |-> [d \in Deliveries |-> Null], seen |-> "unknown"]

TypeOK ==
  /\ sub \in {"enabled", "disabled", "deleted"}
  /\ row \in [Deliveries -> Row \cup {Null}]
  /\ session \in [Workers ->
       [kind : {"none", "flush", "redeliver", "test"}, todo : SUBSET Deliveries,
        old : [Deliveries -> Row \cup {Null}], new : [Deliveries -> Row \cup {Null}],
        seen : {"unknown", "enabled", "disabled"}]]
  /\ operations \in 0..MaxOperations
  /\ posts \in [Deliveries -> Nat]
  /\ acked \subseteq Deliveries
  /\ everOff \in BOOLEAN
  /\ disturbed \subseteq Deliveries

Init ==
  /\ sub \in {"enabled", "disabled"}
  /\ row = [d \in Deliveries |-> Null]
  /\ session = [w \in Workers |-> Closed]
  /\ operations = 0
  /\ posts = [d \in Deliveries |-> 0]
  /\ acked = {}
  /\ everOff = (sub = "disabled")
  /\ disturbed = {}

-------------------------------------------------------------------------------
(* Rows.                                                                    *)

Fresh == [status |-> "pending", attempts |-> 0, next |-> "due"]

\* The deliveries in the session of worker w.
Held(w) ==
  session[w].todo \cup
    {d \in Deliveries : session[w].old[d] # Null \/ session[w].new[d] # Null}

\* Deliveries are told apart by delivery_uuid: that of an aborted test is used up.
Unused == {d \in Deliveries : /\ row[d] = Null /\ posts[d] = 0
                              /\ \A w \in Workers : d \notin Held(w)}

\* enqueue_for_event on behalf of a handler that commits the rows r: a row for
\* the event, if the subscription is enabled in the database and its filters
\* match.
FanOut(r) ==
  \/ row' = r
  \/ /\ sub = "enabled"
     /\ \E d \in Unused : r[d] = Null /\ row' = [r EXCEPT ![d] = Fresh]

\* Mutants: a failed delivery is not tried again; a dead one is; any one is.
DuePending == {d \in Deliveries : row[d] # Null /\ row[d].status = "pending"
                                                /\ row[d].next \in {"null", "due"}}

DueUndelivered == {d \in Deliveries : row[d] # Null /\ row[d].status # "delivered"
                                                    /\ row[d].next \in {"null", "due"}}
DueAny == {d \in Deliveries : row[d] # Null /\ row[d].next \in {"null", "due"}}

Due == {d \in Deliveries : row[d] # Null /\ row[d].status \in {"pending", "failed"}
                                         /\ row[d].next \in {"null", "due"}}

\* The first Limit due rows in id order.
Batch == {d \in Due : Cardinality({e \in Due : e < d}) < Limit}

\* The columns that worker w changed, written over the row of d.
Written(w, d) ==
  LET old == session[w].old[d]
      new == session[w].new[d]
  IN IF new = Null THEN row[d]
     ELSE IF old = Null THEN new
     ELSE [status |-> IF new.status # old.status THEN new.status ELSE row[d].status,
           attempts |-> IF new.attempts # old.attempts THEN new.attempts ELSE row[d].attempts,
           next |-> IF new.next = "null" /\ old.next = "null" THEN row[d].next ELSE new.next]

-------------------------------------------------------------------------------
(* _deliver_one and flush_due.                                              *)

\* Mutants: a POST without an answer counts as delivered; one attempt fewer than
\* allowed is made.
AttemptedTrusting(old, ok) ==
  [status |-> "delivered", attempts |-> old.attempts + 1, next |-> "null"]
AttemptedOneFewer(old, ok) ==
  LET n == old.attempts + 1
  IN IF ok THEN [status |-> "delivered", attempts |-> n, next |-> "null"]
     ELSE IF n + 1 >= MaxAttempts THEN [status |-> "dead", attempts |-> n, next |-> "null"]
     ELSE [status |-> "failed", attempts |-> n, next |-> "later"]

\* The row after a POST: 2xx, or anything else with attempts left or not.
Attempted(old, ok) ==
  LET n == old.attempts + 1
  IN IF ok THEN [status |-> "delivered", attempts |-> n, next |-> "null"]
     ELSE IF n >= MaxAttempts THEN [status |-> "dead", attempts |-> n, next |-> "null"]
     ELSE [status |-> "failed", attempts |-> n, next |-> "later"]

\* Mutants: a status that does not exist; an attempt that was not made.
DroppedCancelled(old) == [old EXCEPT !.status = "cancelled", !.next = "null"]
DroppedCounted(old) == [old EXCEPT !.status = "dead", !.next = "null", !.attempts = @ + 1]

Dropped(old) == [old EXCEPT !.status = "dead", !.next = "null"]

\* A POST of delivery d.  The receiver may have accepted it although its
\* answer is lost (a timeout counts as a failed attempt).
Post(w, d, seen) ==
  /\ posts' = [posts EXCEPT ![d] = @ + 1]
  /\ \E accepted, heard \in BOOLEAN :
       /\ acked' = IF accepted THEN acked \cup {d} ELSE acked
       /\ disturbed' = IF accepted /\ ~heard THEN disturbed \cup {d} ELSE disturbed
       /\ session' = [session EXCEPT
            ![w].todo = @ \ {d}, ![w].seen = seen,
            ![w].new[d] = Attempted(IF session[w].old[d] = Null THEN Fresh
                                    ELSE session[w].old[d], accepted /\ heard)]

StartFlush(w) ==
  /\ session[w].kind = "none"
  /\ Batch # {}
  /\ session' = [session EXCEPT ![w] =
       [Closed EXCEPT !.kind = "flush", !.todo = Batch,
                      !.old = [d \in Deliveries |-> IF d \in Batch THEN row[d] ELSE Null]]]
  /\ disturbed' = disturbed \cup {d \in Batch : \E u \in Workers : d \in Held(u)}

\* The subscription is queried for every delivery of the batch, but a row that
\* the session has loaded keeps the values it was loaded with.
FlushOne(w) ==
  /\ session[w].kind = "flush" /\ session[w].todo # {}
  /\ LET d == CHOOSE e \in session[w].todo : \A f \in session[w].todo : e <= f
         seen == IF session[w].seen = "unknown" THEN sub ELSE session[w].seen
     IN IF sub = "deleted" \/ seen = "disabled"
          THEN /\ session' = [session EXCEPT
                    ![w].todo = @ \ {d},
                    ![w].seen = IF sub = "deleted" THEN @ ELSE seen,
                    ![w].new[d] = Dropped(session[w].old[d])]
               /\ UNCHANGED <<posts, acked, disturbed>>
          ELSE Post(w, d, seen)
  /\ UNCHANGED <<sub, row, operations, everOff>>

CommitFlush(w) ==
  /\ session[w].kind = "flush" /\ session[w].todo = {}
  /\ row' = [d \in Deliveries |-> Written(w, d)]
  /\ session' = [session EXCEPT ![w] = Closed]
  /\ UNCHANGED <<sub, operations, posts, acked, everOff, disturbed>>

LoopWakes == StartFlush(Loop) /\ UNCHANGED <<sub, row, operations, posts, acked, everOff>>

-------------------------------------------------------------------------------
(* Requests.                                                                *)

Operation == operations < MaxOperations /\ operations' = operations + 1

ManualFlush(w) ==
  /\ Operation
  /\ StartFlush(w)
  /\ UNCHANGED <<sub, row, posts, acked, everOff>>

\* Any handler that records an activity.
Event ==
  /\ \E d \in Unused : sub = "enabled" /\ row' = [row EXCEPT ![d] = Fresh]
  /\ UNCHANGED <<sub, session, operations, posts, acked, everOff, disturbed>>

\* redeliver takes any row, enabled or not; test makes a row of its own, which
\* nobody sees before it is committed.
StartRedeliver(w, d) ==
  /\ Operation
  /\ session[w].kind = "none"
  /\ row[d] # Null /\ sub # "deleted"
  /\ session' = [session EXCEPT ![w] =
       [Closed EXCEPT !.kind = "redeliver", !.todo = {d}, !.old[d] = row[d]]]
  /\ disturbed' = disturbed \cup {d}
  /\ UNCHANGED <<sub, row, posts, acked, everOff>>

StartTest(w, d) ==
  /\ Operation
  /\ session[w].kind = "none"
  /\ d \in Unused /\ sub # "deleted"
  /\ session' = [session EXCEPT ![w] =
       [Closed EXCEPT !.kind = "test", !.todo = {d}]]
  /\ UNCHANGED <<sub, row, posts, acked, everOff, disturbed>>

SendOne(w) ==
  /\ session[w].kind \in {"redeliver", "test"}
  /\ \E d \in session[w].todo : Post(w, d, "unknown")
  /\ UNCHANGED <<sub, row, operations, everOff>>

CommitSend(w) ==
  /\ session[w].kind \in {"redeliver", "test"} /\ session[w].todo = {}
  /\ FanOut([d \in Deliveries |-> Written(w, d)])
  /\ session' = [session EXCEPT ![w] = Closed]
  /\ UNCHANGED <<sub, operations, posts, acked, everOff, disturbed>>

\* The fan-out of these handlers still finds the subscription as it was.
UpdateSubscription(state) ==
  /\ Operation
  /\ sub # "deleted"
  /\ sub' = state
  /\ everOff' = (everOff \/ state # "enabled")
  /\ FanOut(row)
  /\ UNCHANGED <<session, posts, acked, disturbed>>

-------------------------------------------------------------------------------
(* Time and failures.                                                       *)

BackoffEnds(d) ==
  /\ row[d] # Null /\ row[d].next = "later"
  /\ row' = [row EXCEPT ![d].next = "due"]
  /\ UNCHANGED <<sub, session, operations, posts, acked, everOff, disturbed>>

DeliveredBy(w) ==
  {d \in Deliveries : session[w].new[d] # Null /\ session[w].new[d].status = "delivered"}

\* The process dies, or COMMIT fails: what was POSTed is not recorded.
Fail(w) ==
  /\ Operation
  /\ session[w].kind # "none"
  /\ session' = [session EXCEPT ![w] = Closed]
  /\ disturbed' = disturbed \cup DeliveredBy(w)
  /\ UNCHANGED <<sub, row, posts, acked, everOff>>

Work(w) == FlushOne(w) \/ CommitFlush(w) \/ SendOne(w) \/ CommitSend(w)

Request(w) ==
  \/ ManualFlush(w)
  \/ \E d \in Deliveries : StartRedeliver(w, d) \/ StartTest(w, d)

Next ==
  \/ LoopWakes \/ Event
  \/ \E w \in Workers : Work(w) \/ Fail(w)
  \/ \E w \in Handlers : Request(w)
  \/ \E state \in {"enabled", "disabled", "deleted"} : UpdateSubscription(state)
  \/ \E d \in Deliveries : BackoffEnds(d)

\* The loop wakes up again and again, a started worker goes on, time passes.
Spec ==
  /\ Init /\ [][Next]_vars
  /\ WF_vars(LoopWakes)
  /\ \A w \in Workers : WF_vars(Work(w))
  /\ \A d \in Deliveries : WF_vars(BackoffEnds(d))

-------------------------------------------------------------------------------
(* Properties.                                                              *)

\* A delivery is recorded as delivered only if the receiver accepted it, also
\* when several workers sent it at once (_deliver_one, flush_due).
DeliveredMeansAcked ==
  \A d \in Deliveries : row[d] # Null /\ row[d].status = "delivered" => d \in acked

\* Every attempt on record was a POST; a crash or two workers may leave POSTs
\* unrecorded, never the other way round (_deliver_one).
AttemptsWereMade == \A d \in Deliveries : row[d] # Null => row[d].attempts <= posts[d]

\* A delivery is given up only after max_attempts POSTs, or because the
\* subscription was disabled or deleted (flush_due, _deliver_one).
GivenUpForAReason ==
  \A d \in Deliveries :
    row[d] # Null /\ row[d].status = "dead" => everOff \/ posts[d] >= MaxAttempts

\* A delivery that the receiver accepted is not POSTed again unless a user asked
\* for it, two workers had it at once, or its answer, its COMMIT or its worker was
\* lost (flush_due, redeliver).
SentAgainForAReason ==
  [][\A d \in acked \ disturbed : posts'[d] = posts[d]]_vars

\* A delivery that is delivered or dead stays what it is unless it was disturbed
\* in that way: no stale session writes over it (flush_due, _deliver_one).
SettledForGood ==
  [][\A d \in Deliveries \ disturbed :
       row[d] # Null /\ row[d].status \in {"delivered", "dead"}
         => row'[d] # Null /\ row'[d].status = row[d].status]_vars

\* Once requests and failures cease, every delivery ends up delivered or dead
\* for good (_webhook_flush_loop).
EveryDeliverySettles ==
  \A d \in Deliveries : <>[](row[d] # Null => row[d].status \in {"delivered", "dead"})
=============================================================================
