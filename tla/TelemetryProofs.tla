--------------------------- MODULE TelemetryProofs ---------------------------
(***************************************************************************)
(* Theorems about TelemetryOutbox and SdkClient for all values of their    *)
(* constants.  What concerns the tables is proved once, for steps of the   *)
(* outbox and steps that leave its tables alone; a step of SdkClient is    *)
(* shown to be one of these, so the theorems hold for both.                *)
(***************************************************************************)
EXTENDS SdkClient, NumberLemmas, TLAPS

SessionType ==
  [open : BOOLEAN, todo : SUBSET Events, old : [Events -> Row \cup {Null}],
   new : [Events -> Row \cup {Null}]]

\* The type of the tables; a row that was loaded is never deleted.
TablesOK ==
  /\ keyed \in BOOLEAN
  /\ row \in [Events -> Row \cup {Null}]
  /\ session \in [Workers -> SessionType]
  /\ received \in [Events -> Nat]
  /\ disturbed \subseteq Events
  /\ \A w \in Workers, e \in Events : session[w].old[e] # Null => row[e] # Null

LEMMA ClosedType == Closed \in SessionType
  BY DEF Closed, SessionType

LEMMA FreshType == Fresh \in Row /\ Fresh # Null
  BY NullIsNoRow DEF Fresh, Row

(* What the actions do to the tables.                                       *)

\* One event flushed: its row as computed, and what Datadog saw of it.
Flushes(w, e, new) ==
  /\ e \in session[w].todo /\ new \in Row
  /\ session' = [session EXCEPT ![w].todo = @ \ {e}, ![w].new[e] = new]
  /\ row' = row /\ keyed' = keyed
  /\ \/ ~keyed /\ new.status = "skipped" /\ received' = received /\ disturbed' = disturbed
     \/ /\ keyed /\ new.status = "sent"
        /\ received' = [received EXCEPT ![e] = @ + 1] /\ disturbed' = disturbed
     \/ keyed /\ new.status = "failed" /\ received' = received /\ disturbed' = disturbed
     \/ /\ keyed /\ new.status = "failed"
        /\ received' = [received EXCEPT ![e] = @ + 1] /\ disturbed' = disturbed \cup {e}

\* A session once event e of its batch was flushed as new.
WithFlushed(s, e, new) == [s EXCEPT !.todo = @ \ {e}, !.new[e] = new]

LEMMA FlushesSession ==
  ASSUME NEW w \in Workers, NEW e \in Events, NEW new, Flushes(w, e, new)
  PROVE  session' = [session EXCEPT ![w] = WithFlushed(session[w], e, new)]
<1>1. session' = [session EXCEPT ![w].todo = @ \ {e}, ![w].new[e] = new]
  BY DEF Flushes
<1>2. QED
  BY <1>1 DEF WithFlushed

LEMMA FlushOneFlushes ==
  ASSUME TablesOK, NEW w \in Workers, FlushOne(w)
  PROVE  \E e \in Events, new \in Row : Flushes(w, e, new)
<1> DEFINE e == CHOOSE d \in session[w].todo : \A f \in session[w].todo : d <= f
           old == IF session[w].old[e] = Null THEN Fresh ELSE session[w].old[e]
<1>1. session[w] \in SessionType
  BY DEF TablesOK
<1>2. e \in session[w].todo
  <2>1. session[w].todo \in SUBSET Nat /\ session[w].todo # {}
    <3>1. session[w].todo # {}
      BY DEF FlushOne
    <3>2. session[w].todo \subseteq Events
      BY <1>1 DEF SessionType
    <3>3. QED
      BY <3>1, <3>2 DEF Events
  <2>2. \E d \in session[w].todo : \A f \in session[w].todo : d <= f
    BY <2>1, SmallestElement
  <2>3. QED
    BY <2>2
<1>3. e \in Events
  BY <1>1, <1>2 DEF SessionType
<1>4. old \in Row
  BY <1>1, <1>3, FreshType DEF SessionType
<1>5. /\ Skipped(old) \in Row /\ Skipped(old).status = "skipped"
      /\ Posted(old, TRUE) \in Row /\ Posted(old, TRUE).status = "sent"
      /\ Posted(old, FALSE) \in Row /\ Posted(old, FALSE).status = "failed"
  <2> HIDE DEF old
  <2>1. old.attempts + 1 \in Nat
    BY <1>4 DEF Row
  <2>2. Skipped(old) \in Row /\ Skipped(old).status = "skipped"
    BY <1>4, <2>1 DEF Skipped, Row
  <2>3. Posted(old, TRUE) \in Row /\ Posted(old, TRUE).status = "sent"
    BY <1>4, <2>1 DEF Posted, Row
  <2>4. Posted(old, FALSE) \in Row /\ Posted(old, FALSE).status = "failed"
    BY <1>4, <2>1 DEF Posted, Row
  <2>5. QED
    BY <2>2, <2>3, <2>4
<1>6. /\ row' = row /\ keyed' = keyed
      /\ \/ /\ ~keyed
            /\ session' = [session EXCEPT ![w].todo = @ \ {e}, ![w].new[e] = Skipped(old)]
            /\ received' = received /\ disturbed' = disturbed
         \/ /\ keyed
            /\ session' = [session EXCEPT ![w].todo = @ \ {e}, ![w].new[e] = Posted(old, TRUE)]
            /\ received' = [received EXCEPT ![e] = @ + 1] /\ disturbed' = disturbed
         \/ /\ keyed
            /\ session' = [session EXCEPT ![w].todo = @ \ {e}, ![w].new[e] = Posted(old, FALSE)]
            /\ \/ received' = received /\ disturbed' = disturbed
               \/ /\ received' = [received EXCEPT ![e] = @ + 1]
                  /\ disturbed' = disturbed \cup {e}
  BY DEF FlushOne
<1> HIDE DEF e, old
<1>7. QED
  BY <1>2, <1>3, <1>5, <1>6 DEF Flushes

\* The row that a COMMIT leaves behind.
LEMMA WrittenType ==
  ASSUME TablesOK, NEW w \in Workers, NEW e \in Events
  PROVE  /\ Written(w, e) \in Row \cup {Null}
         /\ Written(w, e) = Null => row[e] = Null /\ session[w].new[e] = Null
         /\ session[w].new[e] = Null => Written(w, e) = row[e]
         /\ session[w].new[e] # Null =>
              Written(w, e).status \in {session[w].new[e].status, row[e].status}
         /\ session[w].new[e] # Null
              /\ (session[w].old[e] = Null \/ session[w].old[e].status # session[w].new[e].status)
              => Written(w, e).status = session[w].new[e].status
<1>1. /\ session[w].old[e] \in Row \cup {Null} /\ session[w].new[e] \in Row \cup {Null}
      /\ row[e] \in Row \cup {Null} /\ (session[w].old[e] # Null => row[e] # Null)
  BY DEF TablesOK, SessionType
<1>2. CASE session[w].new[e] = Null \/ session[w].old[e] = Null
  BY <1>1, <1>2 DEF Written
<1>3. CASE session[w].new[e] # Null /\ session[w].old[e] # Null
  <2>1. Written(w, e) \in Row
    BY <1>1, <1>3 DEF Written, Row
  <2>2. QED
    BY <1>1, <1>3, <2>1, NullIsNoRow DEF Written
<1>4. QED
  BY <1>2, <1>3

\* A worker that loads the rows in B.
Loads(w, B) ==
  /\ B \subseteq Events
  /\ \A e \in B : row[e] # Null /\ row[e].status \in {"pending", "failed"}
  /\ ~session[w].open
  /\ session' = [session EXCEPT ![w] =
       [Closed EXCEPT !.open = TRUE, !.todo = B,
                      !.old = [e \in Events |-> IF e \in B THEN row[e] ELSE Null]]]
  /\ disturbed' = disturbed \cup {e \in B : \E u \in Workers : e \in Held(u)}
  /\ row' = row /\ keyed' = keyed /\ received' = received

\* A worker that makes the rows in B of its own.
Makes(w, B) ==
  /\ B \subseteq Unused
  /\ ~session[w].open
  /\ session' = [session EXCEPT ![w] = [Closed EXCEPT !.open = TRUE, !.todo = B]]
  /\ row' = row /\ keyed' = keyed /\ received' = received /\ disturbed' = disturbed

\* Fresh rows in B.
Adds(B) ==
  /\ B \subseteq Unused
  /\ row' = [e \in Events |-> IF e \in B THEN Fresh ELSE row[e]]
  /\ session' = session /\ keyed' = keyed /\ received' = received /\ disturbed' = disturbed

\* The workers in W lose what they have done.
Loses(W) ==
  /\ W \subseteq Workers
  /\ session' = [w \in Workers |-> IF w \in W THEN Closed ELSE session[w]]
  /\ disturbed' = disturbed \cup UNION {SentBy(w) : w \in W}
  /\ row' = row /\ received' = received
  /\ keyed' \in BOOLEAN /\ (keyed' = keyed \/ W = Workers)

TableStep ==
  \/ \E w \in Workers, e \in Events, new \in Row : Flushes(w, e, new)
  \/ \E w \in Workers : Commit(w)
  \/ \E w \in Workers, B \in SUBSET Events : Loads(w, B) \/ Makes(w, B)
  \/ \E B \in SUBSET Events : Adds(B)
  \/ \E e \in Events : BackoffEnds(e)
  \/ \E W \in SUBSET Workers : Loses(W)
  \/ UNCHANGED outboxTables

LEMMA StepOfTables ==
  ASSUME TablesOK, [Next \/ UNCHANGED outboxTables]_vars
  PROVE  TableStep
<1>1. ASSUME NEW w \in Workers, StartFlush(w)
      PROVE  Loads(w, Batch)
  BY <1>1 DEF StartFlush, Loads, Batch, Due
<1>2. Batch \subseteq Events /\ Unused \subseteq Events /\ (\A n : NextIds(n) \subseteq Unused)
  BY DEF Batch, Due, Unused, NextIds
<1>3. CASE LoopWakes
  BY <1>1, <1>2, <1>3 DEF LoopWakes, Workers, TableStep
<1>4. ASSUME NEW w \in Handlers, FlushOutbox(w) \/ SendNow(w)
      PROVE  TableStep
  <2>1. w \in Workers
    BY DEF Workers
  <2>2. CASE FlushOutbox(w)
    BY <1>1, <1>2, <2>1, <2>2 DEF FlushOutbox, TableStep
  <2>3. CASE SendNow(w)
    <3>1. Makes(w, NextIds(1))
      BY <1>2, <2>3 DEF SendNow, Makes
    <3>2. NextIds(1) \in SUBSET Events
      BY <1>2
    <3>3. QED
      BY <2>1, <3>1, <3>2 DEF TableStep
  <2>4. QED
    BY <1>4, <2>2, <2>3
<1>5. ASSUME NEW w \in Workers, Work(w) \/ Fail(w)
      PROVE  TableStep
  <2>1. CASE FlushOne(w)
    BY <2>1, FlushOneFlushes DEF TableStep
  <2>2. CASE Commit(w)
    BY <2>2 DEF TableStep
  <2>3. CASE Fail(w)
    <3>1. session' = [u \in Workers |-> IF u \in {w} THEN Closed ELSE session[u]]
      BY <2>3 DEF Fail, TablesOK
    <3>2. UNION {SentBy(u) : u \in {w}} = SentBy(w)
      OBVIOUS
    <3>3. Loses({w})
      BY <2>3, <3>1, <3>2 DEF Fail, Loses, TablesOK
    <3>4. {w} \in SUBSET Workers
      OBVIOUS
    <3>5. QED
      BY <3>3, <3>4 DEF TableStep
  <2>4. QED
    BY <1>5, <2>1, <2>2, <2>3 DEF Work
<1>6. ASSUME NEW n, Enqueue(n)
      PROVE  TableStep
  <2>1. Adds(NextIds(n))
    BY <1>2, <1>6 DEF Enqueue, Adds
  <2>2. NextIds(n) \in SUBSET Events
    BY <1>2
  <2>3. QED
    BY <2>1, <2>2 DEF TableStep
<1>7. CASE Restart
  <2>1. Loses(Workers)
    BY <1>7 DEF Restart, Loses
  <2>2. QED
    BY <2>1 DEF TableStep
<1>8. ASSUME NEW e \in Events, BackoffEnds(e)
      PROVE  TableStep
  BY <1>8 DEF TableStep
<1>9. CASE UNCHANGED vars \/ UNCHANGED outboxTables
  BY <1>9 DEF vars, outboxTables, TableStep
<1>10. CASE Next
  BY <1>3, <1>4, <1>5, <1>6, <1>7, <1>8, <1>10 DEF Next, Flushing, LogExecution, RuntimeCheck
<1>11. QED
  BY <1>9, <1>10

-------------------------------------------------------------------------------
(* Types.                                                                   *)

LEMMA TablesInit == Init => TablesOK
<1>1. SUFFICES ASSUME Init
               PROVE  TablesOK
  OBVIOUS
<1>2. \A w \in Workers, e \in Events : session[w].old[e] = Null
  BY <1>1 DEF Init, Closed
<1>3. QED
  BY <1>1, <1>2, ClosedType DEF Init, TablesOK

LEMMA TablesStep == TablesOK /\ TableStep => TablesOK'
<1> SUFFICES ASSUME TablesOK, TableStep
             PROVE  TablesOK'
  OBVIOUS
<1> DEFINE Exist == \A w \in Workers, e \in Events : session[w].old[e] # Null => row[e] # Null
<1>1. ASSUME NEW w \in Workers, NEW e \in Events, NEW new \in Row, Flushes(w, e, new)
      PROVE  TablesOK'
  <2>1. WithFlushed(session[w], e, new) \in SessionType
    BY DEF TablesOK, SessionType, WithFlushed
  <2>2. session' = [session EXCEPT ![w] = WithFlushed(session[w], e, new)]
    BY <1>1, FlushesSession
  <2>3. session' \in [Workers -> SessionType]
    BY <2>1, <2>2 DEF TablesOK
  <2>4. \A u \in Workers : session'[u].old = session[u].old
    BY <2>2 DEF TablesOK, SessionType, WithFlushed
  <2>5. Exist'
    BY <1>1, <2>4 DEF TablesOK, Flushes
  <2>6. received' \in [Events -> Nat] /\ disturbed' \subseteq Events
    BY <1>1 DEF TablesOK, Flushes
  <2>7. QED
    BY <1>1, <2>3, <2>5, <2>6 DEF TablesOK, Flushes
<1>2. ASSUME NEW w \in Workers, Commit(w)
      PROVE  TablesOK'
  <2>1. row' \in [Events -> Row \cup {Null}]
    BY <1>2, WrittenType DEF Commit
  <2>2. \A e \in Events : row[e] # Null => row'[e] # Null
    BY <1>2, WrittenType DEF Commit
  <2>3. Exist'
    BY <1>2, <2>2 DEF Commit, Closed, TablesOK
  <2>4. QED
    BY <1>2, <2>1, <2>3, ClosedType DEF Commit, TablesOK
<1>3. ASSUME NEW w \in Workers, NEW B \in SUBSET Events, Loads(w, B)
      PROVE  TablesOK'
  <2> DEFINE s == [Closed EXCEPT !.open = TRUE, !.todo = B,
                      !.old = [e \in Events |-> IF e \in B THEN row[e] ELSE Null]]
  <2>1. s \in SessionType /\ \A e \in Events : s.old[e] # Null => row[e] # Null
    BY DEF TablesOK, Closed, SessionType
  <2>2. session' = [session EXCEPT ![w] = s]
    BY <1>3 DEF Loads
  <2> HIDE DEF s
  <2>3. session' \in [Workers -> SessionType] /\ Exist'
    BY <1>3, <2>1, <2>2 DEF TablesOK, Loads
  <2>4. QED
    BY <1>3, <2>3 DEF TablesOK, Loads
<1>4. ASSUME NEW w \in Workers, NEW B \in SUBSET Events, Makes(w, B)
      PROVE  TablesOK'
  <2> DEFINE s == [Closed EXCEPT !.open = TRUE, !.todo = B]
  <2>1. s \in SessionType /\ \A e \in Events : s.old[e] = Null
    BY DEF Closed, SessionType
  <2>2. session' = [session EXCEPT ![w] = s]
    BY <1>4 DEF Makes
  <2> HIDE DEF s
  <2>3. session' \in [Workers -> SessionType] /\ Exist'
    BY <1>4, <2>1, <2>2 DEF TablesOK, Makes
  <2>4. QED
    BY <1>4, <2>3 DEF TablesOK, Makes
<1>5. ASSUME NEW B \in SUBSET Events, Adds(B)
      PROVE  TablesOK'
  BY <1>5, FreshType DEF TablesOK, Adds
<1>6. ASSUME NEW e \in Events, BackoffEnds(e)
      PROVE  TablesOK'
  <2>1. [row[e] EXCEPT !.next = "due"] \in Row
    BY <1>6 DEF BackoffEnds, TablesOK, Row
  <2>2. row' = [row EXCEPT ![e] = [row[e] EXCEPT !.next = "due"]]
    BY <1>6 DEF BackoffEnds
  <2>3. QED
    BY <1>6, <2>1, <2>2, NullIsNoRow DEF BackoffEnds, TablesOK
<1>7. ASSUME NEW W \in SUBSET Workers, Loses(W)
      PROVE  TablesOK'
  <2>1. session' \in [Workers -> SessionType]
    BY <1>7, ClosedType DEF TablesOK, Loses
  <2>2. Exist'
    BY <1>7 DEF TablesOK, Loses, Closed
  <2>3. disturbed' \subseteq Events
    BY <1>7 DEF TablesOK, Loses, SentBy
  <2>4. QED
    BY <1>7, <2>1, <2>2, <2>3 DEF TablesOK, Loses
<1>8. CASE UNCHANGED outboxTables
  BY <1>8 DEF outboxTables, TablesOK
<1>9. QED
  BY <1>1, <1>2, <1>3, <1>4, <1>5, <1>6, <1>7, <1>8 DEF TableStep

\* An action counts at most one request or failure.
LEMMA OperationsType ==
  ASSUME operations \in 0..MaxOperations, Next
  PROVE  operations' \in 0..MaxOperations
<1>1. CASE UNCHANGED operations
  BY <1>1
<1>2. CASE Operation
  BY <1>2, TelemetryAssumption DEF Operation
<1>3. QED
  BY <1>1, <1>2
     DEF Next, Flushing, LoopWakes, Work, FlushOne, Commit, Fail, FlushOutbox, SendNow,
         BackoffEnds, Restart, LogExecution, RuntimeCheck, Enqueue

TypeInv == TablesOK /\ operations \in 0..MaxOperations

\* TelemetryOutbox keeps its types.
THEOREM OutboxTypeCorrect == Spec => []TypeOK
<1>1. Init => TypeInv
  BY TablesInit, TelemetryAssumption DEF Init, TypeInv
<1>2. TypeInv /\ [Next]_vars => TypeInv'
  <2>1. SUFFICES ASSUME TypeInv, [Next]_vars
                 PROVE  TypeInv'
    OBVIOUS
  <2>2. TablesOK'
    BY <2>1, StepOfTables, TablesStep DEF TypeInv
  <2>3. operations' \in 0..MaxOperations
    BY <2>1, OperationsType DEF vars, TypeInv
  <2>4. QED
    BY <2>2, <2>3 DEF TypeInv
<1>3. TypeInv => TypeOK
  BY DEF TablesOK, TypeInv, TypeOK, SessionType
<1>4. QED
  BY <1>1, <1>2, <1>3, PTL DEF Spec

-------------------------------------------------------------------------------
(* What is recorded, and what Datadog saw.                                  *)

\* An event that two workers hold is disturbed.
HeldByOne(e) ==
  \A u, w \in Workers : u # w /\ e \in Held(u) /\ e \in Held(w) => e \in disturbed

\* A worker loads only events that are not settled, and what it computes fits
\* the key it has.  If Datadog has an event and nothing was lost, the worker that
\* holds the event is the one that sent it.
SessionOK(w, e) ==
  /\ e \in session[w].todo => session[w].new[e] = Null
  /\ ~session[w].open => e \notin Held(w)
  /\ session[w].old[e] # Null => session[w].old[e].status \in {"pending", "failed"}
  /\ session[w].new[e] # Null =>
       /\ session[w].new[e].status \in IF keyed THEN {"sent", "failed"} ELSE {"skipped"}
       /\ session[w].new[e].status = "sent" => received[e] > 0
  /\ e \in Held(w) /\ e \notin disturbed /\ received[e] > 0 => e \in SentBy(w)

\* If Datadog has an event and nothing was lost, the row says so or a worker is
\* about to write it.
RowOK(e) ==
  /\ Status(e) = "sent" => received[e] > 0
  /\ e \notin disturbed => received[e] <= 1
  /\ e \notin disturbed /\ received[e] > 0 =>
       Status(e) = "sent" \/ \E w \in Workers : e \in Held(w)
  /\ Status(e) = "skipped" /\ keyed => \A w \in Workers : e \notin Held(w)

OutboxInv ==
  \A e \in Events : HeldByOne(e) /\ RowOK(e) /\ \A w \in Workers : SessionOK(w, e)

LEMMA InvInit == Init => OutboxInv
<1>1. SUFFICES ASSUME Init, NEW e \in Events
               PROVE  HeldByOne(e) /\ RowOK(e) /\ \A w \in Workers : SessionOK(w, e)
  BY DEF OutboxInv
<1>2. \A w \in Workers : session[w] = Closed
  BY <1>1 DEF Init
<1>3. \A w \in Workers : e \notin Held(w)
  BY <1>2 DEF Held, Closed
<1>4. Status(e) = "none" /\ received[e] = 0
  BY <1>1 DEF Init, Status
<1>5. QED
  BY <1>2, <1>3, <1>4 DEF HeldByOne, RowOK, SessionOK, Closed

\* Flushing an event leaves it in the hands of its worker.
LEMMA InvFlushes ==
  ASSUME TablesOK, OutboxInv, NEW w \in Workers, NEW d \in Events, NEW new \in Row,
         Flushes(w, d, new)
  PROVE  OutboxInv'
<1>1. /\ session[w].todo \subseteq Events /\ session[w].new \in [Events -> Row \cup {Null}]
      /\ session' = [session EXCEPT ![w] =
                       [session[w] EXCEPT !.todo = @ \ {d}, !.new[d] = new]]
  <2>1. session[w] \in SessionType
    BY DEF TablesOK
  <2>2. session' = [session EXCEPT ![w] = WithFlushed(session[w], d, new)]
    BY FlushesSession
  <2>3. QED
    BY <2>1, <2>2 DEF SessionType, WithFlushed
<1>2. /\ \A u \in Workers \ {w} : session'[u] = session[u]
      /\ session'[w].open = session[w].open /\ session'[w].old = session[w].old
      /\ session'[w].todo = session[w].todo \ {d} /\ session'[w].new[d] = new
      /\ \A e \in Events \ {d} : session'[w].new[e] = session[w].new[e]
  BY <1>1 DEF TablesOK, SessionType
<1>3. d \in session[w].todo /\ new # Null
  BY NullIsNoRow DEF Flushes
<1>4. \A u \in Workers : Held(u)' = Held(u)
  BY <1>1, <1>2, <1>3 DEF Held
<1>5. \A e \in Events \ {d} : received'[e] = received[e] /\ (e \in disturbed' <=> e \in disturbed)
  BY DEF Flushes, TablesOK
<1>6. ASSUME NEW e \in Events \ {d}
      PROVE  HeldByOne(e)' /\ RowOK(e)' /\ \A u \in Workers : SessionOK(u, e)'
  <2>1. HeldByOne(e) /\ RowOK(e) /\ \A u \in Workers : SessionOK(u, e)
    BY DEF OutboxInv
  <2>2. Status(e)' = Status(e) /\ keyed' = keyed
    BY DEF Status, Flushes
  <2>3. \A u \in Workers : /\ session'[u].new[e] = session[u].new[e]
                           /\ e \in session'[u].todo <=> e \in session[u].todo
                           /\ session'[u].open = session[u].open
                           /\ session'[u].old[e] = session[u].old[e]
    BY <1>2
  <2>4. QED
    BY <1>4, <1>5, <2>1, <2>2, <2>3 DEF HeldByOne, RowOK, SessionOK, SentBy
<1>7. HeldByOne(d) /\ RowOK(d) /\ \A u \in Workers : SessionOK(u, d)
  BY DEF OutboxInv
<1>8. d \in Held(w) /\ d \notin SentBy(w)
  BY <1>3, <1>7 DEF Held, SentBy, SessionOK
<1>9. received[d] \in Nat /\ (d \notin disturbed => received[d] = 0)
  BY <1>7, <1>8 DEF SessionOK, TablesOK
<1>10. HeldByOne(d)'
  BY <1>4, <1>7 DEF HeldByOne, Flushes
<1>11. received'[d] \in {received[d], received[d] + 1} /\ received'[d] >= received[d]
  BY <1>9 DEF Flushes, TablesOK
<1>12. RowOK(d)'
  <2>1. Status(d)' = Status(d) /\ keyed' = keyed
    BY DEF Status, Flushes
  <2>2. disturbed \subseteq disturbed'
    BY DEF Flushes
  <2>3. QED
    BY <1>4, <1>7, <1>8, <1>9, <1>11, <2>1, <2>2 DEF RowOK
<1>13. SessionOK(w, d)'
  <2>1. new.status = "sent" => received'[d] > 0
    BY <1>9 DEF Flushes, TablesOK
  <2>2. new.status \in IF keyed' THEN {"sent", "failed"} ELSE {"skipped"}
    BY DEF Flushes
  <2>3. d \notin disturbed' /\ received'[d] > 0 => new.status = "sent"
    BY <1>9 DEF Flushes, TablesOK
  <2>4. d \in SentBy(w)' <=> new.status = "sent"
    BY <1>2, <1>3 DEF SentBy
  <2>5. ~session'[w].open => d \notin Held(w)'
    BY <1>2, <1>4, <1>7 DEF SessionOK
  <2>6. QED
    BY <1>2, <1>3, <1>7, <2>1, <2>2, <2>3, <2>4, <2>5 DEF SessionOK
<1>14. ASSUME NEW u \in Workers \ {w}
       PROVE  SessionOK(u, d)'
  <2>1. d \in Held(u) => d \in disturbed'
    BY <1>7, <1>8 DEF HeldByOne, Flushes
  <2>2. keyed' = keyed
    BY DEF Flushes
  <2>3. QED
    BY <1>2, <1>4, <1>7, <1>9, <1>11, <2>1, <2>2 DEF SessionOK
<1>15. QED
  BY <1>6, <1>10, <1>12, <1>13, <1>14 DEF OutboxInv

\* A commit closes the session and writes what was computed.
LEMMA InvCommit ==
  ASSUME TablesOK, OutboxInv, NEW w \in Workers, Commit(w)
  PROVE  OutboxInv'
<1>1. SUFFICES ASSUME NEW e \in Events
               PROVE  HeldByOne(e)' /\ RowOK(e)' /\ \A u \in Workers : SessionOK(u, e)'
  BY DEF OutboxInv
<1>2. HeldByOne(e) /\ RowOK(e) /\ \A u \in Workers : SessionOK(u, e)
  BY DEF OutboxInv
<1>3. /\ \A u \in Workers \ {w} : session'[u] = session[u]
      /\ session'[w] = Closed
      /\ session[w].todo = {}
      /\ keyed' = keyed /\ received' = received /\ disturbed' = disturbed
      /\ row'[e] = Written(w, e)
  BY DEF Commit, TablesOK
<1>4. \A u \in Workers \ {w} : Held(u)' = Held(u)
  BY <1>3 DEF Held
<1>5. Held(w)' = {}
  BY <1>3 DEF Held, Closed
<1>6. e \in Held(w) <=> session[w].new[e] # Null
  BY <1>3 DEF Held
<1>7. HeldByOne(e)'
  BY <1>2, <1>3, <1>4, <1>5 DEF HeldByOne
<1>8. ASSUME NEW u \in Workers
      PROVE  SessionOK(u, e)'
  <2>1. CASE u = w
    BY <2>1, <1>3, <1>5 DEF SessionOK, Closed
  <2>2. CASE u # w
    BY <2>2, <1>2, <1>3, <1>4 DEF SessionOK, SentBy
  <2>3. QED
    BY <2>1, <2>2
<1>9. RowOK(e)'
  <2>1. CASE session[w].new[e] = Null
    <3>1. Status(e)' = Status(e)
      BY <2>1, <1>3, WrittenType DEF Status
    <3>2. \A u \in Workers : e \in Held(u)' <=> e \in Held(u)
      BY <2>1, <1>4, <1>5, <1>6
    <3>3. QED
      BY <1>2, <1>3, <3>1, <3>2 DEF RowOK
  <2>2. CASE session[w].new[e] # Null
    <3>1. e \in Held(w)
      BY <2>2, <1>6
    <3>2. row'[e] # Null /\ Status(e)' = Written(w, e).status
      BY <2>2, <1>3, WrittenType DEF Status
    <3>3. session[w].old[e] # Null => row[e] # Null
      BY DEF TablesOK
    <3>4. session[w].new[e].status \in {"sent", "skipped"} =>
            Status(e)' = session[w].new[e].status
      BY <2>2, <1>2, <3>2, WrittenType DEF SessionOK
    <3>5. \/ Status(e)' = session[w].new[e].status
          \/ row[e] # Null /\ Status(e)' = Status(e)
      BY <2>2, <3>2, <3>3, WrittenType DEF Status
    <3>6. Status(e)' = "sent" => received[e] > 0
      BY <2>2, <1>2, <3>5 DEF SessionOK, RowOK
    <3>7. e \notin disturbed /\ received[e] > 0 => Status(e)' = "sent"
      BY <2>2, <1>2, <3>1, <3>4 DEF SessionOK, SentBy
    <3>8. Status(e)' = "skipped" => ~keyed
      BY <2>2, <1>2, <3>1, <3>5 DEF SessionOK, RowOK
    <3>9. QED
      BY <1>2, <1>3, <3>6, <3>7, <3>8 DEF RowOK
  <2>3. QED
    BY <2>1, <2>2
<1>10. QED
  BY <1>7, <1>8, <1>9

\* Whoever loads an event that another worker holds disturbs it.
LEMMA InvLoads ==
  ASSUME TablesOK, OutboxInv, NEW w \in Workers, NEW B \in SUBSET Events, Loads(w, B)
  PROVE  OutboxInv'
<1>1. SUFFICES ASSUME NEW e \in Events
               PROVE  HeldByOne(e)' /\ RowOK(e)' /\ \A u \in Workers : SessionOK(u, e)'
  BY DEF OutboxInv
<1>2. HeldByOne(e) /\ RowOK(e) /\ \A u \in Workers : SessionOK(u, e)
  BY DEF OutboxInv
<1>3. /\ \A u \in Workers \ {w} : session'[u] = session[u]
      /\ session'[w].open /\ session'[w].todo = B
      /\ session'[w].new = [d \in Events |-> Null]
      /\ session'[w].old[e] = IF e \in B THEN row[e] ELSE Null
  BY DEF Loads, Closed, TablesOK
<1>4. keyed' = keyed /\ received' = received /\ row' = row /\ received[e] \in Nat
  BY DEF Loads, TablesOK
<1>5. (\A u \in Workers \ {w} : Held(u)' = Held(u)) /\ Held(w)' = B
  BY <1>3 DEF Held
<1>6. e \notin Held(w)
  BY <1>2 DEF SessionOK, Loads
<1>7. /\ e \in disturbed => e \in disturbed'
      /\ e \in disturbed' => e \in disturbed \/ e \in B
      /\ e \in B /\ (\E u \in Workers : e \in Held(u)) => e \in disturbed'
  BY DEF Loads
<1>8. e \in B => Status(e) \in {"pending", "failed"}
  BY DEF Loads, Status
<1>9. HeldByOne(e)'
  BY <1>2, <1>5, <1>7 DEF HeldByOne
<1>10. Status(e)' = Status(e)
  BY <1>4 DEF Status
<1>11. RowOK(e)'
  BY <1>2, <1>4, <1>5, <1>6, <1>7, <1>8, <1>10 DEF RowOK
<1>12. ASSUME NEW u \in Workers \ {w}
       PROVE  SessionOK(u, e)'
  BY <1>2, <1>3, <1>4, <1>5, <1>7 DEF SessionOK, SentBy
<1>13. SessionOK(w, e)'
  <2>1. e \in B /\ e \notin disturbed' => received[e] = 0
    BY <1>2, <1>4, <1>7, <1>8 DEF RowOK
  <2>2. e \in B => row[e].status \in {"pending", "failed"}
    BY DEF Loads
  <2>3. QED
    BY <1>3, <1>4, <1>5, <2>1, <2>2 DEF SessionOK
<1>14. QED
  BY <1>9, <1>11, <1>12, <1>13

\* Nobody else holds the id of a new row.
LEMMA InvMakes ==
  ASSUME TablesOK, OutboxInv, NEW w \in Workers, NEW B \in SUBSET Events, Makes(w, B)
  PROVE  OutboxInv'
<1>1. SUFFICES ASSUME NEW e \in Events
               PROVE  HeldByOne(e)' /\ RowOK(e)' /\ \A u \in Workers : SessionOK(u, e)'
  BY DEF OutboxInv
<1>2. HeldByOne(e) /\ RowOK(e) /\ \A u \in Workers : SessionOK(u, e)
  BY DEF OutboxInv
<1>3. /\ \A u \in Workers \ {w} : session'[u] = session[u]
      /\ session'[w].open /\ session'[w].todo = B
      /\ session'[w].new = [d \in Events |-> Null]
      /\ session'[w].old = [d \in Events |-> Null]
  BY DEF Makes, Closed, TablesOK
<1>4. /\ keyed' = keyed /\ received' = received /\ row' = row /\ disturbed' = disturbed
      /\ received[e] \in Nat
  BY DEF Makes, TablesOK
<1>5. (\A u \in Workers \ {w} : Held(u)' = Held(u)) /\ Held(w)' = B
  BY <1>3 DEF Held
<1>6. e \notin Held(w)
  BY <1>2 DEF SessionOK, Makes
<1>7. e \in B => Status(e) = "none" /\ received[e] = 0 /\ \A u \in Workers : e \notin Held(u)
  BY DEF Makes, Unused, Status
<1>8. Status(e)' = Status(e)
  BY <1>4 DEF Status
<1>9. HeldByOne(e)'
  BY <1>2, <1>4, <1>5, <1>7 DEF HeldByOne
<1>10. RowOK(e)'
  BY <1>2, <1>4, <1>5, <1>6, <1>7, <1>8 DEF RowOK
<1>11. ASSUME NEW u \in Workers \ {w}
       PROVE  SessionOK(u, e)'
  BY <1>2, <1>3, <1>4, <1>5 DEF SessionOK, SentBy
<1>12. SessionOK(w, e)'
  BY <1>3, <1>4, <1>5, <1>7 DEF SessionOK
<1>13. QED
  BY <1>9, <1>10, <1>11, <1>12

\* Steps that leave the sessions alone and settle no row.
LEMMA InvRows ==
  ASSUME TablesOK, OutboxInv, session' = session, keyed' = keyed,
         received' = received, disturbed' = disturbed,
         \A e \in Events : \/ Status(e)' = Status(e)
                           \/ Status(e)' = "pending" /\ received[e] = 0
  PROVE  OutboxInv'
<1>1. \A u \in Workers : Held(u)' = Held(u) /\ SentBy(u)' = SentBy(u)
  BY DEF Held, SentBy
<1>2. ASSUME NEW e \in Events
      PROVE  HeldByOne(e)' /\ RowOK(e)' /\ \A u \in Workers : SessionOK(u, e)'
  <2>1. HeldByOne(e) /\ RowOK(e) /\ (\A u \in Workers : SessionOK(u, e)) /\ received[e] \in Nat
    BY DEF OutboxInv, TablesOK
  <2>2. QED
    BY <1>1, <2>1 DEF HeldByOne, RowOK, SessionOK
<1>3. QED
  BY <1>2 DEF OutboxInv

\* What is lost with a session is disturbed.
LEMMA InvLoses ==
  ASSUME TablesOK, OutboxInv, NEW W \in SUBSET Workers, Loses(W)
  PROVE  OutboxInv'
<1>1. SUFFICES ASSUME NEW e \in Events
               PROVE  HeldByOne(e)' /\ RowOK(e)' /\ \A u \in Workers : SessionOK(u, e)'
  BY DEF OutboxInv
<1>2. HeldByOne(e) /\ RowOK(e) /\ (\A u \in Workers : SessionOK(u, e)) /\ received[e] \in Nat
  BY DEF OutboxInv, TablesOK
<1>3. /\ \A u \in Workers \ W : session'[u] = session[u]
      /\ \A u \in W : session'[u] = Closed
      /\ received' = received /\ row' = row
      /\ keyed' = keyed \/ W = Workers
  BY DEF Loses
<1>4. (\A u \in Workers \ W : Held(u)' = Held(u)) /\ (\A u \in W : Held(u)' = {})
  BY <1>3 DEF Held, Closed
<1>5. /\ e \in disturbed => e \in disturbed'
      /\ \A u \in W : e \in SentBy(u) => e \in disturbed'
  BY DEF Loses
<1>6. Status(e)' = Status(e)
  BY <1>3 DEF Status
<1>7. HeldByOne(e)'
  BY <1>2, <1>4, <1>5 DEF HeldByOne
<1>8. ASSUME e \notin disturbed', received[e] > 0, Status(e) # "sent"
      PROVE  \E u \in Workers : e \in Held(u)'
  <2>1. PICK u \in Workers : e \in Held(u)
    BY <1>2, <1>5, <1>8 DEF RowOK
  <2>2. e \in SentBy(u)
    BY <1>2, <1>5, <1>8, <2>1 DEF SessionOK
  <2>3. u \notin W
    BY <1>5, <1>8, <2>2
  <2>4. QED
    BY <1>4, <2>1, <2>3
<1>9. RowOK(e)'
  BY <1>2, <1>3, <1>4, <1>5, <1>6, <1>8 DEF RowOK
<1>10. ASSUME NEW u \in Workers
       PROVE  SessionOK(u, e)'
  <2>1. CASE u \in W
    BY <2>1, <1>3, <1>4 DEF SessionOK, Closed
  <2>2. CASE u \notin W
    BY <2>2, <1>2, <1>3, <1>4, <1>5 DEF SessionOK, SentBy
  <2>3. QED
    BY <2>1, <2>2
<1>11. QED
  BY <1>7, <1>9, <1>10

LEMMA InvStep == TablesOK /\ OutboxInv /\ TableStep => OutboxInv'
<1> SUFFICES ASSUME TablesOK, OutboxInv, TableStep
             PROVE  OutboxInv'
  OBVIOUS
<1>1. ASSUME NEW B \in SUBSET Events, Adds(B)
      PROVE  OutboxInv'
  <2>1. ASSUME NEW e \in Events
        PROVE  \/ Status(e)' = Status(e)
               \/ Status(e)' = "pending" /\ received[e] = 0
    BY <1>1, FreshType DEF Adds, Status, Unused, Fresh
  <2>2. QED
    BY <1>1, <2>1, InvRows DEF Adds
<1>2. ASSUME NEW d \in Events, BackoffEnds(d)
      PROVE  OutboxInv'
  <2>1. ASSUME NEW e \in Events
        PROVE  Status(e)' = Status(e)
    <3>1. row[e] \in Row \cup {Null} /\ row[d] \in Row /\ row' = [row EXCEPT ![d] = [row[d] EXCEPT !.next = "due"]]
      BY <1>2 DEF BackoffEnds, TablesOK
    <3>2. /\ [row[d] EXCEPT !.next = "due"] \in Row
          /\ [row[d] EXCEPT !.next = "due"].status = row[d].status
      BY <3>1 DEF Row
    <3>3. row[d] # Null /\ [row[d] EXCEPT !.next = "due"] # Null
      BY <1>2, <3>2, NullIsNoRow DEF BackoffEnds
    <3>4. QED
      BY <3>1, <3>2, <3>3 DEF Status, TablesOK
  <2>2. QED
    BY <1>2, <2>1, InvRows DEF BackoffEnds
<1>3. CASE UNCHANGED outboxTables
  BY <1>3, InvRows DEF outboxTables, Status
<1>4. QED
  BY <1>1, <1>2, <1>3, InvFlushes, InvCommit, InvLoads, InvMakes, InvLoses DEF TableStep

Inv == TablesOK /\ OutboxInv

LEMMA InvInductive ==
  /\ Init => Inv
  /\ Inv /\ [Next \/ UNCHANGED outboxTables]_vars => Inv'
<1>1. Init => Inv
  BY TablesInit, InvInit DEF Inv
<1>2. Inv /\ [Next \/ UNCHANGED outboxTables]_vars => Inv'
  BY StepOfTables, TablesStep, InvStep DEF Inv
<1>3. QED
  BY <1>1, <1>2

LEMMA InvImplies == Inv => SentMeansReceived /\ ResentForAReason
  BY DEF Inv, OutboxInv, RowOK, SentMeansReceived, ResentForAReason, TablesOK

\* What a step may not do to a settled row.
Settles(e) ==
  /\ Status(e) = "skipped" => Status(e)' = "skipped"
  /\ Status(e) = "sent" /\ e \notin disturbed => Status(e)' = "sent"

LEMMA StepSettles == Inv /\ TableStep => \A e \in Events : Settles(e)
<1>1. SUFFICES ASSUME Inv, TableStep, NEW e \in Events
               PROVE  Settles(e)
  OBVIOUS
<1>2. HeldByOne(e) /\ RowOK(e) /\ (\A u \in Workers : SessionOK(u, e)) /\ TablesOK
  BY <1>1 DEF Inv, OutboxInv
<1>3. ASSUME NEW w \in Workers, Commit(w)
      PROVE  Settles(e)
  <2>1. row'[e] = Written(w, e) /\ session[w].todo = {}
    BY <1>3 DEF Commit
  <2>2. CASE session[w].new[e] = Null
    BY <1>2, <2>1, <2>2, WrittenType DEF Settles, Status
  <2>3. CASE session[w].new[e] # Null
    <3>1. e \in Held(w)
      BY <2>3 DEF Held
    <3>2. Status(e)' = Written(w, e).status /\ row'[e] # Null
      BY <1>2, <2>1, <2>3, WrittenType DEF Status
    <3>3. session[w].new[e].status \in {"sent", "skipped"} =>
            Status(e)' = session[w].new[e].status
      BY <1>2, <2>3, <3>2, WrittenType DEF SessionOK
    <3>4. Status(e) = "skipped" => session[w].new[e].status = "skipped"
      BY <1>2, <2>3, <3>1 DEF RowOK, SessionOK, TablesOK
    <3>5. Status(e) = "sent" /\ e \notin disturbed => session[w].new[e].status = "sent"
      BY <1>2, <3>1 DEF RowOK, SessionOK, SentBy
    <3>6. QED
      BY <3>3, <3>4, <3>5 DEF Settles
  <2>4. QED
    BY <2>2, <2>3
<1>4. ASSUME NEW B \in SUBSET Events, Adds(B)
      PROVE  Settles(e)
  BY <1>4 DEF Adds, Settles, Status, Unused
<1>5. ASSUME NEW d \in Events, BackoffEnds(d)
      PROVE  Settles(e)
  <2>1. row' = [row EXCEPT ![d] = [row[d] EXCEPT !.next = "due"]] /\ row[d] \in Row
    BY <1>2, <1>5 DEF BackoffEnds, TablesOK
  <2>2. /\ [row[d] EXCEPT !.next = "due"] \in Row
        /\ [row[d] EXCEPT !.next = "due"].status = row[d].status
    BY <2>1 DEF Row
  <2>3. [row[d] EXCEPT !.next = "due"] # Null /\ row[d] # Null
    BY <1>5, <2>2, NullIsNoRow DEF BackoffEnds
  <2>4. QED
    BY <1>2, <2>1, <2>2, <2>3 DEF Settles, Status, TablesOK
<1>6. row' = row => Settles(e)
  BY DEF Settles, Status
<1>7. QED
  BY <1>1, <1>3, <1>4, <1>5, <1>6 DEF TableStep, Flushes, Loads, Makes, Loses, outboxTables

LEMMA SettledStep ==
  Inv /\ [Next \/ UNCHANGED outboxTables]_vars =>
    [\A e \in Events :
       /\ Status(e) = "skipped" => Status(e)' = "skipped"
       /\ Status(e) = "sent" /\ e \notin disturbed => Status(e)' = "sent"]_vars
  BY StepOfTables, StepSettles DEF Inv, Settles

\* Whatever works on the outbox in steps of TelemetryOutbox records only what
\* Datadog received, sends twice only for a reason and leaves settled rows alone.
LEMMA OutboxKept ==
  ImplementsOutbox => []SentMeansReceived /\ []ResentForAReason /\ SettledForGood
<1>1. ImplementsOutbox => []Inv
  BY InvInductive, PTL DEF ImplementsOutbox
<1>2. ImplementsOutbox => [][Next \/ UNCHANGED outboxTables]_vars
  BY PTL DEF ImplementsOutbox
<1>3. []Inv /\ [][Next \/ UNCHANGED outboxTables]_vars => SettledForGood
  BY SettledStep, PTL DEF SettledForGood
<1>4. []Inv => []SentMeansReceived /\ []ResentForAReason
  BY InvImplies, PTL
<1>5. QED
  BY <1>1, <1>2, <1>3, <1>4, PTL

\* The outbox by itself (_telemetry_flush_loop, flush_outbox, emit_event): a
\* record of a sent event is true, an event is sent again only for a reason, and
\* what is settled stays so.
THEOREM OutboxIsHonest ==
  Spec => []SentMeansReceived /\ []ResentForAReason /\ SettledForGood
<1>1. Spec => ImplementsOutbox
  <2>1. [Next]_vars => [Next \/ UNCHANGED outboxTables]_vars
    OBVIOUS
  <2>2. QED
    BY <2>1, PTL DEF Spec, ImplementsOutbox
<1>2. QED
  BY <1>1, OutboxKept, PTL
=============================================================================
