----------------------------- MODULE WebhookProofs -----------------------------
(***************************************************************************)
(* Theorems about WebhookDelivery for all values of its constants.         *)
(***************************************************************************)
EXTENDS WebhookDelivery, NumberLemmas, TLAPS

SessionType ==
  [kind : {"none", "flush", "redeliver", "test"}, todo : SUBSET Deliveries,
   old : [Deliveries -> Row \cup {Null}], new : [Deliveries -> Row \cup {Null}],
   seen : {"unknown", "enabled", "disabled"}]

\* What a version r of the row of d may say: it is what really happened.
Honest(r, d) ==
  r # Null =>
    /\ r.status = "delivered" => d \in acked
    /\ r.attempts <= posts[d]
    /\ r.status = "dead" => everOff \/ posts[d] >= MaxAttempts

(***************************************************************************)
(* A session works on rows that exist, or, for a test, on one of its own;  *)
(* its copies, loaded or computed, are honest.                             *)
(***************************************************************************)
SessionOK(w) ==
  LET s == session[w]
  IN /\ s.seen = "disabled" => everOff
     /\ \A d \in Deliveries :
          /\ Honest(s.old[d], d) /\ Honest(s.new[d], d)
          /\ s.old[d] # Null => row[d] # Null
          /\ d \in s.todo /\ s.kind # "test" => s.old[d] # Null

HonestInv ==
  /\ TypeOK
  /\ sub # "enabled" => everOff
  /\ \A d \in Deliveries : Honest(row[d], d)
  /\ \A w \in Workers : SessionOK(w)

\* What is said stays true: nothing that was observed is taken back.
Observes ==
  /\ acked \subseteq acked' /\ (everOff => everOff')
  /\ acked' \subseteq Deliveries /\ everOff' \in BOOLEAN
  /\ posts' \in [Deliveries -> Nat] /\ \A d \in Deliveries : posts[d] <= posts'[d]

LEMMA HonestStays ==
  ASSUME HonestInv, Observes, NEW d \in Deliveries, NEW r \in Row \cup {Null}, Honest(r, d)
  PROVE  Honest(r, d)'
<1>1. posts[d] \in Nat /\ posts'[d] \in Nat /\ posts[d] <= posts'[d]
  BY DEF HonestInv, TypeOK, Observes
<1>2. r # Null => r.attempts \in Nat
  BY DEF Row
<1>3. MaxAttempts \in Nat
  BY WebhookAssumption
<1>4. r # Null => r.attempts <= posts'[d]
  <2> HIDE DEF Row
  <2>1. SUFFICES ASSUME r # Null
                 PROVE  r.attempts <= posts'[d]
    OBVIOUS
  <2>2. r.attempts <= posts[d]
    BY <2>1 DEF Honest
  <2>3. QED
    BY <1>1, <1>2, <2>1, <2>2
<1>5. posts[d] >= MaxAttempts => posts'[d] >= MaxAttempts
  BY <1>1, <1>3
<1>6. QED
  BY <1>4, <1>5 DEF Honest, Observes

LEMMA NullHonest == \A d \in Deliveries : Honest(Null, d) /\ Honest(Null, d)'
  BY DEF Honest

LEMMA FreshRow == Fresh \in Row /\ Fresh # Null
  BY NullIsNoRow DEF Fresh, Row

\* A step that leaves the copies of w alone keeps them honest.
LEMMA OthersKept ==
  ASSUME HonestInv, Observes, NEW w \in Workers, session'[w] = session[w],
         \A d \in Deliveries : row[d] # Null => row'[d] # Null
  PROVE  SessionOK(w)'
<1>1. session[w] \in SessionType /\ SessionOK(w)
  BY DEF HonestInv, TypeOK, SessionType
<1>2. ASSUME NEW d \in Deliveries
      PROVE  Honest(session[w].old[d], d)' /\ Honest(session[w].new[d], d)'
  <2>1. session[w].old[d] \in Row \cup {Null} /\ session[w].new[d] \in Row \cup {Null}
    BY <1>1 DEF SessionType
  <2>2. Honest(session[w].old[d], d) /\ Honest(session[w].new[d], d)
    BY <1>1 DEF SessionOK
  <2> DEFINE x == session[w].old[d]
             y == session[w].new[d]
  <2>3. x = session'[w].old[d] /\ y = session'[w].new[d]
    OBVIOUS
  <2> HIDE DEF x, y
  <2>4. x \in Row \cup {Null} /\ y \in Row \cup {Null} /\ Honest(x, d) /\ Honest(y, d)
    BY <2>1, <2>2 DEF x, y
  <2>5. QED
    BY HonestStays, <2>3, <2>4
<1>3. QED
  BY <1>1, <1>2 DEF SessionOK, Observes

-------------------------------------------------------------------------------
(* The columns a step writes.                                               *)

LEMMA AttemptedHonest ==
  ASSUME NEW r \in Row, NEW d \in Deliveries,
         posts' \in [Deliveries -> Nat], r.attempts + 1 <= posts'[d],
         NEW x, \/ x = Attempted(r, FALSE)
                \/ x = Attempted(r, TRUE) /\ d \in acked'
  PROVE  x \in Row /\ x # Null /\ Honest(x, d)'
<1>1. r.attempts \in Nat /\ posts'[d] \in Nat /\ MaxAttempts \in Nat
  BY WebhookAssumption DEF Row
<1>2. CASE x = Attempted(r, TRUE) /\ d \in acked'
  BY <1>1, <1>2, NullIsNoRow DEF Attempted, Row, Honest
<1>3. CASE x = Attempted(r, FALSE)
  BY <1>1, <1>3, NullIsNoRow DEF Attempted, Row, Honest
<1>4. QED
  BY <1>2, <1>3

LEMMA DroppedHonest ==
  ASSUME NEW r \in Row, NEW d \in Deliveries, Honest(r, d)', everOff'
  PROVE  /\ Dropped(r) \in Row /\ Dropped(r) # Null
         /\ Honest(Dropped(r), d)'
<1>1. Dropped(r) \in Row
  BY DEF Dropped, Row
<1>2. Dropped(r).attempts = r.attempts /\ Dropped(r).status = "dead"
  BY DEF Dropped, Row
<1>3. QED
  BY <1>1, <1>2, NullIsNoRow DEF Honest

\* A COMMIT mixes the columns of the session and of the table.
LEMMA WrittenHonest ==
  ASSUME HonestInv, NEW w \in Workers, NEW d \in Deliveries
  PROVE  /\ Written(w, d) \in Row \cup {Null} /\ Honest(Written(w, d), d)
         /\ row[d] # Null => Written(w, d) # Null
<1> DEFINE old == session[w].old[d]
           new == session[w].new[d]
           cur == row[d]
<1>1. /\ old \in Row \cup {Null} /\ new \in Row \cup {Null} /\ cur \in Row \cup {Null}
      /\ Honest(new, d) /\ Honest(cur, d)
      /\ old # Null => cur # Null
  BY DEF HonestInv, TypeOK, SessionOK
<1>2. Written(w, d) =
        IF new = Null THEN cur
        ELSE IF old = Null THEN new
        ELSE [status |-> IF new.status # old.status THEN new.status ELSE cur.status,
              attempts |-> IF new.attempts # old.attempts THEN new.attempts ELSE cur.attempts,
              next |-> IF new.next = "null" /\ old.next = "null" THEN cur.next ELSE new.next]
  BY DEF Written
<1> HIDE DEF old, new, cur
<1>3. CASE new = Null \/ old = Null
  BY <1>1, <1>2, <1>3, NullIsNoRow DEF cur
<1>4. CASE new # Null /\ old # Null
  <2>1. new \in Row /\ cur \in Row /\ new # Null /\ cur # Null
    BY <1>1, <1>4
  <2> DEFINE st == IF new.status # old.status THEN new.status ELSE cur.status
             n == IF new.attempts # old.attempts THEN new.attempts ELSE cur.attempts
             nx == IF new.next = "null" /\ old.next = "null" THEN cur.next ELSE new.next
  <2>2. /\ st \in {new.status, cur.status} /\ n \in {new.attempts, cur.attempts}
        /\ nx \in {new.next, cur.next}
    OBVIOUS
  <2>3. Written(w, d) = [status |-> st, attempts |-> n, next |-> nx]
    BY <1>2, <1>4
  <2> HIDE DEF st, n, nx
  <2>4. Written(w, d) \in Row
    BY <2>1, <2>2, <2>3 DEF Row
  <2>5. Written(w, d) # Null
    BY <2>4, NullIsNoRow
  <2>6. /\ st = "delivered" => d \in acked
        /\ n <= posts[d]
        /\ st = "dead" => everOff \/ posts[d] >= MaxAttempts
    BY <1>1, <2>1, <2>2 DEF Honest
  <2>7. Honest(Written(w, d), d)
    BY <2>3, <2>6 DEF Honest
  <2>8. QED
    BY <2>4, <2>5, <2>7
<1>5. QED
  BY <1>3, <1>4

-------------------------------------------------------------------------------
(* Steps.                                                                   *)

\* The rows as a transaction leaves them, before anybody observed more.
RowsOK(r) ==
  /\ r \in [Deliveries -> Row \cup {Null}]
  /\ \A d \in Deliveries : Honest(r[d], d) /\ (row[d] # Null => r[d] # Null)

LEMMA SameRowsOK == HonestInv => RowsOK(row)
  BY DEF HonestInv, TypeOK, RowsOK

LEMMA AddedRowOK ==
  ASSUME HonestInv, NEW r, RowsOK(r), NEW d \in Deliveries
  PROVE  RowsOK([r EXCEPT ![d] = Fresh])
<1>1. Fresh \in Row /\ Fresh # Null
  BY FreshRow
<1>2. posts[d] \in Nat
  BY DEF HonestInv, TypeOK
<1>3. Honest(Fresh, d)
  BY <1>2 DEF Honest, Fresh
<1>4. QED
  BY <1>1, <1>3 DEF RowsOK

LEMMA FanOutOK ==
  ASSUME HonestInv, NEW r, RowsOK(r), FanOut(r)
  PROVE  RowsOK(row')
<1>1. CASE row' = r
  BY <1>1
<1>2. CASE \E d \in Unused : row' = [r EXCEPT ![d] = Fresh]
  BY <1>2, AddedRowOK DEF Unused
<1>3. QED
  BY <1>1, <1>2 DEF FanOut

\* Enough for a step to keep the invariant: rows from honest ones, and the
\* session of w replaced by one that is honest.
LEMMA StepKeeps ==
  ASSUME HonestInv, Observes, RowsOK(row'), NEW w \in Workers,
         \A u \in Workers \ {w} : session'[u] = session[u],
         session' \in [Workers -> SessionType], SessionOK(w)',
         sub' \in {"enabled", "disabled", "deleted"}, sub' # "enabled" => everOff',
         operations' \in 0..MaxOperations, disturbed' \subseteq Deliveries
  PROVE  HonestInv'
<1>1. TypeOK'
  BY DEF TypeOK, SessionType, RowsOK, Observes
<1>2. \A u \in Workers : SessionOK(u)'
  BY OthersKept DEF RowsOK
<1>3. ASSUME NEW d \in Deliveries
      PROVE  Honest(row[d], d)'
  <2> DEFINE r == row'[d]
  <2>1. r \in Row \cup {Null} /\ Honest(r, d)
    BY DEF RowsOK
  <2>2. r = row'[d]
    OBVIOUS
  <2> HIDE DEF r
  <2>3. QED
    BY <2>1, <2>2, HonestStays
<1>4. QED
  BY <1>1, <1>2, <1>3 DEF HonestInv

LEMMA Quiet == HonestInv /\ UNCHANGED <<posts, acked, everOff>> => Observes
<1>1. SUFFICES ASSUME HonestInv, UNCHANGED <<posts, acked, everOff>>
               PROVE  Observes
  OBVIOUS
<1>2. \A d \in Deliveries : posts[d] \in Nat
  BY <1>1 DEF HonestInv, TypeOK
<1>3. QED
  BY <1>1, <1>2 DEF Observes, HonestInv, TypeOK

LEMMA OperationType == HonestInv /\ Operation => operations' \in 0..MaxOperations
<1>1. HonestInv => operations \in Nat /\ MaxOperations \in Nat
  BY WebhookAssumption DEF HonestInv, TypeOK
<1>2. QED
  BY <1>1 DEF Operation

LEMMA ClosedType == Closed \in SessionType
  BY DEF Closed, SessionType

\* A session that was just opened or closed: rows loaded, nothing computed.
LEMMA OpenedOK ==
  ASSUME HonestInv, UNCHANGED <<sub, row, posts, acked, everOff>>,
         operations' \in 0..MaxOperations, disturbed' \subseteq Deliveries,
         NEW w \in Workers, NEW s \in SessionType, session' = [session EXCEPT ![w] = s],
         s.seen = "unknown", \A d \in Deliveries : s.new[d] = Null,
         \A d \in Deliveries : s.old[d] \in {Null, row[d]},
         \A d \in s.todo : s.kind = "test" \/ s.old[d] # Null
  PROVE  HonestInv'
<1>1. Observes /\ RowsOK(row)
  BY Quiet, SameRowsOK
<1>2. session \in [Workers -> SessionType]
  BY DEF HonestInv, TypeOK, SessionType
<1>3. session'[w] = s /\ \A u \in Workers \ {w} : session'[u] = session[u]
  BY <1>2
<1>4. ASSUME NEW d \in Deliveries
      PROVE  Honest(s.old[d], d)' /\ Honest(s.new[d], d)'
  <2>1. Honest(row[d], d)
    BY DEF HonestInv
  <2>2. Honest(s.old[d], d) /\ Honest(s.new[d], d)
    BY <2>1, NullHonest
  <2>3. QED
    BY <2>2 DEF Honest
<1>5. SessionOK(w)'
  <2>1. \A d \in Deliveries : s.old[d] # Null => row'[d] # Null
    OBVIOUS
  <2>2. \A d \in Deliveries : d \in s.todo /\ s.kind # "test" => s.old[d] # Null
    OBVIOUS
  <2> HIDE DEF SessionType
  <2>3. QED
    BY <1>3, <1>4, <2>1, <2>2 DEF SessionOK
<1>6. RowsOK(row')
  BY <1>1 DEF RowsOK
<1>7. QED
  BY <1>1, <1>2, <1>3, <1>5, <1>6, StepKeeps DEF HonestInv, TypeOK

Opens(w) ==
  \/ w = Loop /\ LoopWakes
  \/ w \in Handlers /\ Request(w)
  \/ Fail(w)

\* What such a session may be.
Opened(s) ==
  /\ s \in SessionType
  /\ s.seen = "unknown" /\ \A d \in Deliveries : s.new[d] = Null
  /\ \A d \in Deliveries : s.old[d] \in {Null, row[d]}
  /\ \A d \in s.todo : s.kind = "test" \/ s.old[d] # Null

LEMMA OpensKeep ==
  ASSUME HonestInv, NEW w \in Workers, Opens(w)
  PROVE  HonestInv'
<1>1. /\ UNCHANGED <<sub, row, posts, acked, everOff>>
      /\ operations' \in 0..MaxOperations
  BY OperationType DEF Opens, LoopWakes, Request, ManualFlush, StartRedeliver, StartTest, Fail,
                       HonestInv, TypeOK
<1>2. disturbed' \subseteq Deliveries
  BY DEF Opens, LoopWakes, Request, ManualFlush, StartFlush, StartRedeliver, StartTest, Fail,
         Batch, Due, DeliveredBy, HonestInv, TypeOK
<1>3. \E s : Opened(s) /\ session' = [session EXCEPT ![w] = s]
  <2>1. CASE Fail(w)
    <3>1. Closed.seen = "unknown" /\ Closed.todo = {}
          /\ \A d \in Deliveries : Closed.old[d] = Null /\ Closed.new[d] = Null
      BY DEF Closed
    <3>2. Opened(Closed)
      BY <3>1, ClosedType DEF Opened
    <3>3. QED
      BY <2>1, <3>2 DEF Fail
  <2>2. CASE StartFlush(w)
    <3> DEFINE loaded == [d \in Deliveries |-> IF d \in Batch THEN row[d] ELSE Null]
               s == [Closed EXCEPT !.kind = "flush", !.todo = Batch, !.old = loaded]
    <3>1. Batch \subseteq Deliveries /\ \A d \in Batch : row[d] # Null
      BY DEF Batch, Due
    <3>2. /\ loaded \in [Deliveries -> Row \cup {Null}]
          /\ \A d \in Batch : loaded[d] # Null
          /\ \A d \in Deliveries : loaded[d] \in {Null, row[d]}
      BY <3>1 DEF HonestInv, TypeOK
    <3> HIDE DEF loaded
    <3>3. s \in SessionType
      BY <3>1, <3>2, ClosedType DEF Closed, SessionType
    <3>4. session' = [session EXCEPT ![w] = s]
      BY <2>2 DEF StartFlush, loaded
    <3>5. s.seen = "unknown" /\ s.todo = Batch /\ s.old = loaded
          /\ \A d \in Deliveries : s.new[d] = Null
      BY DEF Closed
    <3> HIDE DEF s
    <3>6. /\ \A d \in s.todo : s.old[d] # Null
          /\ \A d \in Deliveries : s.old[d] \in {Null, row[d]}
      BY <3>2, <3>5
    <3>7. Opened(s)
      BY <3>3, <3>5, <3>6 DEF Opened
    <3>8. QED
      BY <3>4, <3>7
  <2>3. ASSUME NEW e \in Deliveries, StartRedeliver(w, e)
        PROVE  \E s : Opened(s) /\ session' = [session EXCEPT ![w] = s]
    <3> DEFINE loaded == [d \in Deliveries |-> IF d = e THEN row[e] ELSE Null]
               s == [Closed EXCEPT !.kind = "redeliver", !.todo = {e}, !.old = loaded]
    <3>1. row[e] \in Row /\ row[e] # Null
      BY <2>3 DEF StartRedeliver, HonestInv, TypeOK
    <3>2. loaded \in [Deliveries -> Row \cup {Null}] /\ loaded[e] # Null
          /\ \A d \in Deliveries : loaded[d] \in {Null, row[d]}
      BY <3>1
    <3>3. s = [Closed EXCEPT !.kind = "redeliver", !.todo = {e}, !.old[e] = row[e]]
      BY DEF Closed
    <3> HIDE DEF loaded
    <3>4. s \in SessionType
      BY <3>1, <3>2, ClosedType DEF Closed, SessionType
    <3>5. s.seen = "unknown" /\ s.todo = {e} /\ s.old = loaded
          /\ \A d \in Deliveries : s.new[d] = Null
      BY DEF Closed
    <3>6. session' = [session EXCEPT ![w] = s]
      BY <2>3, <3>3 DEF StartRedeliver
    <3> HIDE DEF s
    <3>7. Opened(s)
      BY <3>2, <3>4, <3>5 DEF Opened
    <3>8. QED
      BY <3>6, <3>7
  <2>4. ASSUME NEW e \in Deliveries, StartTest(w, e)
        PROVE  \E s : Opened(s) /\ session' = [session EXCEPT ![w] = s]
    <3> DEFINE s == [Closed EXCEPT !.kind = "test", !.todo = {e}]
    <3>1. s \in SessionType
      BY ClosedType DEF Closed, SessionType
    <3>2. s.seen = "unknown" /\ s.kind = "test"
          /\ \A d \in Deliveries : s.new[d] = Null /\ s.old[d] = Null
      BY DEF Closed
    <3>3. session' = [session EXCEPT ![w] = s]
      BY <2>4 DEF StartTest
    <3> HIDE DEF s
    <3>4. Opened(s)
      BY <3>1, <3>2 DEF Opened
    <3>5. QED
      BY <3>3, <3>4
  <2>5. QED
    BY <2>1, <2>2, <2>3, <2>4 DEF Opens, LoopWakes, Request, ManualFlush
<1>4. QED
  BY <1>1, <1>2, <1>3, OpenedOK DEF Opened

LEMMA TablesKeep ==
  ASSUME HonestInv,
         \/ Event
         \/ \E state \in {"enabled", "disabled", "deleted"} : UpdateSubscription(state)
         \/ \E d \in Deliveries : BackoffEnds(d)
  PROVE  HonestInv'
<1>1. /\ sub' \in {"enabled", "disabled", "deleted"} /\ (sub' # "enabled" => everOff')
      /\ UNCHANGED <<session, posts, acked, disturbed>>
      /\ (everOff => everOff') /\ everOff' \in BOOLEAN
      /\ operations' \in 0..MaxOperations
  <2>1. CASE Event \/ \E d \in Deliveries : BackoffEnds(d)
    BY <2>1 DEF Event, BackoffEnds, HonestInv, TypeOK
  <2>2. ASSUME NEW state \in {"enabled", "disabled", "deleted"}, UpdateSubscription(state)
        PROVE  /\ sub' \in {"enabled", "disabled", "deleted"} /\ (sub' # "enabled" => everOff')
               /\ UNCHANGED <<session, posts, acked, disturbed>> /\ (everOff => everOff')
               /\ everOff' \in BOOLEAN /\ operations' \in 0..MaxOperations
    BY <2>2, OperationType DEF UpdateSubscription, HonestInv, TypeOK
  <2>3. QED
    BY <2>1, <2>2
<1>2. RowsOK(row')
  <2>1. CASE Event
    BY <2>1, SameRowsOK, AddedRowOK DEF Event, Unused
  <2>2. CASE \E state \in {"enabled", "disabled", "deleted"} : UpdateSubscription(state)
    BY <2>2, SameRowsOK, FanOutOK DEF UpdateSubscription
  <2>3. ASSUME NEW d \in Deliveries, BackoffEnds(d)
        PROVE  RowsOK(row')
    <3> DEFINE r == [row[d] EXCEPT !.next = "due"]
    <3>1. row[d] \in Row /\ row[d] # Null /\ Honest(row[d], d)
      BY <2>3 DEF BackoffEnds, HonestInv, TypeOK
    <3>2. r \in Row /\ r.status = row[d].status /\ r.attempts = row[d].attempts
      BY <3>1 DEF Row
    <3>3. row' = [row EXCEPT ![d] = r]
      BY <2>3 DEF BackoffEnds
    <3> HIDE DEF r
    <3>4. r # Null /\ Honest(r, d)
      BY <3>1, <3>2, NullIsNoRow DEF Honest
    <3>5. QED
      BY <3>2, <3>3, <3>4, SameRowsOK DEF RowsOK
  <2>4. QED
    BY <2>1, <2>2, <2>3
<1>3. Observes
  <2>1. \A d \in Deliveries : posts[d] \in Nat
    BY DEF HonestInv, TypeOK
  <2>2. QED
    BY <1>1, <2>1 DEF Observes, HonestInv, TypeOK
<1>4. Loop \in Workers /\ session' \in [Workers -> SessionType]
      /\ \A u \in Workers : session'[u] = session[u]
  BY <1>1 DEF Workers, HonestInv, TypeOK, SessionType
<1>5. SessionOK(Loop)'
  BY <1>2, <1>3, <1>4, OthersKept DEF RowsOK
<1>6. sub' # "enabled" => everOff'
  BY <1>1
<1>7. disturbed' \subseteq Deliveries
  BY <1>1 DEF HonestInv, TypeOK
<1>8. QED
  BY <1>1, <1>2, <1>3, <1>4, <1>5, <1>6, <1>7, StepKeeps

LEMMA CommitsKeep ==
  ASSUME HonestInv, NEW w \in Workers, CommitFlush(w) \/ CommitSend(w)
  PROVE  HonestInv'
<1> DEFINE r == [d \in Deliveries |-> Written(w, d)]
<1>1. RowsOK(r)
  BY WrittenHonest DEF RowsOK
<1>2. row' = r \/ FanOut(r)
  BY DEF CommitFlush, CommitSend
<1> HIDE DEF r
<1>3. RowsOK(row')
  BY <1>1, <1>2, FanOutOK
<1>4. UNCHANGED <<sub, operations, posts, acked, everOff, disturbed>>
      /\ session' = [session EXCEPT ![w] = Closed]
  BY DEF CommitFlush, CommitSend
<1>5. Observes
  BY <1>4, Quiet
<1>6. session \in [Workers -> SessionType]
  BY DEF HonestInv, TypeOK, SessionType
<1>7. session' \in [Workers -> SessionType] /\ session'[w] = Closed
      /\ \A u \in Workers \ {w} : session'[u] = session[u]
  BY <1>4, <1>6, ClosedType
<1>8. SessionOK(w)'
  <2>1. Closed.seen = "unknown" /\ Closed.todo = {}
        /\ \A d \in Deliveries : Closed.old[d] = Null /\ Closed.new[d] = Null
    BY DEF Closed
  <2>2. QED
    BY <1>7, <2>1, NullHonest DEF SessionOK
<1>9. QED
  BY <1>3, <1>4, <1>5, <1>7, <1>8, StepKeeps DEF HonestInv, TypeOK

\* A POST by w of delivery d, which is the session's to do.
LEMMA PostKeeps ==
  ASSUME HonestInv, NEW w \in Workers, NEW d \in session[w].todo,
         NEW seen \in {"unknown", "enabled", "disabled"}, seen = "disabled" => everOff,
         Post(w, d, seen), UNCHANGED <<sub, row, operations, everOff>>
  PROVE  HonestInv'
<1> DEFINE s == session[w]
           base == IF s.old[d] = Null THEN Fresh ELSE s.old[d]
<1>1. session \in [Workers -> SessionType] /\ s \in SessionType /\ SessionOK(w)
      /\ d \in Deliveries
  BY DEF HonestInv, TypeOK, SessionType
<1>2. PICK accepted \in BOOLEAN, heard \in BOOLEAN :
        /\ acked' = IF accepted THEN acked \cup {d} ELSE acked
        /\ disturbed' = IF accepted /\ ~heard THEN disturbed \cup {d} ELSE disturbed
        /\ session' = [session EXCEPT
             ![w].todo = @ \ {d}, ![w].seen = seen,
             ![w].new[d] = Attempted(base, accepted /\ heard)]
  BY DEF Post
<1>3. posts' = [posts EXCEPT ![d] = @ + 1] /\ posts \in [Deliveries -> Nat]
  BY DEF Post, HonestInv, TypeOK
<1>4. Observes
  BY <1>1, <1>2, <1>3 DEF Observes, HonestInv, TypeOK
<1>5. base \in Row /\ base.attempts + 1 <= posts'[d]
  <2>1. s.old[d] \in Row \cup {Null} /\ Honest(s.old[d], d)
    BY <1>1 DEF SessionType, SessionOK
  <2>2. posts[d] \in Nat /\ posts'[d] = posts[d] + 1
    BY <1>1, <1>3
  <2>3. CASE s.old[d] = Null
    BY <2>2, <2>3, FreshRow DEF Fresh
  <2>4. CASE s.old[d] # Null
    <3>1. base = s.old[d] /\ base \in Row /\ base.attempts <= posts[d]
      BY <2>1, <2>4 DEF Honest
    <3>2. base.attempts \in Nat
      BY <3>1 DEF Row
    <3> HIDE DEF base
    <3>3. QED
      BY <2>2, <3>1, <3>2
  <2>5. QED
    BY <2>3, <2>4
<1>6. PICK a : a = Attempted(base, accepted /\ heard)
  OBVIOUS
<1>7. \/ a = Attempted(base, FALSE)
      \/ a = Attempted(base, TRUE) /\ d \in acked'
  <2>1. CASE accepted /\ heard
    BY <1>2, <1>6, <2>1 DEF Attempted
  <2>2. CASE ~(accepted /\ heard)
    BY <1>6, <2>2 DEF Attempted
  <2>3. QED
    BY <2>1, <2>2
<1> HIDE DEF base
<1>8. a \in Row /\ a # Null /\ Honest(a, d)'
  <2>1. posts' \in [Deliveries -> Nat]
    BY <1>4 DEF Observes
  <2>2. PICK r \in Row : r = base
    BY <1>5
  <2>3. /\ r.attempts + 1 <= posts'[d]
        /\ \/ a = Attempted(r, FALSE)
           \/ a = Attempted(r, TRUE) /\ d \in acked'
    BY <1>5, <1>7, <2>2
  <2>4. QED
    BY <1>1, <2>1, <2>3, AttemptedHonest
<1>9. DEFINE n == [s.new EXCEPT ![d] = a]
             s2 == [s EXCEPT !.todo = s.todo \ {d}, !.seen = seen, !.new = n]
<1>10. session' = [session EXCEPT ![w] = s2]
  BY <1>1, <1>2, <1>6 DEF base, SessionType
<1>11. n \in [Deliveries -> Row \cup {Null}] /\ n[d] = a
       /\ \A e \in Deliveries \ {d} : n[e] = s.new[e]
  BY <1>1, <1>8 DEF SessionType
<1> HIDE DEF n
<1>12. s2 \in SessionType /\ s2.kind = s.kind /\ s2.todo = s.todo \ {d} /\ s2.seen = seen
       /\ s2.old = s.old /\ s2.new = n
  BY <1>1, <1>11 DEF SessionType
<1> HIDE DEF s2
<1>13. session' \in [Workers -> SessionType] /\ session'[w] = s2
       /\ \A u \in Workers \ {w} : session'[u] = session[u]
  BY <1>1, <1>10, <1>12
<1>14. ASSUME NEW e \in Deliveries
       PROVE  /\ Honest(session[w].old[e], e)' /\ Honest(session[w].new[e], e)'
              /\ (session[w].old[e] # Null => row[e] # Null)'
              /\ (e \in session[w].todo /\ session[w].kind # "test" => session[w].old[e] # Null)'
  <2>1. /\ Honest(s.old[e], e) /\ Honest(s.new[e], e)
        /\ s.old[e] \in Row \cup {Null} /\ s.new[e] \in Row \cup {Null}
        /\ s.old[e] # Null => row[e] # Null
        /\ e \in s.todo /\ s.kind # "test" => s.old[e] # Null
    BY <1>1 DEF SessionOK, SessionType
  <2>2. session'[w].old[e] = s.old[e] /\ session'[w].new[e] = n[e]
    BY <1>12, <1>13
  <2>3. PICK o, x, y : o = s.old[e] /\ x = s.new[e] /\ y = n[e]
    OBVIOUS
  <2>4. Honest(o, e) /\ Honest(x, e) /\ o \in Row \cup {Null} /\ x \in Row \cup {Null}
        /\ session'[w].old[e] = o /\ session'[w].new[e] = y /\ (e # d => y = x)
        /\ (e = d => y = a)
    BY <1>11, <2>1, <2>2, <2>3
  <2>5. Honest(o, e)' /\ Honest(y, e)'
    BY <1>4, <1>8, <2>4, HonestStays
  <2>6. Honest(session[w].old[e], e)' /\ Honest(session[w].new[e], e)'
    BY <2>4, <2>5
  <2>7. QED
    BY <1>12, <1>13, <2>1, <2>2, <2>6
<1>15. SessionOK(w)'
  <2>1. session'[w].seen = "disabled" => everOff'
    BY <1>12, <1>13
  <2>2. QED
    BY <1>14, <2>1 DEF SessionOK
<1>16. RowsOK(row')
  BY SameRowsOK
<1>17. disturbed' \subseteq Deliveries
  BY <1>1, <1>2 DEF HonestInv, TypeOK
<1>18. QED
  BY <1>4, <1>13, <1>15, <1>16, <1>17, StepKeeps DEF HonestInv, TypeOK

\* A batch goes in id order; a delivery of a subscription that is gone or was
\* loaded as disabled is dropped.
LEMMA FlushKeeps ==
  ASSUME HonestInv, NEW w \in Workers, FlushOne(w)
  PROVE  HonestInv'
<1> DEFINE s == session[w]
<1>1. /\ session \in [Workers -> SessionType] /\ s \in SessionType /\ SessionOK(w)
      /\ s.kind = "flush" /\ s.todo # {} /\ s.todo \subseteq Deliveries
  BY DEF FlushOne, HonestInv, TypeOK, SessionType
<1>2. PICK d, seen :
        /\ d = CHOOSE e \in s.todo : \A f \in s.todo : e <= f
        /\ seen = IF s.seen = "unknown" THEN sub ELSE s.seen
        /\ IF sub = "deleted" \/ seen = "disabled"
             THEN /\ session' = [session EXCEPT
                       ![w].todo = @ \ {d},
                       ![w].seen = IF sub = "deleted" THEN @ ELSE seen,
                       ![w].new[d] = Dropped(session[w].old[d])]
                  /\ UNCHANGED <<posts, acked, disturbed>>
             ELSE Post(w, d, seen)
  BY DEF FlushOne
<1>3. d \in s.todo /\ d \in Deliveries
  <2>1. s.todo \in SUBSET Nat
    BY <1>1, WebhookAssumption DEF Deliveries
  <2>2. QED
    BY <1>1, <1>2, <2>1, SmallestElement
<1>4. UNCHANGED <<sub, row, operations, everOff>>
  BY DEF FlushOne
<1>5. /\ sub = "deleted" \/ seen \in {"unknown", "enabled", "disabled"}
      /\ seen = "disabled" => everOff
  BY <1>1, <1>2 DEF SessionType, SessionOK, HonestInv, TypeOK
<1>6. CASE sub # "deleted" /\ seen # "disabled"
  BY <1>2, <1>3, <1>4, <1>5, <1>6, PostKeeps
<1>7. CASE sub = "deleted" \/ seen = "disabled"
  <2>1. everOff /\ everOff' /\ UNCHANGED <<posts, acked, disturbed>>
    BY <1>2, <1>4, <1>5, <1>7 DEF HonestInv
  <2>2. Observes /\ RowsOK(row')
    BY <1>4, <2>1, Quiet, SameRowsOK
  <2> DEFINE z == IF sub = "deleted" THEN s.seen ELSE seen
             n == [s.new EXCEPT ![d] = Dropped(s.old[d])]
             s2 == [s EXCEPT !.todo = s.todo \ {d}, !.seen = z, !.new = n]
  <2>3. session' = [session EXCEPT ![w] = s2]
    <3>1. session' = [session EXCEPT
                       ![w].todo = @ \ {d},
                       ![w].seen = IF sub = "deleted" THEN @ ELSE seen,
                       ![w].new[d] = Dropped(session[w].old[d])]
      BY <1>2, <1>7
    <3>2. session' = [session EXCEPT
                       ![w].todo = @ \ {d}, ![w].seen = z,
                       ![w].new[d] = Dropped(session[w].old[d])]
      BY <1>1, <3>1 DEF SessionType
    <3> HIDE DEF z
    <3>3. QED
      BY <1>1, <3>2 DEF SessionType
  <2>4. z \in {"unknown", "enabled", "disabled"}
    BY <1>1, <1>5 DEF SessionType
  <2> HIDE DEF z
  <2>5. PICK r : r = Dropped(s.old[d])
    OBVIOUS
  <2>6. r \in Row /\ r # Null /\ Honest(r, d)'
    <3>1. PICK o : o = s.old[d]
      OBVIOUS
    <3>2. o \in Row /\ o # Null /\ Honest(o, d)
      BY <1>1, <1>3, <3>1, NullIsNoRow DEF SessionOK, SessionType
    <3>3. Honest(o, d)'
      BY <1>3, <2>2, <3>2, HonestStays
    <3>4. QED
      BY <1>3, <2>1, <2>5, <3>1, <3>2, <3>3, DroppedHonest
  <2>7. n \in [Deliveries -> Row \cup {Null}] /\ n[d] = r
        /\ \A e \in Deliveries \ {d} : n[e] = s.new[e]
    BY <1>1, <1>3, <2>5, <2>6 DEF SessionType
  <2> HIDE DEF n
  <2>8. s2 \in SessionType /\ s2.kind = s.kind /\ s2.todo = s.todo \ {d} /\ s2.seen = z
        /\ s2.old = s.old /\ s2.new = n
    BY <1>1, <2>4, <2>7 DEF SessionType
  <2> HIDE DEF s2
  <2>9. session' \in [Workers -> SessionType] /\ session'[w] = s2
        /\ \A u \in Workers \ {w} : session'[u] = session[u]
    BY <1>1, <2>3, <2>8
  <2>10. ASSUME NEW e \in Deliveries
         PROVE  /\ Honest(session[w].old[e], e)' /\ Honest(session[w].new[e], e)'
                /\ (session[w].old[e] # Null => row[e] # Null)'
                /\ (e \in session[w].todo /\ session[w].kind # "test" =>
                      session[w].old[e] # Null)'
    <3>1. PICK o, x, y : o = s.old[e] /\ x = s.new[e] /\ y = n[e]
      OBVIOUS
    <3>2. /\ Honest(o, e) /\ Honest(x, e)
          /\ o \in Row \cup {Null} /\ x \in Row \cup {Null}
          /\ o # Null => row[e] # Null
          /\ e \in s.todo /\ s.kind # "test" => o # Null
      BY <1>1, <3>1 DEF SessionOK, SessionType
    <3>3. session'[w].old[e] = o /\ session'[w].new[e] = y
      BY <2>8, <2>9, <3>1
    <3>4. Honest(o, e)' /\ Honest(y, e)'
      BY <2>2, <2>6, <2>7, <3>1, <3>2, HonestStays
    <3>5. QED
      BY <1>4, <2>8, <2>9, <3>2, <3>3, <3>4
  <2>11. SessionOK(w)'
    BY <2>1, <2>10 DEF SessionOK
  <2>12. QED
    BY <1>4, <2>1, <2>2, <2>9, <2>11, StepKeeps DEF HonestInv, TypeOK
<1>8. QED
  BY <1>6, <1>7

LEMMA SendKeeps ==
  ASSUME HonestInv, NEW w \in Workers, SendOne(w)
  PROVE  HonestInv'
<1>1. PICK d \in session[w].todo : Post(w, d, "unknown")
  BY DEF SendOne
<1>2. QED
  BY <1>1, PostKeeps DEF SendOne

LEMMA HonestStep == HonestInv /\ [Next]_vars => HonestInv'
<1> SUFFICES ASSUME HonestInv, [Next]_vars
             PROVE  HonestInv'
  OBVIOUS
<1>1. CASE UNCHANGED vars
  BY <1>1 DEF vars, HonestInv, TypeOK, SessionOK, Honest
<1>2. CASE Next
  <2>1. Loop \in Workers /\ Handlers \subseteq Workers
    BY DEF Workers
  <2>2. ASSUME NEW w \in Workers, Work(w)
        PROVE  HonestInv'
    BY <2>2, FlushKeeps, SendKeeps, CommitsKeep DEF Work
  <2>3. ASSUME NEW w \in Workers, Opens(w)
        PROVE  HonestInv'
    BY <2>3, OpensKeep
  <2>4. QED
    BY <1>2, <2>1, <2>2, <2>3, TablesKeep DEF Next, Opens
<1>3. QED
  BY <1>1, <1>2

LEMMA HonestStart == Init => HonestInv
<1>1. SUFFICES ASSUME Init
               PROVE  HonestInv
  OBVIOUS
<1>2. session \in [Workers -> SessionType]
  BY <1>1, ClosedType DEF Init
<1>3. TypeOK
  BY <1>1, <1>2, WebhookAssumption DEF Init, TypeOK, SessionType
<1>4. \A w \in Workers : SessionOK(w)
  BY <1>1, NullHonest DEF Init, Closed, SessionOK
<1>5. QED
  BY <1>1, <1>3, <1>4, NullHonest DEF Init, HonestInv

-------------------------------------------------------------------------------
(* Who holds a delivery, and where its acceptance is.                       *)

Delivers(w, d) == session[w].new[d] # Null /\ session[w].new[d].status = "delivered"

(***************************************************************************)
(* A delivery that was not disturbed is in the hands of one worker at      *)
(* most, which loaded its row while it was undecided, or made it; and its  *)
(* acceptance is in the table or in that worker's session.                 *)
(***************************************************************************)
Tracked(d) ==
  /\ \A u, w \in Workers : d \in Held(u) /\ d \in Held(w) => u = w
  /\ \A w \in Workers : d \in Held(w) =>
       IF session[w].old[d] = Null THEN row[d] = Null
       ELSE /\ row[d] # Null /\ row[d].status \in {"pending", "failed"}
            /\ session[w].old[d].status \in {"pending", "failed"}
  /\ d \in acked =>
       \/ row[d] # Null /\ row[d].status = "delivered"
       \/ \E w \in Workers : Delivers(w, d)

\* A worker without a session holds nothing, and nothing is computed for a
\* delivery that is still to do.
Ordered(w) ==
  /\ session[w].kind = "none" => Held(w) = {}
  /\ \A d \in session[w].todo : session[w].new[d] = Null

Recorded ==
  /\ \A w \in Workers : Ordered(w)
  /\ \A d \in Deliveries \ disturbed : Tracked(d)

RecordInv == HonestInv /\ Recorded

LEMMA HeldMeans ==
  ASSUME NEW w, NEW d \in Deliveries
  PROVE  /\ d \in Held(w) <=> \/ d \in session[w].todo
                              \/ session[w].old[d] # Null \/ session[w].new[d] # Null
         /\ d \in Held(w)' <=> \/ d \in session'[w].todo
                               \/ session'[w].old[d] # Null \/ session'[w].new[d] # Null
  BY DEF Held

LEMMA OrderedStays ==
  ASSUME NEW u \in Workers, session'[u] = session[u], Ordered(u)
  PROVE  Ordered(u)'
<1>1. Held(u)' = Held(u)
  BY DEF Held
<1>2. QED
  BY <1>1 DEF Ordered

\* Nobody new holds the delivery, and nothing about it is taken back.
LEMMA TrackedStays ==
  ASSUME NEW d \in Deliveries, Tracked(d),
         \A u \in Workers : d \in Held(u)' =>
           d \in Held(u) /\ session'[u].old[d] = session[u].old[d],
         \A u \in Workers : Delivers(u, d) => Delivers(u, d)',
         row[d] = Null <=> row'[d] = Null,
         row[d] # Null => row'[d].status = row[d].status,
         d \in acked' => d \in acked \/ \E u \in Workers : Delivers(u, d)'
  PROVE  Tracked(d)'
<1>1. \A u, w \in Workers : d \in Held(u)' /\ d \in Held(w)' => u = w
  BY DEF Tracked
<1>2. ASSUME NEW w \in Workers, d \in Held(w)'
      PROVE  IF session'[w].old[d] = Null THEN row'[d] = Null
             ELSE /\ row'[d] # Null /\ row'[d].status \in {"pending", "failed"}
                  /\ session'[w].old[d].status \in {"pending", "failed"}
  <2>1. d \in Held(w) /\ session'[w].old[d] = session[w].old[d]
    BY <1>2
  <2>2. QED
    BY <2>1 DEF Tracked
<1>3. d \in acked' =>
        \/ row'[d] # Null /\ row'[d].status = "delivered"
        \/ \E w \in Workers : Delivers(w, d)'
  BY DEF Tracked
<1>4. QED
  BY <1>1, <1>2, <1>3 DEF Tracked

\* Worker w is done with delivery d and has computed its row.
LEMMA MarkEffect ==
  ASSUME HonestInv, NEW w \in Workers, NEW d \in session[w].todo,
         NEW z, NEW x,
         session' = [session EXCEPT ![w].todo = @ \ {d}, ![w].seen = z, ![w].new[d] = x]
  PROVE  /\ d \in Deliveries
         /\ \A u \in Workers \ {w} : session'[u] = session[u]
         /\ session'[w].kind = session[w].kind /\ session'[w].old = session[w].old
         /\ session'[w].todo = session[w].todo \ {d}
         /\ session'[w].new[d] = x
         /\ \A e \in Deliveries \ {d} : session'[w].new[e] = session[w].new[e]
<1> DEFINE s == session[w]
           s2 == [s EXCEPT !.todo = s.todo \ {d}, !.seen = z, !.new = [s.new EXCEPT ![d] = x]]
<1>1. session \in [Workers -> SessionType] /\ s \in SessionType /\ d \in Deliveries
  BY DEF HonestInv, TypeOK, SessionType
<1>2. session' = [session EXCEPT ![w] = s2]
  BY <1>1 DEF SessionType
<1>3. /\ s2.kind = s.kind /\ s2.old = s.old /\ s2.todo = s.todo \ {d}
      /\ s2.new[d] = x /\ \A e \in Deliveries \ {d} : s2.new[e] = s.new[e]
  BY <1>1 DEF SessionType
<1>4. session'[w] = s2 /\ \A u \in Workers \ {w} : session'[u] = session[u]
  <2> HIDE DEF s2
  <2>1. QED
    BY <1>1, <1>2
<1> HIDE DEF s2
<1>5. QED
  BY <1>1, <1>3, <1>4

\* Deliveries stay with whoever holds them while one is marked; only a POST that
\* is heard to be accepted makes an accepted one.
LEMMA MarkTracks ==
  ASSUME RecordInv, NEW w \in Workers, NEW d \in session[w].todo, NEW z, NEW x \in Row,
         session' = [session EXCEPT ![w].todo = @ \ {d}, ![w].seen = z, ![w].new[d] = x],
         row' = row, disturbed \subseteq disturbed',
         \A e \in acked' \ acked : e = d /\ (x.status = "delivered" \/ d \in disturbed')
  PROVE  Recorded'
<1>1. /\ d \in Deliveries
      /\ \A u \in Workers \ {w} : session'[u] = session[u]
      /\ session'[w].kind = session[w].kind /\ session'[w].old = session[w].old
      /\ session'[w].todo = session[w].todo \ {d}
      /\ session'[w].new[d] = x
      /\ \A e \in Deliveries \ {d} : session'[w].new[e] = session[w].new[e]
  BY MarkEffect DEF RecordInv
<1>2. x # Null
  BY NullIsNoRow
<1>3. session[w].new[d] = Null /\ session[w].todo \subseteq Deliveries
  BY DEF RecordInv, Recorded, Ordered, HonestInv, TypeOK
<1>4. ASSUME NEW u \in Workers, NEW e \in Deliveries
      PROVE  /\ e \in Held(u)' <=> e \in Held(u)
             /\ session'[u].old[e] = session[u].old[e]
             /\ Delivers(u, e) => Delivers(u, e)'
  <2>1. CASE u # w
    BY <1>1, <2>1, HeldMeans DEF Delivers
  <2>2. CASE u = w /\ e # d
    BY <1>1, <2>2, HeldMeans DEF Delivers
  <2>3. CASE u = w /\ e = d
    BY <1>1, <1>2, <1>3, <2>3, HeldMeans DEF Delivers
  <2>4. QED
    BY <2>1, <2>2, <2>3
<1>5. ASSUME NEW e \in Deliveries \ disturbed'
      PROVE  Tracked(e)'
  <2>1. Tracked(e)
    BY DEF RecordInv, Recorded
  <2>2. ASSUME e \in acked', e \notin acked
        PROVE  Delivers(w, e)'
    <3>1. e = d /\ x.status = "delivered"
      BY <2>2
    <3>2. QED
      BY <1>1, <1>2, <3>1 DEF Delivers
  <2>3. QED
    BY <1>4, <2>1, <2>2, TrackedStays
<1>6. ASSUME NEW u \in Workers
      PROVE  Ordered(u)'
  <2>1. Ordered(u)
    BY DEF RecordInv, Recorded
  <2>2. CASE u # w
    BY <1>1, <2>1, <2>2, OrderedStays
  <2>3. CASE u = w
    <3>1. session[w].kind # "none"
      BY <2>1, <2>3 DEF Ordered, Held
    <3>2. \A e \in session'[w].todo : session'[w].new[e] = Null
      BY <1>1, <1>3, <2>1, <2>3 DEF Ordered
    <3>3. QED
      BY <1>1, <2>3, <3>1, <3>2 DEF Ordered
  <2>4. QED
    BY <2>2, <2>3
<1>7. QED
  BY <1>5, <1>6 DEF Recorded

LEMMA AttemptedRow ==
  ASSUME NEW r \in Row, NEW ok \in BOOLEAN
  PROVE  Attempted(r, ok) \in Row /\ (ok => Attempted(r, ok).status = "delivered")
<1>1. r.attempts \in Nat /\ r.attempts + 1 \in Nat
  BY DEF Row
<1> DEFINE n == r.attempts + 1
<1> HIDE DEF n
<1>2. n \in Nat => /\ [status |-> "delivered", attempts |-> n, next |-> "null"] \in Row
                   /\ [status |-> "dead", attempts |-> n, next |-> "null"] \in Row
                   /\ [status |-> "failed", attempts |-> n, next |-> "later"] \in Row
  BY DEF Row
<1>3. QED
  BY <1>1, <1>2 DEF Attempted, n

LEMMA PostTracks ==
  ASSUME RecordInv, NEW w \in Workers, NEW d \in session[w].todo, NEW z,
         Post(w, d, z), row' = row
  PROVE  Recorded'
<1> DEFINE base == IF session[w].old[d] = Null THEN Fresh ELSE session[w].old[d]
<1>1. PICK accepted \in BOOLEAN, heard \in BOOLEAN :
        /\ acked' = IF accepted THEN acked \cup {d} ELSE acked
        /\ disturbed' = IF accepted /\ ~heard THEN disturbed \cup {d} ELSE disturbed
        /\ session' = [session EXCEPT
             ![w].todo = @ \ {d}, ![w].seen = z,
             ![w].new[d] = Attempted(base, accepted /\ heard)]
  BY DEF Post
<1>2. base \in Row
  <2>1. session[w] \in SessionType /\ d \in Deliveries
    BY DEF RecordInv, HonestInv, TypeOK, SessionType
  <2>2. QED
    BY <2>1, FreshRow DEF SessionType
<1> HIDE DEF base
<1>3. PICK x : x = Attempted(base, accepted /\ heard)
  OBVIOUS
<1>4. x \in Row /\ (accepted /\ heard => x.status = "delivered")
  BY <1>2, <1>3, AttemptedRow
<1>5. \A e \in acked' \ acked : e = d /\ (x.status = "delivered" \/ d \in disturbed')
  BY <1>1, <1>4
<1>6. disturbed \subseteq disturbed'
  BY <1>1
<1>7. session' = [session EXCEPT ![w].todo = @ \ {d}, ![w].seen = z, ![w].new[d] = x]
  BY <1>1, <1>3
<1>8. QED
  BY <1>4, <1>5, <1>6, <1>7, MarkTracks

LEMMA FlushTracks ==
  ASSUME RecordInv, NEW w \in Workers, FlushOne(w)
  PROVE  Recorded'
<1>1. /\ session[w] \in SessionType /\ SessionOK(w)
      /\ session[w].kind = "flush" /\ session[w].todo # {}
      /\ session[w].todo \subseteq Deliveries
  BY DEF FlushOne, RecordInv, HonestInv, TypeOK, SessionType
<1>2. PICK d, seen :
        /\ d = CHOOSE e \in session[w].todo : \A f \in session[w].todo : e <= f
        /\ \/ Post(w, d, seen)
           \/ /\ session' = [session EXCEPT
                   ![w].todo = @ \ {d},
                   ![w].seen = IF sub = "deleted" THEN @ ELSE seen,
                   ![w].new[d] = Dropped(session[w].old[d])]
              /\ UNCHANGED <<posts, acked, disturbed>>
  BY DEF FlushOne
<1>3. d \in session[w].todo /\ d \in Deliveries
  <2>1. session[w].todo \in SUBSET Nat
    BY <1>1, WebhookAssumption DEF Deliveries
  <2>2. QED
    BY <1>1, <1>2, <2>1, SmallestElement
<1>4. row' = row
  BY DEF FlushOne
<1>5. CASE Post(w, d, seen)
  BY <1>3, <1>4, <1>5, PostTracks
<1>6. CASE ~Post(w, d, seen)
  <2>1. PICK z : z = IF sub = "deleted" THEN session[w].seen ELSE seen
    OBVIOUS
  <2>2. PICK x : x = Dropped(session[w].old[d])
    OBVIOUS
  <2>3. session' = [session EXCEPT ![w].todo = @ \ {d}, ![w].seen = z, ![w].new[d] = x]
    BY <1>1, <1>2, <1>6, <2>1, <2>2 DEF SessionType
  <2>4. x \in Row
    <3>1. session[w].old[d] \in Row
      BY <1>1, <1>3 DEF SessionOK, SessionType
    <3>2. QED
      BY <2>2, <3>1 DEF Dropped, Row
  <2>5. acked' = acked /\ disturbed' = disturbed
    BY <1>2, <1>6
  <2>6. QED
    BY <1>3, <1>4, <2>3, <2>4, <2>5, MarkTracks
<1>7. QED
  BY <1>5, <1>6

\* Worker w, which held nothing, takes deliveries: what another one holds is
\* disturbed, the rest was undecided or is its own.
LEMMA TakeTracks ==
  ASSUME RecordInv, NEW w \in Workers, NEW s \in SessionType,
         session' = [session EXCEPT ![w] = s],
         UNCHANGED <<row, acked>>, disturbed \subseteq disturbed',
         Held(w) = {}, s.kind # "none", \A e \in Deliveries : s.new[e] = Null,
         \A e \in Deliveries : e \in s.todo \/ s.old[e] # Null =>
           \/ e \in disturbed'
           \/ /\ \A u \in Workers : e \notin Held(u)
              /\ IF s.old[e] = Null THEN row[e] = Null
                 ELSE s.old[e] = row[e] /\ row[e].status \in {"pending", "failed"}
  PROVE  Recorded'
<1>1. session'[w] = s /\ \A u \in Workers \ {w} : session'[u] = session[u]
  BY DEF RecordInv, HonestInv, TypeOK
<1>2. s.todo \subseteq Deliveries
  BY DEF SessionType
<1>3. ASSUME NEW e \in Deliveries, NEW u \in Workers
      PROVE  /\ u # w => /\ e \in Held(u)' <=> e \in Held(u)
                         /\ session'[u].old[e] = session[u].old[e]
             /\ e \in Held(w)' <=> e \in s.todo \/ s.old[e] # Null
             /\ Delivers(u, e) => Delivers(u, e)'
  <2>1. e \in Held(w)' <=> e \in s.todo \/ s.old[e] # Null
    BY <1>1, HeldMeans
  <2>2. u # w => e \in Held(u)' <=> e \in Held(u)
    BY <1>1, HeldMeans
  <2>3. Delivers(u, e) => Delivers(u, e)'
    BY <1>1, HeldMeans DEF Delivers
  <2>4. QED
    BY <1>1, <2>1, <2>2, <2>3
<1>4. ASSUME NEW e \in Deliveries \ disturbed'
      PROVE  Tracked(e)'
  <2>1. Tracked(e)
    BY DEF RecordInv, Recorded
  <2>2. CASE e \notin Held(w)'
    BY <1>3, <2>1, <2>2, TrackedStays
  <2>3. CASE e \in Held(w)'
    <3>1. /\ \A u \in Workers : e \notin Held(u)
          /\ IF s.old[e] = Null THEN row[e] = Null
             ELSE s.old[e] = row[e] /\ row[e].status \in {"pending", "failed"}
      BY <1>3, <2>3
    <3>2. \A u \in Workers : e \in Held(u)' => u = w
      BY <1>3, <3>1
    <3>3. s.old[e] # Null => row'[e] # Null /\ row'[e].status \in {"pending", "failed"}
                             /\ s.old[e].status \in {"pending", "failed"}
      BY <3>1
    <3>4. e \in acked' =>
            \/ row'[e] # Null /\ row'[e].status = "delivered"
            \/ \E u \in Workers : Delivers(u, e)'
      BY <1>3, <2>1 DEF Tracked
    <3>5. QED
      BY <1>1, <3>1, <3>2, <3>3, <3>4 DEF Tracked
  <2>4. QED
    BY <2>2, <2>3
<1>5. ASSUME NEW u \in Workers
      PROVE  Ordered(u)'
  <2>1. Ordered(u)
    BY DEF RecordInv, Recorded
  <2>2. CASE u # w
    BY <1>1, <2>1, <2>2, OrderedStays
  <2>3. CASE u = w
    BY <1>1, <1>2, <2>3 DEF Ordered
  <2>4. QED
    BY <2>2, <2>3
<1>6. QED
  BY <1>4, <1>5 DEF Recorded

\* What remains in the hands of workers when w closes its session.
LEMMA CloseEffect ==
  ASSUME RecordInv, NEW w \in Workers, session' = [session EXCEPT ![w] = Closed]
  PROVE  /\ \A u \in Workers : Ordered(u)'
         /\ \A u \in Workers, e \in Deliveries :
              /\ e \in Held(u)' <=> u # w /\ e \in Held(u)
              /\ u # w => /\ session'[u].old[e] = session[u].old[e]
                          /\ Delivers(u, e) <=> Delivers(u, e)'
<1>1. session'[w] = Closed /\ \A u \in Workers \ {w} : session'[u] = session[u]
  BY DEF RecordInv, HonestInv, TypeOK
<1>2. Closed.todo = {} /\ \A e \in Deliveries : Closed.old[e] = Null /\ Closed.new[e] = Null
  BY DEF Closed
<1>3. Held(w)' = {}
  BY <1>1, <1>2 DEF Held
<1>4. ASSUME NEW u \in Workers
      PROVE  Ordered(u)'
  <2>1. Ordered(u)
    BY DEF RecordInv, Recorded
  <2>2. CASE u # w
    BY <1>1, <2>1, <2>2, OrderedStays
  <2>3. CASE u = w
    BY <1>1, <1>2, <1>3, <2>3 DEF Ordered
  <2>4. QED
    BY <2>2, <2>3
<1>5. ASSUME NEW u \in Workers, NEW e \in Deliveries
      PROVE  /\ e \in Held(u)' <=> u # w /\ e \in Held(u)
             /\ u # w => /\ session'[u].old[e] = session[u].old[e]
                         /\ Delivers(u, e) <=> Delivers(u, e)'
  <2>1. CASE u = w
    BY <1>3, <2>1
  <2>2. CASE u # w
    BY <1>1, <2>2, HeldMeans DEF Delivers
  <2>3. QED
    BY <2>1, <2>2
<1>6. QED
  BY <1>4, <1>5

LEMMA FailTracks ==
  ASSUME RecordInv, NEW w \in Workers, Fail(w)
  PROVE  Recorded'
<1>1. /\ \A u \in Workers : Ordered(u)'
      /\ \A u \in Workers, e \in Deliveries :
           /\ e \in Held(u)' <=> u # w /\ e \in Held(u)
           /\ u # w => /\ session'[u].old[e] = session[u].old[e]
                       /\ Delivers(u, e) <=> Delivers(u, e)'
  BY CloseEffect DEF Fail
<1>2. ASSUME NEW e \in Deliveries \ disturbed'
      PROVE  Tracked(e)'
  <2>1. Tracked(e) /\ ~Delivers(w, e)
    BY DEF RecordInv, Recorded, Fail, DeliveredBy, Delivers
  <2>2. row' = row /\ acked' = acked
    BY DEF Fail
  <2>3. QED
    BY <1>1, <2>1, <2>2, TrackedStays
<1>3. QED
  BY <1>1, <1>2 DEF Recorded

LEMMA StartFlushTracks ==
  ASSUME RecordInv, NEW w \in Workers, StartFlush(w), UNCHANGED <<row, acked>>
  PROVE  Recorded'
<1> DEFINE loaded == [d \in Deliveries |-> IF d \in Batch THEN row[d] ELSE Null]
           s == [Closed EXCEPT !.kind = "flush", !.todo = Batch, !.old = loaded]
<1>1. Batch \subseteq Deliveries
      /\ \A d \in Batch : row[d] # Null /\ row[d].status \in {"pending", "failed"}
  BY DEF Batch, Due
<1>2. /\ loaded \in [Deliveries -> Row \cup {Null}]
      /\ \A d \in Deliveries : loaded[d] # Null <=> d \in Batch
      /\ \A d \in Batch : loaded[d] = row[d]
  BY <1>1 DEF RecordInv, HonestInv, TypeOK
<1>3. session' = [session EXCEPT ![w] = s]
  BY DEF StartFlush
<1> HIDE DEF loaded
<1>4. s \in SessionType
  BY <1>1, <1>2, ClosedType DEF Closed, SessionType
<1>5. s.kind = "flush" /\ s.todo = Batch /\ s.old = loaded
      /\ \A d \in Deliveries : s.new[d] = Null
  BY DEF Closed
<1> HIDE DEF s
<1>6. Held(w) = {}
  BY DEF RecordInv, Recorded, Ordered, StartFlush
<1>7. disturbed \subseteq disturbed'
      /\ \A d \in Batch : d \in disturbed' \/ \A u \in Workers : d \notin Held(u)
  BY DEF StartFlush
<1>8. \A e \in Deliveries : e \in s.todo \/ s.old[e] # Null =>
           \/ e \in disturbed'
           \/ /\ \A u \in Workers : e \notin Held(u)
              /\ IF s.old[e] = Null THEN row[e] = Null
                 ELSE s.old[e] = row[e] /\ row[e].status \in {"pending", "failed"}
  BY <1>1, <1>2, <1>5, <1>7
<1>9. QED
  BY <1>3, <1>4, <1>5, <1>6, <1>7, <1>8, TakeTracks

LEMMA StartRedeliverTracks ==
  ASSUME RecordInv, NEW w \in Workers, NEW d \in Deliveries, StartRedeliver(w, d)
  PROVE  Recorded'
<1> DEFINE loaded == [e \in Deliveries |-> IF e = d THEN row[d] ELSE Null]
           s == [Closed EXCEPT !.kind = "redeliver", !.todo = {d}, !.old = loaded]
<1>1. loaded \in [Deliveries -> Row \cup {Null}]
      /\ \A e \in Deliveries \ {d} : loaded[e] = Null
  BY DEF RecordInv, HonestInv, TypeOK
<1>2. s = [Closed EXCEPT !.kind = "redeliver", !.todo = {d}, !.old[d] = row[d]]
  BY DEF Closed
<1>3. session' = [session EXCEPT ![w] = s]
  BY <1>2 DEF StartRedeliver
<1> HIDE DEF loaded
<1>4. s \in SessionType
  BY <1>1, ClosedType DEF Closed, SessionType
<1>5. s.kind = "redeliver" /\ s.todo = {d} /\ s.old = loaded
      /\ \A e \in Deliveries : s.new[e] = Null
  BY DEF Closed
<1> HIDE DEF s
<1>6. Held(w) = {}
  BY DEF RecordInv, Recorded, Ordered, StartRedeliver
<1>7. disturbed \subseteq disturbed' /\ d \in disturbed'
  BY DEF StartRedeliver
<1>8. \A e \in Deliveries : e \in s.todo \/ s.old[e] # Null => e \in disturbed'
  BY <1>1, <1>5, <1>7
<1>9. UNCHANGED <<row, acked>>
  BY DEF StartRedeliver
<1>10. QED
  BY <1>3, <1>4, <1>5, <1>6, <1>7, <1>8, <1>9, TakeTracks

LEMMA StartTestTracks ==
  ASSUME RecordInv, NEW w \in Workers, NEW d \in Deliveries, StartTest(w, d)
  PROVE  Recorded'
<1> DEFINE s == [Closed EXCEPT !.kind = "test", !.todo = {d}]
<1>1. s \in SessionType
  BY ClosedType DEF Closed, SessionType
<1>2. s.kind = "test" /\ s.todo = {d}
      /\ \A e \in Deliveries : s.new[e] = Null /\ s.old[e] = Null
  BY DEF Closed
<1>3. session' = [session EXCEPT ![w] = s]
  BY DEF StartTest
<1> HIDE DEF s
<1>4. Held(w) = {}
  BY DEF RecordInv, Recorded, Ordered, StartTest
<1>5. row[d] = Null /\ \A u \in Workers : d \notin Held(u)
  BY DEF StartTest, Unused
<1>6. \A e \in Deliveries : e \in s.todo \/ s.old[e] # Null =>
           /\ \A u \in Workers : e \notin Held(u)
           /\ IF s.old[e] = Null THEN row[e] = Null
              ELSE s.old[e] = row[e] /\ row[e].status \in {"pending", "failed"}
  BY <1>2, <1>5
<1>7. UNCHANGED <<row, acked, disturbed>>
  BY DEF StartTest
<1>8. QED
  BY <1>1, <1>2, <1>3, <1>4, <1>6, <1>7, TakeTracks

\* A new row for a delivery that nobody has.
LEMMA UnusedTracked ==
  ASSUME NEW d \in Unused, Tracked(d), acked' = acked,
         \A u \in Workers : d \notin Held(u)'
  PROVE  Tracked(d)'
<1>1. d \in Deliveries /\ row[d] = Null /\ \A u \in Workers : ~Delivers(u, d)
  BY HeldMeans DEF Unused, Delivers
<1>2. d \notin acked
  BY <1>1 DEF Tracked
<1>3. QED
  BY <1>2 DEF Tracked

\* FanOut adds a row to r for an unused delivery at most.
LEMMA FanOutAdds ==
  ASSUME NEW r, DOMAIN r = Deliveries, r = [d \in Deliveries |-> r[d]], FanOut(r)
  PROVE  \A e \in Deliveries : e \in Unused \/ row'[e] = r[e]
<1>1. CASE row' = r
  BY <1>1
<1>2. ASSUME NEW d \in Unused, row' = [r EXCEPT ![d] = Fresh]
      PROVE  \A e \in Deliveries : e \in Unused \/ row'[e] = r[e]
  BY <1>2
<1>3. QED
  BY <1>1, <1>2 DEF FanOut

LEMMA TablesTrack ==
  ASSUME RecordInv,
         \/ Event
         \/ \E state \in {"enabled", "disabled", "deleted"} : UpdateSubscription(state)
         \/ \E d \in Deliveries : BackoffEnds(d)
  PROVE  Recorded'
<1>1. UNCHANGED <<session, acked, disturbed>>
  BY DEF Event, UpdateSubscription, BackoffEnds
<1>2. row \in [Deliveries -> Row \cup {Null}]
  BY DEF RecordInv, HonestInv, TypeOK
<1>3. \A e \in Deliveries : \/ e \in Unused
                            \/ /\ row[e] = Null <=> row'[e] = Null
                               /\ row[e] # Null => row'[e].status = row[e].status
  <2>1. CASE Event
    BY <1>2, <2>1 DEF Event
  <2>2. CASE \E state \in {"enabled", "disabled", "deleted"} : UpdateSubscription(state)
    BY <1>2, <2>2, FanOutAdds DEF UpdateSubscription
  <2>3. ASSUME NEW d \in Deliveries, BackoffEnds(d)
        PROVE  \A e \in Deliveries : /\ row[e] = Null <=> row'[e] = Null
                                     /\ row[e] # Null => row'[e].status = row[e].status
    <3> DEFINE r == [row[d] EXCEPT !.next = "due"]
    <3>1. row[d] \in Row /\ row[d] # Null
      BY <1>2, <2>3 DEF BackoffEnds
    <3>2. r \in Row /\ r.status = row[d].status
      BY <3>1 DEF Row
    <3>3. row' = [row EXCEPT ![d] = r]
      BY <2>3 DEF BackoffEnds
    <3> HIDE DEF r
    <3>4. QED
      BY <1>2, <3>1, <3>2, <3>3, NullIsNoRow
  <2>4. QED
    BY <2>1, <2>2, <2>3
<1>4. \A u \in Workers : Ordered(u)'
  BY <1>1 DEF RecordInv, Recorded, Ordered, Held
<1>5. \A u \in Workers : Held(u)' = Held(u)
  BY <1>1 DEF Held
<1>6. ASSUME NEW e \in Deliveries \ disturbed'
      PROVE  Tracked(e)'
  <2>1. Tracked(e)
    BY <1>1 DEF RecordInv, Recorded
  <2>2. CASE e \in Unused
    BY <1>1, <1>5, <2>1, <2>2, UnusedTracked DEF Unused
  <2>3. CASE e \notin Unused
    BY <1>1, <1>3, <1>5, <2>1, <2>3, TrackedStays DEF Delivers
  <2>4. QED
    BY <2>2, <2>3
<1>7. QED
  BY <1>4, <1>6 DEF Recorded

\* A COMMIT records the acceptance that the session knows of; the rest of the
\* table keeps its status.
LEMMA CommitsTrack ==
  ASSUME RecordInv, NEW w \in Workers, CommitFlush(w) \/ CommitSend(w)
  PROVE  Recorded'
<1> DEFINE r == [d \in Deliveries |-> Written(w, d)]
<1>1. session' = [session EXCEPT ![w] = Closed] /\ acked' = acked /\ disturbed' = disturbed
  BY DEF CommitFlush, CommitSend
<1>2. /\ \A u \in Workers : Ordered(u)'
      /\ \A u \in Workers, e \in Deliveries :
           /\ e \in Held(u)' <=> u # w /\ e \in Held(u)
           /\ u # w => /\ session'[u].old[e] = session[u].old[e]
                       /\ Delivers(u, e) <=> Delivers(u, e)'
  BY <1>1, CloseEffect
<1>3. row' = r \/ FanOut(r)
  BY DEF CommitFlush, CommitSend
<1>4. \A e \in Deliveries : r[e] = Written(w, e)
  OBVIOUS
<1>5. DOMAIN r = Deliveries /\ r = [d \in Deliveries |-> r[d]]
  OBVIOUS
<1> HIDE DEF r
<1>6. \A e \in Deliveries : e \in Unused \/ row'[e] = Written(w, e)
  BY <1>3, <1>4, <1>5, FanOutAdds
<1>7. ASSUME NEW e \in Deliveries \ disturbed'
      PROVE  Tracked(e)'
  <2>1. Tracked(e) /\ e \in Deliveries
    BY <1>1 DEF RecordInv, Recorded
  <2>2. CASE e \in Unused
    BY <1>1, <1>2, <2>1, <2>2, UnusedTracked DEF Unused
  <2>3. CASE e \notin Unused /\ e \notin Held(w)
    <3>1. row'[e] = row[e]
      BY <1>6, <2>1, <2>3, HeldMeans DEF Written
    <3>2. \A u \in Workers : Delivers(u, e) => Delivers(u, e)'
      BY <1>2, <2>1, <2>3, HeldMeans DEF Delivers
    <3>3. QED
      BY <1>1, <1>2, <2>1, <3>1, <3>2, TrackedStays
  <2>4. CASE e \in Held(w)
    <3>1. \A u \in Workers : e \notin Held(u)'
      BY <1>2, <2>1, <2>4 DEF Tracked
    <3>2. row'[e] = Written(w, e)
      BY <1>6, <2>1, <2>4 DEF Unused
    <3>3. ASSUME e \in acked
          PROVE  row'[e] # Null /\ row'[e].status = "delivered"
      <4>1. Delivers(w, e)
        <5>1. \E u \in Workers : Delivers(u, e)
          BY <2>1, <2>4, <3>3 DEF Tracked
        <5>2. \A u \in Workers : Delivers(u, e) => u = w
          BY <2>1, <2>4, HeldMeans DEF Tracked, Delivers
        <5>3. QED
          BY <5>1, <5>2
      <4>2. session[w].old[e] # Null => session[w].old[e].status # "delivered"
        BY <2>1, <2>4 DEF Tracked
      <4>3. Written(w, e).status = "delivered"
        BY <4>1, <4>2 DEF Written, Delivers
      <4>4. Written(w, e) # Null
        <5>1. CASE session[w].old[e] = Null
          BY <4>1, <5>1 DEF Written, Delivers
        <5>2. CASE session[w].old[e] # Null
          BY <2>1, <2>4, <5>2, WrittenHonest DEF Tracked, RecordInv
        <5>3. QED
          BY <5>1, <5>2
      <4>5. QED
        BY <3>2, <4>3, <4>4
    <3>4. QED
      BY <1>1, <3>1, <3>3 DEF Tracked
  <2>5. QED
    BY <2>2, <2>3, <2>4
<1>8. QED
  BY <1>2, <1>7 DEF Recorded

LEMMA RecordStep == RecordInv /\ [Next]_vars => RecordInv'
<1> SUFFICES ASSUME RecordInv, [Next]_vars
             PROVE  RecordInv'
  OBVIOUS
<1>1. HonestInv'
  BY HonestStep DEF RecordInv
<1>2. CASE UNCHANGED vars
  <2>1. Recorded'
    BY <1>2 DEF vars, RecordInv, Recorded, Ordered, Tracked, Held, Delivers
  <2>2. QED
    BY <1>1, <2>1 DEF RecordInv
<1>3. CASE Next
  <2> SUFFICES Recorded'
    BY <1>1 DEF RecordInv
  <2>1. Loop \in Workers /\ Handlers \subseteq Workers
    BY DEF Workers
  <2>2. ASSUME NEW w \in Workers, Work(w)
        PROVE  Recorded'
    <3>1. CASE SendOne(w)
      BY <3>1, PostTracks DEF SendOne
    <3>2. QED
      BY <2>2, <3>1, FlushTracks, CommitsTrack DEF Work
  <2>3. CASE LoopWakes
    <3>1. StartFlush(Loop) /\ UNCHANGED <<row, acked>>
      BY <2>3 DEF LoopWakes
    <3>2. QED
      BY <2>1, <3>1, StartFlushTracks
  <2>4. ASSUME NEW w \in Handlers, Request(w)
        PROVE  Recorded'
    <3>1. CASE ManualFlush(w)
      BY <2>1, <3>1, StartFlushTracks DEF ManualFlush
    <3>2. QED
      BY <2>1, <2>4, <3>1, StartRedeliverTracks, StartTestTracks DEF Request
  <2>5. ASSUME NEW w \in Workers, Fail(w)
        PROVE  Recorded'
    BY <2>5, FailTracks
  <2>6. CASE \/ Event
             \/ \E state \in {"enabled", "disabled", "deleted"} : UpdateSubscription(state)
             \/ \E d \in Deliveries : BackoffEnds(d)
    BY <2>6, TablesTrack
  <2>7. QED
    BY <1>3, <2>2, <2>3, <2>4, <2>5, <2>6 DEF Next
<1>4. QED
  BY <1>2, <1>3

LEMMA RecordStart == Init => RecordInv
<1>1. SUFFICES ASSUME Init
               PROVE  Recorded
  BY HonestStart DEF RecordInv
<1>2. \A w \in Workers : session[w] = Closed
  BY <1>1 DEF Init
<1>3. Closed.todo = {} /\ \A e \in Deliveries : Closed.old[e] = Null /\ Closed.new[e] = Null
  BY DEF Closed
<1>4. \A w \in Workers : Held(w) = {}
  BY <1>2, <1>3 DEF Held
<1>5. \A w \in Workers : Ordered(w)
  BY <1>2, <1>3, <1>4 DEF Ordered
<1>6. acked = {}
  BY <1>1 DEF Init
<1>7. QED
  BY <1>4, <1>5, <1>6 DEF Recorded, Tracked

\* A delivery that a worker still has to do and nobody disturbed was not accepted
\* yet.
LEMMA ToDoIsOpen ==
  ASSUME RecordInv, NEW w \in Workers, NEW d \in session[w].todo, d \notin disturbed
  PROVE  d \notin acked
<1>1. d \in Deliveries /\ Tracked(d) /\ session[w].new[d] = Null
  BY DEF RecordInv, Recorded, Ordered, HonestInv, TypeOK
<1>2. d \in Held(w)
  BY <1>1, HeldMeans
<1>3. ~(row[d] # Null /\ row[d].status = "delivered")
  BY <1>1, <1>2 DEF Tracked
<1>4. \A u \in Workers : ~Delivers(u, d)
  BY <1>1, <1>2, HeldMeans DEF Tracked, Delivers
<1>5. QED
  BY <1>1, <1>3, <1>4 DEF Tracked

-------------------------------------------------------------------------------
(* Theorems.                                                                *)

\* The rows and sessions keep their types (app/webhooks.py, section 22 of
\* main.py).
THEOREM TypeCorrect == Spec => []TypeOK
<1>1. HonestInv => TypeOK
  BY DEF HonestInv
<1>2. QED
  BY <1>1, HonestStart, HonestStep, PTL DEF Spec

\* A delivery on record as delivered was accepted, for any number of workers,
\* deliveries and attempts (_deliver_one, flush_due).
THEOREM DeliveredWasAcked == Spec => []DeliveredMeansAcked
<1>1. HonestInv => DeliveredMeansAcked
  BY DEF HonestInv, Honest, DeliveredMeansAcked
<1>2. QED
  BY <1>1, HonestStart, HonestStep, PTL DEF Spec

\* No attempt is on record that was not made (_deliver_one).
THEOREM AttemptsWereReal == Spec => []AttemptsWereMade
<1>1. HonestInv => AttemptsWereMade
  BY DEF HonestInv, Honest, AttemptsWereMade
<1>2. QED
  BY <1>1, HonestStart, HonestStep, PTL DEF Spec

\* Nothing is given up before its last attempt while the subscription is on
\* (flush_due, _deliver_one).
THEOREM DeadForAReason == Spec => []GivenUpForAReason
<1>1. HonestInv => GivenUpForAReason
  BY DEF HonestInv, Honest, GivenUpForAReason
<1>2. QED
  BY <1>1, HonestStart, HonestStep, PTL DEF Spec

\* No delivery is sent again behind the user's back: after its acceptance an
\* undisturbed delivery is never POSTed, for any number of workers, deliveries and
\* batch sizes (flush_due, redeliver).
THEOREM SentOnce == Spec => SentAgainForAReason
<1>1. ASSUME RecordInv, [Next]_vars
      PROVE  \A d \in acked \ disturbed : posts'[d] = posts[d]
  <2>1. posts \in [Deliveries -> Nat] /\ acked \subseteq Deliveries
        /\ \A w \in Workers : session[w].todo \in SUBSET Deliveries
    BY <1>1 DEF RecordInv, HonestInv, TypeOK
  <2>2. ASSUME NEW w \in Workers, NEW d \in session[w].todo, NEW z, Post(w, d, z)
        PROVE  \A e \in acked \ disturbed : posts'[e] = posts[e]
    <3>1. d \notin acked \ disturbed
      BY <1>1, ToDoIsOpen
    <3>2. posts' = [posts EXCEPT ![d] = @ + 1]
      BY <2>2 DEF Post
    <3>3. QED
      BY <2>1, <3>1, <3>2
  <2>3. ASSUME NEW w \in Workers, FlushOne(w)
        PROVE  \A e \in acked \ disturbed : posts'[e] = posts[e]
    <3>1. PICK d, z :
            /\ d = CHOOSE e \in session[w].todo : \A f \in session[w].todo : e <= f
            /\ Post(w, d, z) \/ UNCHANGED posts
      BY <2>3 DEF FlushOne
    <3>2. d \in session[w].todo
      <4>1. session[w].todo \subseteq Deliveries
        BY <2>1
      <4>2. session[w].todo \in SUBSET Nat
        BY <4>1, WebhookAssumption DEF Deliveries
      <4>3. session[w].todo # {}
        BY <2>3 DEF FlushOne
      <4>4. QED
        BY <3>1, <4>2, <4>3, SmallestElement
    <3>3. QED
      BY <2>2, <3>1, <3>2
  <2>4. ASSUME NEW w \in Workers, SendOne(w)
        PROVE  \A e \in acked \ disturbed : posts'[e] = posts[e]
    BY <2>2, <2>4 DEF SendOne
  <2>5. CASE \E w \in Workers : Work(w)
    BY <2>3, <2>4, <2>5 DEF Work, CommitFlush, CommitSend
  <2>6. CASE ~ \E w \in Workers : Work(w)
    BY <1>1, <2>6 DEF Next, vars, LoopWakes, Event, Fail, Request, ManualFlush, StartRedeliver,
                      StartTest, UpdateSubscription, BackoffEnds
  <2>7. QED
    BY <2>5, <2>6
<1>2. QED
  BY <1>1, RecordStart, RecordStep, PTL DEF Spec, SentAgainForAReason

\* No stale session takes a decision back: an undisturbed delivery that is
\* delivered or dead stays so (flush_due, _deliver_one).
THEOREM SettledStays == Spec => SettledForGood
<1> DEFINE Settled(d) == row[d] # Null /\ row[d].status \in {"delivered", "dead"}
<1>1. ASSUME RecordInv, [Next]_vars, NEW d \in Deliveries \ disturbed, Settled(d)
      PROVE  row'[d] # Null /\ row'[d].status = row[d].status
  <2>1. row \in [Deliveries -> Row \cup {Null}] /\ Tracked(d)
    BY <1>1 DEF RecordInv, Recorded, HonestInv, TypeOK
  <2>2. \A w \in Workers : d \notin Held(w)
    BY <1>1, <2>1 DEF Tracked
  <2>3. d \notin Unused
    BY <1>1 DEF Unused
  <2>4. ASSUME NEW w \in Workers
        PROVE  Written(w, d) = row[d]
    BY <2>2, HeldMeans DEF Written
  <2>5. ASSUME NEW r, r = row \/ \E w \in Workers : r = [e \in Deliveries |-> Written(w, e)],
               FanOut(r) \/ row' = r
        PROVE  row'[d] = row[d]
    <3>1. r[d] = row[d]
      BY <2>4, <2>5
    <3>2. DOMAIN r = Deliveries /\ r = [e \in Deliveries |-> r[e]]
      BY <2>1, <2>5
    <3>3. QED
      BY <2>3, <2>5, <3>1, <3>2, FanOutAdds
  <2>6. CASE UNCHANGED vars \/ LoopWakes
    BY <1>1, <2>6 DEF vars, LoopWakes
  <2>7. CASE Event
    BY <1>1, <2>1, <2>3, <2>7 DEF Event
  <2>8. ASSUME NEW w \in Workers, Work(w)
        PROVE  row'[d] = row[d]
    <3>1. CASE FlushOne(w) \/ SendOne(w)
      BY <3>1 DEF FlushOne, SendOne
    <3>2. CASE CommitFlush(w) \/ CommitSend(w)
      <4> DEFINE r == [e \in Deliveries |-> Written(w, e)]
      <4>1. FanOut(r) \/ row' = r
        BY <3>2 DEF CommitFlush, CommitSend
      <4>2. r = [e \in Deliveries |-> Written(w, e)]
        OBVIOUS
      <4> HIDE DEF r
      <4>3. QED
        BY <2>5, <4>1, <4>2
    <3>3. QED
      BY <2>8, <3>1, <3>2 DEF Work
  <2>9. ASSUME NEW state, UpdateSubscription(state)
        PROVE  row'[d] = row[d]
    <3>1. FanOut(row)
      BY <2>9 DEF UpdateSubscription
    <3>2. QED
      BY <2>5, <3>1
  <2>10. ASSUME NEW e \in Deliveries, BackoffEnds(e)
         PROVE  row'[d] # Null /\ row'[d].status = row[d].status
    <3> DEFINE r == [row[e] EXCEPT !.next = "due"]
    <3>1. row[e] \in Row /\ row[e] # Null
      BY <2>1, <2>10 DEF BackoffEnds
    <3>2. r \in Row /\ r.status = row[e].status
      BY <3>1 DEF Row
    <3>3. row' = [row EXCEPT ![e] = r]
      BY <2>10 DEF BackoffEnds
    <3> HIDE DEF r
    <3>4. QED
      BY <1>1, <2>1, <3>2, <3>3, NullIsNoRow
  <2>11. ASSUME NEW w \in Workers, Fail(w) \/ Request(w)
         PROVE  row' = row
    BY <2>11 DEF Fail, Request, ManualFlush, StartRedeliver, StartTest
  <2>12. Handlers \subseteq Workers
    BY DEF Workers
  <2>13. QED
    BY <1>1, <2>6, <2>7, <2>8, <2>9, <2>10, <2>11, <2>12 DEF Next
<1>2. RecordInv /\ [Next]_vars =>
        \A d \in Deliveries \ disturbed :
          row[d] # Null /\ row[d].status \in {"delivered", "dead"}
            => row'[d] # Null /\ row'[d].status = row[d].status
  BY <1>1
<1>3. QED
  BY <1>2, RecordStart, RecordStep, PTL DEF Spec, SettledForGood
=============================================================================
