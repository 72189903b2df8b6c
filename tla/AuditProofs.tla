------------------------------ MODULE AuditProofs ------------------------------
(***************************************************************************)
(* Theorems about AuditChain for all values of its constants.              *)
(***************************************************************************)
EXTENDS AuditChain, NumberLemmas, SequenceTheorems, TLAPS

LEMMA FunctionIsSeq ==
  ASSUME NEW S, NEW n \in Nat, NEW f \in [1..n -> S]
  PROVE  f \in Seq(S) /\ Len(f) = n /\ DOMAIN f = 1..n
  BY SeqDef, LenProperties

ThreadType ==
  [pc : {"idle", "open", "inserted"}, kind : Kinds \cup {"none"}, prevs : Seq(Hashes),
   rows : SUBSET Nat]

\* What a handler holds: as many predecessors as it asked for, and rows of its
\* own kind that are not committed.
HandlerOK(t) ==
  LET s == thread[t]
  IN /\ s.pc # "idle" => s.kind \in Kinds
     /\ Len(s.prevs) <= Activities(s.kind)
     /\ s.pc # "inserted" => s.rows = {}
     /\ \A r \in s.rows : r \in DOMAIN table /\ table[r].kind = s.kind

\* A row has the id it was given as its record, until it is edited.
TypeInv ==
  /\ TypeOK
  /\ thread \in [Threads -> ThreadType]
  /\ \A t \in Threads : HandlerOK(t)

LEMMA TableFacts ==
  ASSUME TypeInv
  PROVE  /\ Len(table) \in Nat /\ DOMAIN table = 1..Len(table) /\ MaxEvents \in Nat
         /\ table \in [1..Len(table) -> Row]
         /\ \A i \in DOMAIN table : /\ i \in Nat /\ table[i] \in Row
                                    /\ table[i].hash \in Hashes
                                    /\ table[i].record \in 0..MaxEvents
<1>1. table \in Seq(Row) /\ MaxEvents \in Nat
  BY AuditAssumption DEF TypeInv, TypeOK
<1>2. Len(table) \in Nat /\ DOMAIN table = 1..Len(table) /\ table \in [1..Len(table) -> Row]
  BY <1>1, LenProperties
<1>3. QED
  BY <1>1, <1>2 DEF Row

Below(i) == {j \in Live : j < i}
Latest(S) == CHOOSE j \in S : \A k \in S : k <= j

LEMMA TailForm ==
  \A i : /\ TailBefore(i) = IF Below(i) = {} THEN Genesis ELSE table[Latest(Below(i))].hash
         /\ TailBefore(i)' = IF Below(i)' = {} THEN Genesis ELSE table'[Latest(Below(i)')].hash
  BY DEF TailBefore, Below, Latest

\* The last committed event before i: one of them, if there is one.
LEMMA TailIs ==
  ASSUME TypeInv, NEW i \in Nat
  PROVE  /\ TailBefore(i) \in Hashes
         /\ Below(i) # {} => Latest(Below(i)) \in Live /\ Latest(Below(i)) < i
<1>1. CASE Below(i) = {}
  BY <1>1, TailForm, EmptySeq DEF Genesis, Hashes
<1>2. CASE Below(i) # {}
  <2>1. Below(i) \in SUBSET Nat /\ \A n \in Below(i) : n <= i
    BY TableFacts DEF Live, Below
  <2>2. Latest(Below(i)) \in Below(i)
    <3>1. \E m \in Below(i) : \A n \in Below(i) : n <= m
      BY <1>2, <2>1, LargestElement
    <3>2. QED
      BY <3>1 DEF Latest
  <2>3. QED
    BY <1>2, <2>2, TailForm, TableFacts DEF Below, Live
<1>3. QED
  BY <1>1, <1>2

\* The tail is what the committed events before i and their hashes make it.
LEMMA SameTail ==
  ASSUME TypeInv, NEW i \in Nat,
         \A j \in Nat : j < i => (j \in Live' <=> j \in Live),
         \A j \in Live : j < i => table'[j].hash = table[j].hash,
         DOMAIN table' \subseteq Nat
  PROVE  TailBefore(i)' = TailBefore(i)
<1>1. Below(i)' = Below(i)
  BY TableFacts DEF Live, Below
<1>2. QED
  BY <1>1, TailForm, TailIs

-------------------------------------------------------------------------------
(* Types.                                                                   *)

LEMMA Kinds2 ==
  /\ \A kind : Activities(kind) \in {1, 2}
  /\ Activities("pair") = 2 /\ \A kind : kind # "pair" => Activities(kind) = 1
  BY DEF Activities

\* What a step must show: the table grows, and its rows keep their kinds.
TableGrows ==
  /\ table' \in Seq(Row) /\ Len(table') <= MaxEvents /\ Len(table) <= Len(table')
  /\ \A i \in DOMAIN table : table'[i].kind = table[i].kind

LEMMA StepKeepsTypes ==
  ASSUME TypeInv, TableGrows, NEW t \in Threads, NEW s \in ThreadType,
         thread' = [thread EXCEPT ![t] = s], HandlerOK(t)',
         writer' \in Threads \cup {Nobody}, edits' = edits
  PROVE  TypeInv'
<1>1. thread' \in [Threads -> ThreadType] /\ thread'[t] = s
      /\ \A u \in Threads \ {t} : thread'[u] = thread[u]
  BY DEF TypeInv
<1>2. DOMAIN table \subseteq DOMAIN table'
  <2>1. DOMAIN table' = 1..Len(table') /\ Len(table') \in Nat
    BY LenProperties DEF TableGrows
  <2>2. QED
    BY <2>1, TableFacts DEF TableGrows
<1>3. ASSUME NEW u \in Threads \ {t}
      PROVE  HandlerOK(u)'
  BY <1>1, <1>2 DEF TypeInv, HandlerOK, TableGrows
<1>4. \A u \in Threads : HandlerOK(u)'
  BY <1>3
<1>5. ASSUME NEW u \in Threads
      PROVE  (/\ thread[u].pc \in {"idle", "open", "inserted"}
              /\ thread[u].prevs \in Seq(Hashes) /\ Len(thread[u].prevs) <= 2
              /\ thread[u].rows \subseteq DOMAIN table)'
  <2>1. thread'[u] \in ThreadType /\ HandlerOK(u)'
    BY <1>1, <1>4
  <2>2. Len(thread'[u].prevs) \in Nat
    BY <2>1 DEF ThreadType
  <2>3. QED
    BY <2>1, <2>2, Kinds2 DEF ThreadType, HandlerOK
<1>6. TypeOK'
  BY <1>5 DEF TypeOK, TableGrows, TypeInv
<1>7. QED
  BY <1>1, <1>4, <1>6 DEF TypeInv

LEMMA SameTable == TypeInv /\ UNCHANGED table => TableGrows
<1>1. TypeInv => Len(table) \in Nat
  BY TableFacts
<1>2. QED
  BY <1>1 DEF TypeInv, TypeOK, TableGrows

LEMMA WriterType ==
  ASSUME TypeInv, NEW t \in Threads, Lock(t) \/ writer' = Unlocked(t) \/ UNCHANGED writer
  PROVE  writer' \in Threads \cup {Nobody}
  BY DEF Lock, Unlocked, TypeInv, TypeOK

LEMMA IdleType == Idle \in ThreadType
  BY EmptySeq DEF Idle, ThreadType

LEMMA BeginType ==
  ASSUME TypeInv, NEW t \in Threads, NEW kind \in Kinds, Begin(t, kind)
  PROVE  TypeInv'
<1> DEFINE s == [Idle EXCEPT !.pc = "open", !.kind = kind]
<1>1. s \in ThreadType /\ s.pc = "open" /\ s.kind = kind /\ s.prevs = <<>> /\ s.rows = {}
  BY IdleType DEF Idle, ThreadType
<1>2. thread' = [thread EXCEPT ![t] = s] /\ thread'[t] = s
  BY DEF Begin, TypeInv
<1>3. UNCHANGED <<table, edits>>
  BY DEF Begin
<1> HIDE DEF s
<1>4. HandlerOK(t)'
  <2>1. Len(s.prevs) = 0 /\ 0 <= Activities(kind)
    BY <1>1, EmptySeq, Kinds2
  <2>2. QED
    BY <1>1, <1>2, <2>1 DEF HandlerOK
<1>5. writer' \in Threads \cup {Nobody}
  BY WriterType DEF Begin
<1>6. QED
  BY <1>1, <1>2, <1>3, <1>4, <1>5, SameTable, StepKeepsTypes

LEMMA ActivityType ==
  ASSUME TypeInv, NEW t \in Threads, Activity(t)
  PROVE  /\ TypeInv'
         /\ thread'[t] = [thread[t] EXCEPT !.prevs = Append(thread[t].prevs, CommittedTail)]
<1> DEFINE q == Append(thread[t].prevs, CommittedTail)
           s == [thread[t] EXCEPT !.prevs = q]
<1>1. thread[t] \in ThreadType /\ HandlerOK(t) /\ thread[t].pc = "open"
  BY DEF TypeInv, Activity
<1>2. CommittedTail \in Hashes
  <2>1. Len(table) + 1 \in Nat
    BY TableFacts
  <2>2. QED
    BY <2>1, TailIs DEF CommittedTail
<1>3. q \in Seq(Hashes) /\ Len(q) = Len(thread[t].prevs) + 1 /\ Len(thread[t].prevs) \in Nat
  BY <1>1, <1>2 DEF ThreadType
<1>4. Len(q) <= Activities(thread[t].kind)
  BY <1>3, Kinds2 DEF Activity
<1> HIDE DEF q
<1>5. s \in ThreadType /\ s.pc = "open" /\ s.kind = thread[t].kind /\ s.prevs = q
      /\ s.rows = thread[t].rows
  BY <1>1, <1>3 DEF ThreadType
<1>6. thread' = [thread EXCEPT ![t] = s] /\ thread'[t] = s
  BY DEF Activity, TypeInv, q
<1>7. UNCHANGED <<table, writer, edits>>
  BY DEF Activity
<1> HIDE DEF s
<1>8. HandlerOK(t)'
  BY <1>1, <1>4, <1>5, <1>6, <1>7 DEF HandlerOK
<1>9. TypeInv'
  BY <1>5, <1>6, <1>7, <1>8, SameTable, WriterType, StepKeepsTypes
<1>10. QED
  BY <1>6, <1>9 DEF s, q

LEMMA RollbackType ==
  ASSUME TypeInv, NEW t \in Threads, Rollback(t)
  PROVE  TypeInv'
<1>1. thread' = [thread EXCEPT ![t] = Idle] /\ thread'[t] = Idle /\ UNCHANGED <<table, edits>>
  BY DEF Rollback, TypeInv
<1>2. HandlerOK(t)'
  <2>1. Len(<<>>) = 0 /\ 0 <= Activities("none")
    BY EmptySeq, Kinds2
  <2>2. QED
    BY <1>1, <2>1 DEF HandlerOK, Idle
<1>3. writer' \in Threads \cup {Nobody}
  BY WriterType DEF Rollback
<1>4. QED
  BY <1>1, <1>2, <1>3, IdleType, SameTable, StepKeepsTypes

\* The rows that the flush of t appends.
Appended(t, k) ==
  [record |-> Len(table) + k, hash |-> compute_hash(thread[t].prevs[k], Len(table) + k),
   kind |-> thread[t].kind, live |-> FALSE]

LEMMA InsertFacts ==
  ASSUME TypeInv, NEW t \in Threads, Insert(t)
  PROVE  LET n == Len(table)
             m == Len(thread[t].prevs)
         IN /\ m \in Nat /\ m = Activities(thread[t].kind) /\ n + m <= MaxEvents
            /\ table' \in Seq(Row) /\ Len(table') = n + m /\ DOMAIN table' = 1..(n + m)
            /\ \A i \in DOMAIN table : table'[i] = table[i]
            /\ \A k \in 1..m : table'[n + k] = Appended(t, k)
<1> DEFINE n == Len(table)
           prevs == thread[t].prevs
           m == Len(prevs)
           added == [k \in 1..m |-> Appended(t, k)]
<1>1. thread[t] \in ThreadType /\ HandlerOK(t) /\ thread[t].pc = "open" /\ m = Activities(thread[t].kind)
      /\ n + m <= MaxEvents /\ table' = table \o added
  BY DEF TypeInv, Insert, Appended
<1>2. n \in Nat /\ m \in Nat /\ MaxEvents \in Nat /\ DOMAIN table = 1..n /\ table \in Seq(Row)
      /\ prevs \in [1..m -> Hashes] /\ thread[t].kind \in Kinds
  BY <1>1, TableFacts, LenProperties DEF ThreadType, HandlerOK, TypeInv, TypeOK
<1> HIDE DEF n, m, prevs
<1>3. ASSUME NEW k \in 1..m
      PROVE  Appended(t, k) \in Row
  <2>1. n + k \in 1..MaxEvents
    BY <1>1, <1>2
  <2>2. prevs[k] \in Seq(1..MaxEvents)
    BY <1>2 DEF Hashes
  <2>3. compute_hash(prevs[k], n + k) \in Hashes
    BY <2>1, <2>2 DEF compute_hash, Hashes
  <2>4. Appended(t, k) = [record |-> n + k, hash |-> compute_hash(prevs[k], n + k),
                          kind |-> thread[t].kind, live |-> FALSE]
    BY DEF Appended, n, prevs
  <2>5. QED
    BY <1>2, <2>1, <2>3, <2>4 DEF Row
<1>4. added \in [1..m -> Row]
  BY <1>3
<1> HIDE DEF Row
<1>5. added \in Seq(Row) /\ Len(added) = m /\ \A k \in 1..m : added[k] = Appended(t, k)
  BY <1>2, <1>4, FunctionIsSeq
<1> HIDE DEF added
<1>6. /\ table' \in Seq(Row) /\ Len(table') = n + m
      /\ \A i \in 1..(n + m) : table'[i] = IF i <= n THEN table[i] ELSE added[i - n]
  <2>1. Len(table) = n
    BY DEF n
  <2>2. /\ table \o added \in Seq(Row) /\ Len(table \o added) = Len(table) + Len(added)
        /\ \A i \in 1..(Len(table) + Len(added)) :
             (table \o added)[i] = IF i <= Len(table) THEN table[i] ELSE added[i - Len(table)]
    BY <1>2, <1>5, ConcatProperties
  <2>3. QED
    BY <1>1, <1>5, <2>1, <2>2
<1>7. DOMAIN table' = 1..(n + m)
  BY <1>6, LenProperties
<1>8. ASSUME NEW j \in DOMAIN table
      PROVE  table'[j] = table[j]
  BY <1>2, <1>6
<1>9. ASSUME NEW k \in 1..m
      PROVE  table'[n + k] = Appended(t, k)
  <2>1. n + k \in 1..(n + m) /\ ~(n + k <= n) /\ (n + k) - n = k
    BY <1>2
  <2>2. QED
    BY <1>5, <1>6, <2>1
<1>10. QED
  BY <1>1, <1>2, <1>6, <1>7, <1>8, <1>9 DEF n, m, prevs

LEMMA InsertType ==
  ASSUME TypeInv, NEW t \in Threads, Insert(t)
  PROVE  TypeInv'
<1> DEFINE n == Len(table)
           m == Len(thread[t].prevs)
           R == (n + 1)..(n + m)
           s == [thread[t] EXCEPT !.pc = "inserted", !.rows = R]
<1>1. thread[t] \in ThreadType /\ HandlerOK(t) /\ n \in Nat /\ DOMAIN table = 1..n
  BY TableFacts DEF TypeInv
<1>2. /\ m \in Nat /\ m = Activities(thread[t].kind) /\ n + m <= MaxEvents
      /\ table' \in Seq(Row) /\ Len(table') = n + m /\ DOMAIN table' = 1..(n + m)
      /\ \A i \in DOMAIN table : table'[i] = table[i]
      /\ \A k \in 1..m : table'[n + k] = Appended(t, k)
  BY InsertFacts
<1>3. thread' = [thread EXCEPT ![t] = s]
  BY DEF Insert
<1> HIDE DEF n, m
<1>4. TableGrows
  BY <1>1, <1>2 DEF TableGrows, n
<1>5. R \subseteq Nat /\ R \subseteq DOMAIN table'
  BY <1>1, <1>2
<1>6. ASSUME NEW r \in R
      PROVE  table'[r].kind = thread[t].kind
  <2>1. r - n \in 1..m /\ n + (r - n) = r
    BY <1>1, <1>2
  <2>2. table'[r] = Appended(t, r - n)
    BY <1>2, <2>1
  <2>3. QED
    BY <2>2 DEF Appended
<1> HIDE DEF R
<1>7. s \in ThreadType /\ s.pc = "inserted" /\ s.kind = thread[t].kind
      /\ s.prevs = thread[t].prevs /\ s.rows = R
  BY <1>1, <1>5 DEF ThreadType
<1>8. thread'[t] = s
  BY <1>3 DEF TypeInv
<1> HIDE DEF s
<1>9. HandlerOK(t)'
  <2>1. thread[t].kind \in Kinds /\ Len(thread[t].prevs) <= Activities(thread[t].kind)
    BY <1>1 DEF HandlerOK, Insert
  <2>2. QED
    BY <1>5, <1>6, <1>7, <1>8, <2>1 DEF HandlerOK
<1>10. writer' \in Threads \cup {Nobody} /\ edits' = edits
  BY WriterType DEF Insert
<1>11. QED
  BY <1>3, <1>4, <1>7, <1>9, <1>10, StepKeepsTypes

\* COMMIT makes rows visible, an edit changes one record; both keep the rest.
LEMMA CommitFacts ==
  ASSUME TypeInv, NEW t \in Threads, Commit(t)
  PROVE  /\ table' \in Seq(Row) /\ Len(table') = Len(table) /\ DOMAIN table' = DOMAIN table
         /\ \A i \in DOMAIN table :
              /\ table'[i].hash = table[i].hash /\ table'[i].record = table[i].record
              /\ table'[i].kind = table[i].kind
              /\ table'[i].live <=> (i \in thread[t].rows \/ table[i].live)
<1> DEFINE f(i) == IF i \in thread[t].rows THEN [table[i] EXCEPT !.live = TRUE] ELSE table[i]
<1>1. ASSUME NEW i \in DOMAIN table
      PROVE  /\ f(i) \in Row
             /\ f(i).hash = table[i].hash /\ f(i).record = table[i].record
             /\ f(i).kind = table[i].kind
             /\ f(i).live <=> (i \in thread[t].rows \/ table[i].live)
  <2>1. table[i] \in Row
    BY TableFacts
  <2>2. CASE i \in thread[t].rows
    <3>1. [table[i] EXCEPT !.live = TRUE] \in Row
      BY <2>1 DEF Row
    <3>2. QED
      BY <2>1, <2>2, <3>1 DEF Row
  <2>3. CASE i \notin thread[t].rows
    BY <2>1, <2>3
  <2>4. QED
    BY <2>2, <2>3
<1>2. table' = [i \in DOMAIN table |-> f(i)] /\ DOMAIN table = 1..Len(table) /\ Len(table) \in Nat
  BY TableFacts DEF Commit
<1> HIDE DEF f, Row
<1>3. table' \in [1..Len(table) -> Row]
  BY <1>1, <1>2
<1>4. table' \in Seq(Row) /\ Len(table') = Len(table) /\ DOMAIN table' = DOMAIN table
  BY <1>2, <1>3, FunctionIsSeq
<1>5. \A i \in DOMAIN table : table'[i] = f(i)
  BY <1>2
<1>6. QED
  BY <1>1, <1>4, <1>5

LEMMA EditFacts ==
  ASSUME TypeInv, NEW e \in Live, Edit(e)
  PROVE  /\ table' \in Seq(Row) /\ Len(table') = Len(table) /\ DOMAIN table' = DOMAIN table
         /\ \A i \in DOMAIN table :
              /\ table'[i].hash = table[i].hash /\ table'[i].kind = table[i].kind
              /\ table'[i].live = table[i].live
              /\ i # e => table'[i].record = table[i].record
         /\ table'[e].record = Edited
<1> DEFINE r == [table[e] EXCEPT !.record = Edited]
<1>1. e \in DOMAIN table /\ table[e] \in Row /\ table \in Seq(Row) /\ MaxEvents \in Nat
  BY TableFacts DEF Live, TypeInv, TypeOK
<1>2. r \in Row /\ r.hash = table[e].hash /\ r.kind = table[e].kind /\ r.live = table[e].live
      /\ r.record = Edited
  BY <1>1 DEF Row, Edited
<1>3. table' = [table EXCEPT ![e] = r]
  BY DEF Edit
<1>4. e \in 1..Len(table) /\ DOMAIN table = 1..Len(table)
  BY <1>1, TableFacts
<1> HIDE DEF r, Row
<1>5. table' \in Seq(Row) /\ Len(table') = Len(table)
  BY <1>1, <1>2, <1>3, <1>4, ExceptSeq
<1>6. DOMAIN table' = DOMAIN table /\ \A i \in DOMAIN table : table'[i] = IF i = e THEN r ELSE table[i]
  BY <1>1, <1>3
<1>7. QED
  BY <1>1, <1>2, <1>5, <1>6

LEMMA CommitType ==
  ASSUME TypeInv, NEW t \in Threads, Commit(t)
  PROVE  TypeInv'
<1>1. thread' = [thread EXCEPT ![t] = Idle] /\ thread'[t] = Idle /\ UNCHANGED edits
  BY DEF Commit, TypeInv
<1>2. HandlerOK(t)'
  <2>1. Len(<<>>) = 0 /\ 0 <= Activities("none")
    BY EmptySeq, Kinds2
  <2>2. QED
    BY <1>1, <2>1 DEF HandlerOK, Idle
<1>3. writer' \in Threads \cup {Nobody}
  BY WriterType DEF Commit
<1>4. TableGrows
  <2>1. Len(table) <= MaxEvents /\ Len(table) <= Len(table)
    BY TableFacts DEF TypeInv, TypeOK
  <2>2. QED
    BY <2>1, CommitFacts DEF TableGrows
<1>5. QED
  BY <1>1, <1>2, <1>3, <1>4, IdleType, StepKeepsTypes

LEMMA EditType ==
  ASSUME TypeInv, NEW e \in Live, Edit(e)
  PROVE  TypeInv'
<1>1. Len(table) <= MaxEvents
  BY DEF TypeInv, TypeOK
<1>2. UNCHANGED <<thread, writer>>
  BY DEF Edit
<1>3. edits' \in 0..MaxEdits
  BY AuditAssumption DEF Edit, TypeInv, TypeOK
<1>4. TypeOK'
  BY <1>1, <1>2, <1>3, EditFacts DEF TypeInv, TypeOK
<1>5. \A u \in Threads : HandlerOK(u)'
  BY <1>2, EditFacts DEF TypeInv, HandlerOK
<1>6. QED
  BY <1>2, <1>4, <1>5 DEF TypeInv

LEMMA TypeStep == TypeInv /\ [Next]_vars => TypeInv'
<1> SUFFICES ASSUME TypeInv, [Next]_vars
             PROVE  TypeInv'
  OBVIOUS
<1>1. CASE UNCHANGED vars
  BY <1>1 DEF vars, TypeInv, TypeOK, HandlerOK
<1>2. ASSUME NEW t \in Threads, Handler(t)
      PROVE  TypeInv'
  BY <1>2, BeginType, ActivityType, InsertType, CommitType, RollbackType DEF Handler
<1>3. QED
  BY <1>1, <1>2, EditType DEF Next

LEMMA TypeInit == Init => TypeInv
<1>1. SUFFICES ASSUME Init
               PROVE  TypeInv
  OBVIOUS
<1>2. thread \in [Threads -> ThreadType] /\ \A t \in Threads : thread[t] = Idle
  BY <1>1, IdleType DEF Init
<1>3. table = <<>> /\ table \in Seq(Row) /\ Len(table) = 0
  BY <1>1, EmptySeq DEF Init
<1>4. Idle.prevs = <<>> /\ <<>> \in Seq(Hashes) /\ Len(<<>>) = 0 /\ Idle.rows = {}
      /\ Idle.pc = "idle"
  BY EmptySeq DEF Idle
<1>5. TypeOK
  <2>1. ASSUME NEW t \in Threads
        PROVE  /\ thread[t].pc \in {"idle", "open", "inserted"}
               /\ thread[t].prevs \in Seq(Hashes) /\ Len(thread[t].prevs) <= 2
               /\ thread[t].rows \subseteq DOMAIN table
    <3>1. thread[t].prevs = <<>> /\ thread[t].rows = {} /\ thread[t].pc = "idle"
      BY <1>2, <1>4
    <3>2. Len(thread[t].prevs) = 0 /\ thread[t].prevs \in Seq(Hashes)
      BY <1>4, <3>1
    <3>3. QED
      BY <3>1, <3>2
  <2>2. Len(table) <= MaxEvents /\ 0 \in 0..MaxEdits
    BY <1>3, AuditAssumption
  <2>3. QED
    BY <1>1, <1>3, <2>1, <2>2 DEF Init, TypeOK
<1>6. \A t \in Threads : HandlerOK(t)
  <2>1. \A kind : 0 <= Activities(kind)
    BY Kinds2
  <2>2. QED
    BY <1>2, <1>4, <2>1 DEF HandlerOK
<1>7. QED
  BY <1>2, <1>5, <1>6 DEF TypeInv

\* The chain keeps its types (_activity, app/hashchain.py).
THEOREM TypeCorrect == Spec => []TypeOK
<1>1. TypeInv => TypeOK
  BY DEF TypeInv
<1>2. QED
  BY <1>1, TypeInit, TypeStep, PTL DEF Spec

\* A hash covers the record it was computed of, so one that was edited never
\* matches: an edit is flagged on either database, however many forks the chain
\* has (compute_hash, verify_chain).
THEOREM EditsAreFlagged == Spec => []EditIsFlagged
<1>1. TypeInv => EditIsFlagged
  <2> SUFFICES ASSUME TypeInv, NEW i \in Live, table[i].record = Edited
               PROVE  i \in Broken
    BY DEF EditIsFlagged
  <2>1. i \in Nat /\ table[i].hash \in Hashes /\ MaxEvents \in Nat
    BY TableFacts DEF Live
  <2>2. TailBefore(i) \in Hashes
    BY <2>1, TailIs
  <2> DEFINE h == TailBefore(i)
             g == table[i].hash
  <2> HIDE DEF h, g
  <2>3. h \in Seq(1..MaxEvents) /\ g \in Seq(1..MaxEvents)
    BY <2>1, <2>2 DEF Hashes, h, g
  <2>4. Len(Append(h, Edited)) = Len(h) + 1 /\ Append(h, Edited)[Len(h) + 1] = Edited
        /\ Len(h) \in Nat
    BY <2>3
  <2>5. g # Append(h, Edited)
    <3>1. SUFFICES ASSUME g = Append(h, Edited)
                   PROVE  FALSE
      OBVIOUS
    <3>2. Len(h) + 1 \in 1..Len(g) /\ g[Len(h) + 1] = Edited
      BY <2>4, <3>1
    <3>3. g[Len(h) + 1] \in 1..MaxEvents
      BY <2>3, <3>2, ElementOfSeq
    <3>4. QED
      BY <2>1, <3>2, <3>3 DEF Edited
  <2>6. QED
    BY <2>5 DEF Broken, compute_hash, h, g
<1>2. QED
  BY <1>1, TypeInit, TypeStep, PTL DEF Spec

-------------------------------------------------------------------------------
(* On SQLite the lock keeps the tail where a handler read it.               *)

\* A locked handler read the tail of its own transaction; the rows it inserted
\* are behind all that is committed, and the one of a locked handler is linked.
LinkOK(t) ==
  LET s == thread[t]
  IN /\ s.pc = "open" /\ s.kind # "plain" => writer = t
     /\ s.pc = "open" /\ s.kind = "locked" /\ s.prevs # <<>> => s.prevs[1] = CommittedTail
     /\ s.pc = "inserted" =>
          /\ writer = t
          /\ \A r \in s.rows, j \in Live : j < r
          /\ s.kind = "locked" =>
               \A r \in s.rows : /\ s.rows = {r}
                                 /\ table[r].hash = compute_hash(TailBefore(r), table[r].record)

LinkInv == LockedEventsLink /\ \A t \in Threads : LinkOK(t)

\* An event is intact if its hash is the one recomputed.
Intact(i) == table[i].hash = compute_hash(TailBefore(i), table[i].record)

\* Whoever waits for the lock leaves the table and the lock alone.
LEMMA LockExcludes ==
  ASSUME TypeInv, LinkInv, Isolation = "sqlite",
         NEW t \in Threads, Handler(t), NEW u \in Threads \ {t}, writer = u
  PROVE  UNCHANGED <<table, writer>>
<1>1. ~CanWrite(t)
  BY AuditAssumption DEF CanWrite
<1>2. thread[t].pc # "inserted"
  BY DEF LinkInv, LinkOK
<1>3. CASE \E kind \in Kinds : Begin(t, kind)
  BY <1>1, <1>3 DEF Begin
<1>4. CASE Rollback(t)
  BY <1>4 DEF Rollback, Unlocked
<1>5. QED
  BY <1>1, <1>2, <1>3, <1>4 DEF Handler, Activity, Insert, Commit

\* What a step of t leaves to the other handlers.
LEMMA OthersLinked ==
  ASSUME TypeInv, LinkInv, Isolation = "sqlite",
         NEW t \in Threads, Handler(t), NEW u \in Threads \ {t}
  PROVE  LinkOK(u)'
<1>1. thread'[u] = thread[u]
  BY DEF Handler, Begin, Activity, Insert, Commit, Rollback, TypeInv
<1>2. CASE writer = u
  <2>1. UNCHANGED <<table, writer>>
    BY <1>2, LockExcludes
  <2>2. LinkOK(u)
    BY DEF LinkInv
  <2>3. Live' = Live /\ CommittedTail' = CommittedTail
        /\ \A i \in Nat : TailBefore(i)' = TailBefore(i)
    BY <2>1 DEF CommittedTail, TailBefore, Live
  <2>4. \A r \in thread[u].rows : r \in Nat
    BY DEF TypeInv, ThreadType
  <2>5. QED
    BY <1>1, <2>1, <2>2, <2>3, <2>4 DEF LinkOK
<1>3. CASE writer # u
  <2>1. thread[u].pc # "inserted" /\ (thread[u].pc = "open" => thread[u].kind = "plain")
    BY <1>3 DEF LinkInv, LinkOK
  <2>2. QED
    BY <1>1, <2>1 DEF LinkOK
<1>4. QED
  BY <1>2, <1>3

LEMMA BeginLinks ==
  ASSUME TypeInv, LinkInv, Isolation = "sqlite",
         NEW t \in Threads, NEW kind \in Kinds, Begin(t, kind)
  PROVE  LinkOK(t)'
<1>1. thread'[t] = [Idle EXCEPT !.pc = "open", !.kind = kind]
  BY DEF Begin, TypeInv
<1>2. thread'[t].pc = "open" /\ thread'[t].kind = kind /\ thread'[t].prevs = <<>>
  BY <1>1 DEF Idle
<1>3. kind # "plain" => writer' = t
  BY DEF Begin, Lock
<1>4. QED
  BY <1>2, <1>3 DEF LinkOK

LEMMA ActivityLinks ==
  ASSUME TypeInv, LinkInv, NEW t \in Threads, Activity(t)
  PROVE  LinkOK(t)'
<1> DEFINE s == thread[t]
<1>1. s \in ThreadType /\ HandlerOK(t) /\ LinkOK(t) /\ s.pc = "open"
      /\ Len(s.prevs) < Activities(s.kind)
  BY DEF TypeInv, LinkInv, Activity
<1>2. thread'[t] = [s EXCEPT !.prevs = Append(s.prevs, CommittedTail)]
  BY ActivityType
<1>3. /\ thread'[t].pc = "open" /\ thread'[t].kind = s.kind
      /\ thread'[t].prevs = Append(s.prevs, CommittedTail)
  BY <1>1, <1>2 DEF ThreadType
<1>4. UNCHANGED <<table, writer>>
  BY DEF Activity
<1>5. CommittedTail' = CommittedTail
  BY <1>4 DEF CommittedTail, TailBefore, Live
<1>6. s.kind = "locked" => thread'[t].prevs[1] = CommittedTail
  <2>1. SUFFICES ASSUME s.kind = "locked"
                 PROVE  thread'[t].prevs[1] = CommittedTail
    OBVIOUS
  <2>2. s.prevs \in Seq(Hashes) /\ Len(s.prevs) \in Nat
    BY <1>1 DEF ThreadType
  <2>3. Len(s.prevs) = 0
    BY <1>1, <2>1, <2>2, Kinds2
  <2>4. Append(s.prevs, CommittedTail)[Len(s.prevs) + 1] = CommittedTail
    BY <2>2
  <2>5. QED
    BY <1>3, <2>3, <2>4
<1>7. QED
  BY <1>1, <1>3, <1>4, <1>5, <1>6 DEF LinkOK

\* New rows are not committed yet, and nobody's tail changes.
LEMMA InsertKeepsTails ==
  ASSUME TypeInv, NEW t \in Threads, Insert(t)
  PROVE  /\ Live' = Live
         /\ \A i \in Nat : TailBefore(i)' = TailBefore(i)
<1> DEFINE n == Len(table)
           m == Len(thread[t].prevs)
<1>1. n \in Nat /\ DOMAIN table = 1..n
  BY TableFacts
<1>2. /\ m \in Nat /\ DOMAIN table' = 1..(n + m)
      /\ \A i \in DOMAIN table : table'[i] = table[i]
      /\ \A k \in 1..m : table'[n + k] = Appended(t, k)
  BY InsertFacts
<1> HIDE DEF n, m
<1>3. ASSUME NEW i \in DOMAIN table', i \notin DOMAIN table
      PROVE  ~table'[i].live
  <2>1. i - n \in 1..m /\ n + (i - n) = i
    BY <1>1, <1>2, <1>3
  <2>2. table'[i] = Appended(t, i - n)
    BY <1>2, <2>1
  <2>3. QED
    BY <2>2 DEF Appended
<1>4. DOMAIN table \subseteq DOMAIN table'
  BY <1>1, <1>2
<1>5. Live' = Live
  BY <1>2, <1>3, <1>4 DEF Live
<1>6. \A j \in Live : table'[j] = table[j]
  BY <1>2 DEF Live
<1>7. DOMAIN table' \subseteq Nat
  BY <1>1, <1>2
<1>8. QED
  BY <1>5, <1>6, <1>7, SameTail

LEMMA InsertLinks ==
  ASSUME TypeInv, LinkInv, Isolation = "sqlite", NEW t \in Threads, Insert(t)
  PROVE  LinkOK(t)'
<1> DEFINE s == thread[t]
           n == Len(table)
           m == Len(s.prevs)
           R == (n + 1)..(n + m)
<1>1. /\ s \in ThreadType /\ LinkOK(t) /\ s.pc = "open" /\ m = Activities(s.kind)
      /\ writer' = t
  BY DEF TypeInv, LinkInv, Insert, Lock
<1>2. n \in Nat /\ DOMAIN table = 1..n /\ m \in Nat
      /\ \A k \in 1..m : table'[n + k] = Appended(t, k)
  BY TableFacts, InsertFacts
<1>3. thread'[t] = [s EXCEPT !.pc = "inserted", !.rows = R]
  BY DEF Insert, TypeInv
<1> HIDE DEF R
<1>4. thread'[t].pc = "inserted" /\ thread'[t].rows = R /\ thread'[t].kind = s.kind
  BY <1>1, <1>3 DEF ThreadType
<1>5. Live' = Live /\ \A i \in Nat : TailBefore(i)' = TailBefore(i)
  BY InsertKeepsTails
<1>6. \A r \in R, j \in Live : j < r
  <2> HIDE DEF n, m
  <2>1. \A j \in Live : j \in Nat /\ j <= n
    BY <1>2 DEF Live
  <2>2. \A r \in R : r \in Nat /\ r >= n + 1
    BY <1>2 DEF R
  <2>3. ASSUME NEW r \in R, NEW j \in Live
        PROVE  j < r
    BY <1>2, <2>1, <2>2
  <2>4. QED
    BY <2>3
<1>7. ASSUME s.kind = "locked", NEW r \in R
      PROVE  /\ R = {r}
             /\ table'[r].hash = compute_hash(TailBefore(r)', table'[r].record)
  <2>1. m = 1 /\ R = {n + 1} /\ r = n + 1
    BY <1>1, <1>2, <1>7, Kinds2 DEF R
  <2>2. table'[r] = Appended(t, 1)
    BY <1>2, <2>1
  <2>3. table'[r].record = r /\ table'[r].hash = compute_hash(s.prevs[1], r)
    BY <2>1, <2>2 DEF Appended
  <2>4. s.prevs # <<>>
    BY <2>1, EmptySeq
  <2>5. s.prevs[1] = CommittedTail
    BY <1>1, <1>7, <2>4 DEF LinkOK
  <2>6. CommittedTail = TailBefore(r)'
    BY <1>2, <1>5, <2>1 DEF CommittedTail
  <2>7. QED
    BY <2>1, <2>3, <2>5, <2>6
<1>8. QED
  BY <1>1, <1>4, <1>5, <1>6, <1>7 DEF LinkOK

\* No step gets in before a committed event, or touches its hash.
EventsStay ==
  \A i \in Live : /\ i \in Live' /\ TailBefore(i)' = TailBefore(i)
                  /\ table'[i].hash = table[i].hash /\ table'[i].kind = table[i].kind

LEMMA CommitTails ==
  ASSUME TypeInv, LinkInv, NEW t \in Threads, Commit(t)
  PROVE  /\ EventsStay
         /\ Live' = Live \cup thread[t].rows
         /\ \A r \in thread[t].rows : thread[t].rows = {r} => TailBefore(r)' = TailBefore(r)
<1> DEFINE R == thread[t].rows
<1>1. LinkOK(t) /\ HandlerOK(t) /\ thread[t].pc = "inserted"
  BY DEF LinkInv, TypeInv, Commit
<1>2. R \subseteq DOMAIN table /\ \A r \in R, j \in Live : j < r
  BY <1>1 DEF HandlerOK, LinkOK
<1>3. /\ DOMAIN table' = DOMAIN table /\ DOMAIN table \subseteq Nat
      /\ \A i \in DOMAIN table :
           /\ table'[i].hash = table[i].hash /\ table'[i].kind = table[i].kind
           /\ table'[i].live <=> (i \in R \/ table[i].live)
  BY CommitFacts, TableFacts
<1> HIDE DEF R
<1>4. Live' = Live \cup R
  BY <1>2, <1>3 DEF Live
<1>5. \A j \in Live : table'[j].hash = table[j].hash /\ table'[j].kind = table[j].kind
  BY <1>3 DEF Live
<1>6. ASSUME NEW i \in Live
      PROVE  TailBefore(i)' = TailBefore(i)
  <2>1. i \in Nat /\ \A r \in R : r \in Nat /\ i < r
    BY <1>2, <1>3 DEF Live
  <2>2. \A j \in Nat : j < i => (j \in Live' <=> j \in Live)
    BY <1>4, <2>1
  <2>3. QED
    BY <1>3, <1>5, <2>1, <2>2, SameTail
<1>7. ASSUME NEW r \in R, R = {r}
      PROVE  TailBefore(r)' = TailBefore(r)
  <2>1. r \in Nat
    BY <1>2, <1>3
  <2>2. \A j \in Nat : j < r => (j \in Live' <=> j \in Live)
    BY <1>4, <1>7, <2>1
  <2>3. QED
    BY <1>3, <1>5, <2>1, <2>2, SameTail
<1>8. QED
  BY <1>4, <1>5, <1>6, <1>7 DEF EventsStay, R

LEMMA EditTails ==
  ASSUME TypeInv, NEW e \in Live, Edit(e)
  PROVE  /\ EventsStay /\ Live' = Live
         /\ \A i \in Nat : TailBefore(i)' = TailBefore(i)
         /\ CommittedTail' = CommittedTail
<1>1. /\ Len(table') = Len(table) /\ DOMAIN table' = DOMAIN table /\ DOMAIN table \subseteq Nat
      /\ Len(table) + 1 \in Nat
      /\ \A i \in DOMAIN table :
           /\ table'[i].hash = table[i].hash /\ table'[i].kind = table[i].kind
           /\ table'[i].live = table[i].live
  BY EditFacts, TableFacts
<1>2. Live' = Live /\ \A j \in Live : table'[j].hash = table[j].hash /\ table'[j].kind = table[j].kind
  BY <1>1 DEF Live
<1>3. \A i \in Nat : TailBefore(i)' = TailBefore(i)
  BY <1>1, <1>2, SameTail
<1>4. CommittedTail' = CommittedTail
  BY <1>1, <1>3 DEF CommittedTail
<1>5. Live \subseteq Nat
  BY <1>1 DEF Live
<1>6. QED
  BY <1>2, <1>3, <1>4, <1>5 DEF EventsStay

LEMMA InsertStays ==
  ASSUME TypeInv, NEW t \in Threads, Insert(t)
  PROVE  EventsStay
<1>1. \A i \in DOMAIN table : table'[i] = table[i]
  BY InsertFacts
<1>2. Live \subseteq Nat
  BY TableFacts DEF Live
<1>3. QED
  BY <1>1, <1>2, InsertKeepsTails DEF EventsStay, Live

LEMMA IdleStays ==
  ASSUME TypeInv, UNCHANGED table
  PROVE  EventsStay /\ Live' = Live
<1>1. Live' = Live /\ \A i \in Live : TailBefore(i)' = TailBefore(i)
  BY DEF TailBefore, Live
<1>2. QED
  BY <1>1 DEF EventsStay

LEMMA AllStay ==
  ASSUME TypeInv, LinkInv, Isolation = "sqlite", [Next]_vars
  PROVE  EventsStay
<1>1. CASE UNCHANGED vars
  BY <1>1, IdleStays DEF vars
<1>2. ASSUME NEW t \in Threads, Handler(t)
      PROVE  EventsStay
  BY <1>2, IdleStays, InsertStays, CommitTails DEF Handler, Begin, Activity, Rollback
<1>3. QED
  BY <1>1, <1>2, EditTails DEF Next

LEMMA LinkStep == Isolation = "sqlite" /\ TypeInv /\ LinkInv /\ [Next]_vars => LinkInv'
<1> SUFFICES ASSUME Isolation = "sqlite", TypeInv, LinkInv, [Next]_vars
             PROVE  LinkInv'
  OBVIOUS
<1>1. CASE UNCHANGED vars
  <2>1. UNCHANGED <<table, thread, writer>>
    BY <1>1 DEF vars
  <2>2. Live' = Live /\ CommittedTail' = CommittedTail /\ Broken' = Broken
        /\ \A i : TailBefore(i)' = TailBefore(i)
    BY <2>1 DEF Live, CommittedTail, TailBefore, Broken
  <2>3. QED
    BY <2>1, <2>2 DEF LinkInv, LinkOK, LockedEventsLink
<1>2. ASSUME NEW e \in Live, Edit(e)
      PROVE  LinkInv'
  <2>1. /\ Live' = Live /\ \A i \in Nat : TailBefore(i)' = TailBefore(i)
        /\ CommittedTail' = CommittedTail
    BY <1>2, EditTails
  <2>2. /\ DOMAIN table \subseteq Nat /\ table'[e].record = Edited /\ e \in DOMAIN table
        /\ \A i \in DOMAIN table :
             /\ table'[i].hash = table[i].hash /\ table'[i].kind = table[i].kind
             /\ i # e => table'[i].record = table[i].record
    BY <1>2, EditFacts, TableFacts DEF Live
  <2>3. UNCHANGED <<thread, writer>>
    BY <1>2 DEF Edit
  <2>4. LockedEventsLink'
    <3>1. ASSUME NEW i \in Broken', table'[i].kind = "locked"
          PROVE  table'[i].record = Edited
      <4>1. i \in Live /\ i \in DOMAIN table /\ i \in Nat
            /\ table'[i].hash # compute_hash(TailBefore(i)', table'[i].record)
        BY <2>1, <2>2, <3>1 DEF Broken, Live
      <4>2. CASE i = e
        BY <2>2, <4>2
      <4>3. CASE i # e
        BY <2>1, <2>2, <3>1, <4>1, <4>3 DEF Broken, LinkInv, LockedEventsLink
      <4>4. QED
        BY <4>2, <4>3
    <3>2. QED
      BY <3>1 DEF LockedEventsLink
  <2>5. ASSUME NEW t \in Threads
        PROVE  LinkOK(t)'
    <3>1. LinkOK(t) /\ HandlerOK(t)
      BY DEF LinkInv, TypeInv
    <3>2. ASSUME thread[t].pc = "inserted", NEW r \in thread[t].rows
          PROVE  r \in DOMAIN table /\ r \in Nat /\ r # e
      <4>1. r \in DOMAIN table /\ (\A j \in Live : j < r)
        BY <3>1, <3>2 DEF HandlerOK, LinkOK
      <4>2. e < r /\ e \in Nat /\ r \in Nat
        BY <2>2, <4>1
      <4>3. QED
        BY <4>1, <4>2
    <3>3. QED
      BY <2>1, <2>2, <2>3, <3>1, <3>2 DEF LinkOK
  <2>6. QED
    BY <2>4, <2>5 DEF LinkInv
<1>3. ASSUME NEW t \in Threads, Handler(t)
      PROVE  LinkInv'
  <2>1. LinkOK(t)'
    <3>1. CASE Commit(t) \/ Rollback(t)
      <4>1. thread'[t].pc = "idle"
        BY <3>1 DEF Commit, Rollback, Idle, TypeInv
      <4>2. QED
        BY <4>1 DEF LinkOK
    <3>2. QED
      BY <1>3, <3>1, BeginLinks, ActivityLinks, InsertLinks DEF Handler
  <2>2. LockedEventsLink'
    <3>1. EventsStay
      BY <1>3, AllStay DEF Next
    <3>2. CASE Commit(t)
      <4>1. ASSUME NEW i \in Broken', table'[i].kind = "locked"
            PROVE  table'[i].record = Edited
        <5>1. /\ i \in Live \cup thread[t].rows
              /\ table'[i].hash # compute_hash(TailBefore(i)', table'[i].record)
          BY <3>2, <4>1, CommitTails DEF Broken
        <5>2. /\ i \in DOMAIN table /\ LinkOK(t) /\ HandlerOK(t) /\ thread[t].pc = "inserted"
          BY <3>2, <5>1 DEF Live, LinkInv, TypeInv, HandlerOK, Commit
        <5>3. table'[i].hash = table[i].hash /\ table'[i].record = table[i].record
              /\ table'[i].kind = table[i].kind
          BY <3>2, <5>2, CommitFacts
        <5>4. CASE i \in Live
          <6>1. i \in Broken
            BY <3>1, <5>1, <5>3, <5>4 DEF EventsStay, Broken
          <6>2. QED
            BY <4>1, <5>3, <6>1 DEF LinkInv, LockedEventsLink
        <5>5. CASE i \in thread[t].rows
          <6>1. thread[t].kind = "locked"
            BY <4>1, <5>2, <5>3, <5>5 DEF HandlerOK
          <6>2. thread[t].rows = {i}
                /\ table[i].hash = compute_hash(TailBefore(i), table[i].record)
            BY <5>2, <5>5, <6>1 DEF LinkOK
          <6>3. TailBefore(i)' = TailBefore(i)
            BY <3>2, <5>5, <6>2, CommitTails
          <6>4. QED
            BY <5>1, <5>3, <6>2, <6>3
        <5>6. QED
          BY <5>1, <5>4, <5>5
      <4>2. QED
        BY <4>1 DEF LockedEventsLink
    <3>3. CASE ~Commit(t)
      <4>1. Live' = Live /\ \A i \in Live : table'[i] = table[i]
        <5>1. CASE Insert(t)
          BY <5>1, InsertKeepsTails, InsertFacts DEF Live
        <5>2. CASE ~Insert(t)
          BY <1>3, <3>3, <5>2 DEF Handler, Begin, Activity, Rollback, Live
        <5>3. QED
          BY <5>1, <5>2
      <4>2. Broken' = Broken
        BY <3>1, <4>1 DEF EventsStay, Broken
      <4>3. Broken \subseteq Live
        BY DEF Broken
      <4>4. QED
        BY <4>1, <4>2, <4>3 DEF LinkInv, LockedEventsLink
    <3>4. QED
      BY <3>2, <3>3
  <2>3. QED
    BY <1>3, <2>1, <2>2, OthersLinked DEF LinkInv
<1>4. QED
  BY <1>1, <1>2, <1>3 DEF Next

LEMMA LinkInit == Init => LinkInv
<1>1. SUFFICES ASSUME Init
               PROVE  LinkInv
  OBVIOUS
<1>2. \A t \in Threads : thread[t].pc = "idle"
  BY <1>1 DEF Init, Idle
<1>3. DOMAIN table = {}
  BY <1>1, EmptySeq, LenProperties DEF Init
<1>4. QED
  BY <1>2, <1>3 DEF LinkInv, LinkOK, LockedEventsLink, Broken, Live

\* On the default database an unedited event of a handler that wrote before its
\* one activity links to the event before it, whatever runs beside it
\* (_activity, verify_chain).
THEOREM LockedOnesLink ==
  ASSUME Isolation = "sqlite"
  PROVE  Spec => []LockedEventsLink
<1>1. TypeInv /\ LinkInv /\ [Next]_vars => LinkInv'
  BY LinkStep
<1>2. LinkInv => LockedEventsLink
  BY DEF LinkInv
<1>3. QED
  BY <1>1, <1>2, TypeInit, TypeStep, LinkInit, PTL DEF Spec

\* There what verify_chain said of an event stays so until it is edited: nothing
\* gets in before a committed event (_activity, verify_chain).
THEOREM VerdictStays ==
  ASSUME Isolation = "sqlite"
  PROVE  Spec => VerdictIsStable
<1> DEFINE Stays == \A i \in Live : table'[i].record = table[i].record =>
                                      (i \in Broken <=> i \in Broken')
<1>1. TypeInv /\ LinkInv /\ [Next]_vars => LinkInv'
  BY LinkStep
<1>2. TypeInv /\ LinkInv /\ [Next]_vars => [Stays]_vars
  BY AllStay DEF EventsStay, Broken
<1>3. QED
  BY <1>1, <1>2, TypeInit, TypeStep, LinkInit, PTL DEF Spec, VerdictIsStable
=============================================================================
