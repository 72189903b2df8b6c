------------------------------ MODULE AuditChain ------------------------------
(***************************************************************************)
(* The hash chain of one tenant's audit events (_activity in main.py,      *)
(* app/hashchain.py) under request handlers that run concurrently.         *)
(*                                                                         *)
(* _activity reads the last committed event and computes the hash of the   *)
(* new one at once; the row is inserted by the flush at COMMIT.  A "plain" *)
(* handler writes nothing before _activity (create_asset); a "locked" one  *)
(* has executed an UPDATE or a flush (activate_version); a "pair" is a     *)
(* locked one that calls _activity twice in its transaction (seed_demo,    *)
(* gitlab_webhook): autoflush is off, so the second call cannot see the    *)
(* first event.                                                            *)
(*                                                                         *)
(* Isolation is as in VersionActivation.                                   *)
(***************************************************************************)
EXTENDS Naturals, Sequences

CONSTANTS
  Threads,    \* threads that run request handlers
  Kinds,      \* the kinds of handlers that run
  Isolation,  \* "sqlite" or "read_committed"
  MaxEvents,  \* bound on the rows inserted
  MaxEdits,   \* bound on the rows edited in place
  Nobody

ASSUME AuditAssumption ==
  /\ Kinds \subseteq {"plain", "locked", "pair"}
  /\ Isolation \in {"sqlite", "read_committed"}
  /\ MaxEvents \in Nat /\ MaxEdits \in Nat
  /\ Nobody \notin Threads

VARIABLES
  table,   \* activity_events in id order: every row ever inserted
  writer,  \* sqlite: the thread that holds the write lock
  thread,  \* what each thread is doing
  edits    \* rows edited so far

vars == <<table, writer, thread, edits>>

(***************************************************************************)
(* The record of an event is the id it gets, or Edited; its hash is the    *)
(* sequence of the records it covers, which are different for different    *)
(* (predecessor, record) pairs as those of a collision-free hash are.      *)
(***************************************************************************)
Edited == 0
\* Mutants: the first hash covers something that is no record; the hash does
\* not cover the record.
GenesisRecord == <<Edited>>
compute_hash_of_prev(prev, record) == Append(prev, 1)

Genesis == <<>>
compute_hash(prev, record) == Append(prev, record)

Hashes == Seq(1..MaxEvents)

Row == [record : 0..MaxEvents, hash : Hashes, kind : Kinds, live : BOOLEAN]

Idle == [pc |-> "idle", kind |-> "none", prevs |-> <<>>, rows |-> {}]

TypeOK ==
  /\ table \in Seq(Row) /\ Len(table) <= MaxEvents
  /\ writer \in Threads \cup {Nobody}
  /\ edits \in 0..MaxEdits
  /\ \A t \in Threads :
       /\ thread[t].pc \in {"idle", "open", "inserted"}
       /\ thread[t].prevs \in Seq(Hashes) /\ Len(thread[t].prevs) <= 2
       /\ thread[t].rows \subseteq DOMAIN table

Init ==
  /\ table = <<>>
  /\ writer = Nobody
  /\ thread = [t \in Threads |-> Idle]
  /\ edits = 0

-------------------------------------------------------------------------------
(* Queries: an uncommitted row is seen by nobody else.                      *)

Live == {i \in DOMAIN table : table[i].live}

\* The hash of the last committed event with an id below i.
TailBefore(i) ==
  LET below == {j \in Live : j < i}
  IN IF below = {} THEN Genesis
     ELSE table[CHOOSE j \in below : \A k \in below : k <= j].hash

CommittedTail == TailBefore(Len(table) + 1)

\* verify_chain: the events whose stored hash is not the one recomputed from
\* the stored hash before them.
Broken == {i \in Live : table[i].hash # compute_hash(TailBefore(i), table[i].record)}

-------------------------------------------------------------------------------
(* A handler.                                                               *)

\* Mutants: any number of transactions may write; a write takes no lock.
CanAlwaysWrite(t) == TRUE
NoLock(t) == UNCHANGED writer

CanWrite(t) == Isolation = "sqlite" => writer \in {Nobody, t}
Lock(t) == writer' = IF Isolation = "sqlite" THEN t ELSE writer
Unlocked(t) == IF writer = t THEN Nobody ELSE writer

Activities(kind) == IF kind = "pair" THEN 2 ELSE 1

Begin(t, kind) ==
  /\ thread[t].pc = "idle"
  /\ Len(table) + Activities(kind) <= MaxEvents
  /\ IF kind = "plain" THEN UNCHANGED writer ELSE CanWrite(t) /\ Lock(t)
  /\ thread' = [thread EXCEPT ![t] = [Idle EXCEPT !.pc = "open", !.kind = kind]]
  /\ UNCHANGED <<table, edits>>

\* _activity: one read of the tail.
Activity(t) ==
  /\ thread[t].pc = "open"
  /\ Len(thread[t].prevs) < Activities(thread[t].kind)
  /\ thread' = [thread EXCEPT ![t].prevs = Append(@, CommittedTail)]
  /\ UNCHANGED <<table, writer, edits>>

\* The flush of db.commit(): the events get the next ids.
Insert(t) ==
  LET prevs == thread[t].prevs
      n == Len(table)
      row(k) == [record |-> n + k, hash |-> compute_hash(prevs[k], n + k),
                 kind |-> thread[t].kind, live |-> FALSE]
  IN /\ thread[t].pc = "open"
     /\ Len(prevs) = Activities(thread[t].kind)
     /\ n + Len(prevs) <= MaxEvents
     /\ CanWrite(t) /\ Lock(t)
     /\ table' = table \o [k \in 1..Len(prevs) |-> row(k)]
     /\ thread' = [thread EXCEPT ![t].pc = "inserted",
                                 ![t].rows = (n + 1)..(n + Len(prevs))]
     /\ UNCHANGED edits

Commit(t) ==
  /\ thread[t].pc = "inserted"
  /\ table' = [i \in DOMAIN table |->
                 IF i \in thread[t].rows THEN [table[i] EXCEPT !.live = TRUE] ELSE table[i]]
  /\ thread' = [thread EXCEPT ![t] = Idle]
  /\ writer' = Unlocked(t)
  /\ UNCHANGED edits

\* An error, a lock timeout or a crash: the transaction is rolled back, and
\* the ids it took stay unused.
Rollback(t) ==
  /\ thread[t].pc # "idle"
  /\ thread' = [thread EXCEPT ![t] = Idle]
  /\ writer' = Unlocked(t)
  /\ UNCHANGED <<table, edits>>

\* A committed event is changed in the database, its stored hash is not.
Edit(i) ==
  /\ edits < MaxEdits
  /\ table[i].record # Edited
  /\ table' = [table EXCEPT ![i].record = Edited]
  /\ edits' = edits + 1
  /\ UNCHANGED <<writer, thread>>

Handler(t) ==
  \/ \E kind \in Kinds : Begin(t, kind)
  \/ Activity(t) \/ Insert(t) \/ Commit(t) \/ Rollback(t)

Next ==
  \/ \E t \in Threads : Handler(t)
  \/ \E i \in Live : Edit(i)

Spec == Init /\ [][Next]_vars

-------------------------------------------------------------------------------
(* Properties.                                                              *)

\* A handler that wrote before it called _activity once links its event to the
\* one before it, whatever the handlers around it did: verify_chain flags it
\* only if it was edited (_activity, verify_chain).
LockedEventsLink ==
  \A i \in Broken : table[i].kind = "locked" => table[i].record = Edited

\* An edited event is flagged, whatever forks the chain has around it
\* (verify_chain; tests/test_saas.py tries it on an unforked one).
EditIsFlagged == \A i \in Live : table[i].record = Edited => i \in Broken

\* What verify_chain said of a committed event stays so while the event is not
\* edited: later commits never get in before it.
VerdictIsStable ==
  [][\A i \in Live :
       table'[i].record = table[i].record => (i \in Broken <=> i \in Broken')]_vars

\* tests/test_saas.py, test_hash_chain_intact: after the demo data is seeded
\* the chain is complete.
UneditedChainIntact == (\A i \in Live : table[i].record # Edited) => Broken = {}
=============================================================================
