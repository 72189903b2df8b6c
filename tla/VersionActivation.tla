-------------------------- MODULE VersionActivation --------------------------
(***************************************************************************)
(* The handlers that write the status of one asset's versions              *)
(* (create_asset_version, activate_version, decide_review), statement by   *)
(* statement: sync endpoints run in a thread pool, each with a session and *)
(* a transaction of its own, and keep the rows they loaded.                *)
(*                                                                         *)
(* Isolation "sqlite" is the default database: SELECTs before the first    *)
(* write see the latest commit, the first write takes the database's only  *)
(* write lock and COMMIT releases it.  "read_committed" is the PostgreSQL  *)
(* of docker-compose: an UPDATE works on the rows its snapshot matched,    *)
(* waits for those another transaction wrote, and looks at them again.     *)
(* A wait may end in an error and a rollback (lock timeout, deadlock).     *)
(*                                                                         *)
(* SQLAlchemy writes a column at flush only if it was assigned a value     *)
(* other than the one loaded.  A decision is tallied from the assignments  *)
(* its handler loaded, an activation from those it loads itself.           *)
(***************************************************************************)
EXTENDS Naturals, FiniteSets

CONSTANTS
  Versions,     \* version tags of the asset
  Reviewed,     \* those that a review request names, if they exist
  Reviewers,    \* users who decide
  Threads,      \* threads that run request handlers
  Isolation,    \* "sqlite" or "read_committed"
  Required,     \* approvals a request asks for
  MaxRows,      \* bound on the assignments of a request
  Nobody

ASSUME ActivationAssumption ==
  /\ Isolation \in {"sqlite", "read_committed"}
  /\ Nobody \notin Threads \cup Versions \cup Reviewers
  /\ Reviewed \subseteq Versions
  /\ Required \in Nat \ {0} /\ MaxRows \in Nat

RowStatuses ==
  {"absent", "draft", "review_pending", "approved", "rejected", "active", "deprecated"}
Outcomes == {"review_pending", "approved", "rejected"}

\* changes_requested counts like rejected, and pending like no decision.
Decisions == {"approved", "rejected"}

\* An assignment of a reviewer; rows that do not exist are nobody's.
Ids == 1..MaxRows
NoAssignment == [by |-> Nobody, is |-> "pending"]
Assignment == [by : Reviewers, is : Decisions] \cup {NoAssignment}

VARIABLES
  row,       \* committed status of each version, "absent" without a row
  verdict,   \* committed status of the review request naming it, or "none"
  assigned,  \* committed assignments of that request
  writer,    \* sqlite: the thread that holds the write lock
  thread,    \* what each thread is doing
  crossed,   \* versions with two decisions at the same time
  raced      \* versions with a decision and an activation at the same time

tables == <<row, verdict, assigned>>
observed == <<crossed, raced>>
vars == <<tables, observed, writer, thread>>

(***************************************************************************)
(* A thread rests or works on an operation that assigns a new status to    *)
(* version v:                                                              *)
(*   same     - new is the status that was loaded for v;                   *)
(*   settled  - the status it gives the request is the one that was loaded;*)
(*   id       - the assignment a decision writes, 0 for none yet;          *)
(*   mine     - what that assignment becomes;                              *)
(*   matched  - rows its demoting UPDATE matched;  demoted - those it wrote*)
(***************************************************************************)
Points == {"idle", "begun", "cleared", "updating", "ready"}

Idle ==
  [pc |-> "idle", op |-> "none", v |-> Nobody, new |-> "absent", same |-> FALSE,
   settled |-> TRUE, id |-> 0, mine |-> NoAssignment, matched |-> {}, demoted |-> {}]

Working(pc, op, v, new) ==
  [Idle EXCEPT !.pc = pc, !.op = op, !.v = v, !.new = new]

TypeOK ==
  /\ row \in [Versions -> RowStatuses]
  /\ verdict \in [Versions -> Outcomes \cup {"none"}]
  /\ assigned \in [Versions -> [Ids -> Assignment]]
  /\ writer \in Threads \cup {Nobody}
  /\ thread \in [Threads ->
       [pc : Points, op : {"none", "create", "activate", "decide"},
        v : Versions \cup {Nobody}, new : RowStatuses,
        same : BOOLEAN, settled : BOOLEAN, id : Ids \cup {0}, mine : Assignment,
        matched : SUBSET Versions, demoted : SUBSET Versions]]
  /\ crossed \subseteq Versions /\ raced \subseteq Versions

\* Some versions exist, the reviewed ones with a request nobody has decided.
Init ==
  /\ \E exist \in SUBSET Versions :
       /\ row = [v \in Versions |-> IF v \notin exist THEN "absent"
                                    ELSE IF v \in Reviewed THEN "review_pending" ELSE "draft"]
       /\ verdict = [v \in Versions |->
                       IF v \in exist \cap Reviewed THEN "review_pending" ELSE "none"]
  /\ assigned = [v \in Versions |-> [i \in Ids |-> NoAssignment]]
  /\ writer = Nobody
  /\ thread = [t \in Threads |-> Idle]
  /\ crossed = {} /\ raced = {}

-------------------------------------------------------------------------------
(* Locks and the end of a transaction.                                      *)

\* Mutant: statements run in autocommit, no lock outlives them.
NoLock(t) == UNCHANGED writer

CanWrite(t) == Isolation = "sqlite" => writer \in {Nobody, t}

Lock(t) == writer' = IF Isolation = "sqlite" THEN t ELSE writer

Unlocked(t) == IF writer = t THEN Nobody ELSE writer

\* No other transaction holds an uncommitted change of the rows in R.
RowsFree(t, R) == \A u \in Threads \ {t} : thread[u].demoted \cap R = {}

Reply(t) ==
  /\ thread' = [thread EXCEPT ![t] = Idle]
  /\ writer' = Unlocked(t)

\* Mutant: a status literal that is not in VersionStatus.
CommittedInactive(t) ==
  row' = [v \in Versions |->
            IF v = thread[t].v /\ ~thread[t].same THEN thread[t].new
            ELSE IF v \in thread[t].demoted THEN "inactive"
            ELSE row[v]]

\* COMMIT: the demotions, and the flush of the new status of v.
Committed(t) ==
  row' = [v \in Versions |->
            IF v = thread[t].v /\ ~thread[t].same THEN thread[t].new
            ELSE IF v \in thread[t].demoted THEN "deprecated"
            ELSE row[v]]

-------------------------------------------------------------------------------
(* The tally of a request.                                                  *)

By(rows, who, is) == {i \in Ids : rows[i].by \in who /\ rows[i].is = is}

Tally(rows) ==
  IF By(rows, Reviewers, "rejected") # {} THEN "rejected"
  ELSE IF Cardinality(By(rows, Reviewers, "approved")) >= Required THEN "approved"
  ELSE "review_pending"

Deciding(v) == {u \in Threads : thread[u].op = "decide" /\ thread[u].v = v}
Activating(v) == {u \in Threads : thread[u].op = "activate" /\ thread[u].v = v}

-------------------------------------------------------------------------------
(* create_asset_version: the tag is free; the row is inserted at COMMIT.    *)

BeginCreate(t, v, setActive) ==
  /\ thread[t].pc = "idle"
  /\ row[v] = "absent"
  /\ thread' = [thread EXCEPT ![t] =
                  IF setActive THEN Working("cleared", "create", v, "active")
                               ELSE Working("ready", "create", v, "draft")]
  /\ UNCHANGED <<tables, observed, writer>>

\* The unique constraint on (asset, tag) refuses a second row.
CommitCreate(t) ==
  /\ thread[t].pc = "ready" /\ thread[t].op = "create"
  /\ CanWrite(t)
  /\ IF row[thread[t].v] = "absent" THEN Committed(t) /\ Reply(t)
                                    ELSE UNCHANGED row /\ Reply(t)
  /\ UNCHANGED <<verdict, assigned, observed>>

(* activate_version: load the version, tally the review request that names  *)
(* it, demote the others, assign "active", COMMIT.                          *)

BeginActivate(t, v) ==
  /\ thread[t].pc = "idle"
  /\ row[v] # "absent"
  /\ thread' = [thread EXCEPT ![t] =
                  [Working("begun", "activate", v, "active") EXCEPT !.same = row[v] = "active"]]
  /\ raced' = IF Deciding(v) = {} THEN raced ELSE raced \cup {v}
  /\ UNCHANGED <<tables, crossed, writer>>

\* Mutant: the stored status of the request is believed.
ClearedAsStored(v) == verdict[v] \in {"none", "approved"}

\* Without a request there is nothing to satisfy.
Cleared(v) == verdict[v] = "none" \/ Tally(assigned[v]) = "approved"

CheckReview(t) ==
  LET v == thread[t].v
  IN /\ thread[t].pc = "begun" /\ thread[t].op = "activate"
     /\ IF Cleared(v)
          THEN /\ thread' = [thread EXCEPT ![t].pc = "cleared",
                                 ![t].settled = (verdict[v] \in {"none", "approved"})]
               /\ UNCHANGED writer
          ELSE Reply(t)
     /\ UNCHANGED <<tables, observed>>

\* The UPDATE of the active versions starts: its snapshot of matching rows,
\* of which activate_version leaves out its own.
StartDemotion(t) ==
  /\ thread[t].pc = "cleared"
  /\ CanWrite(t) /\ Lock(t)
  /\ thread' = [thread EXCEPT ![t].pc = "updating",
                              ![t].matched = {v \in Versions \ {thread[t].v} :
                                                row[v] = "active"}]
  /\ UNCHANGED <<tables, observed>>

\* ... and ends: the matched rows that are still active are demoted.
FinishDemotion(t) ==
  /\ thread[t].pc = "updating"
  /\ RowsFree(t, thread[t].matched)
  /\ thread' = [thread EXCEPT ![t].pc = "ready", ![t].matched = {},
                              ![t].demoted = {v \in thread[t].matched : row[v] = "active"}]
  /\ UNCHANGED <<tables, observed, writer>>

CommitActivate(t) ==
  LET v == thread[t].v
  IN /\ thread[t].pc = "ready" /\ thread[t].op = "activate"
     /\ RowsFree(t, {v})
     /\ Committed(t) /\ Reply(t)
     /\ verdict' = [verdict EXCEPT ![v] = IF thread[t].settled THEN @ ELSE "approved"]
     /\ UNCHANGED <<assigned, observed>>

(* decide_review on the request that names v: load the request and its      *)
(* assignments, write the reviewer's own, tally, load v, COMMIT.            *)

\* The assignment of the reviewer among those loaded; any, if there are two.
Own(rows, who) == {i \in Ids : rows[i].by = who}

\* Mutant: a new assignment is not appended to the loaded ones.
WithOldOnly(rows, i, mine) == IF i = 0 THEN rows ELSE [rows EXCEPT ![i] = mine]

\* The loaded assignments with the reviewer's own, a new one in a free place.
With(rows, i, mine) ==
  LET place == IF i # 0 THEN i ELSE CHOOSE k \in Ids : rows[k] = NoAssignment
  IN [rows EXCEPT ![place] = mine]

\* Places for assignments that are neither committed nor flushed; decisions that
\* will need one keep it free.
FreeIds(v) == {i \in Ids : /\ assigned[v][i] = NoAssignment
                          /\ \A u \in Deciding(v) : thread[u].id # i}

RoomFor(t, v) ==
  Cardinality(FreeIds(v)) > Cardinality({u \in Deciding(v) \ {t} : thread[u].id = 0})

\* A decision that repeats the one loaded leaves its column alone: mine is then
\* what whoever wrote last made of it.
BeginDecide(t, v, who, is) ==
  /\ thread[t].pc = "idle"
  /\ verdict[v] # "none"
  /\ LET own == Own(assigned[v], who)
         mine == [by |-> who, is |-> is]
     IN \E i \in IF own = {} THEN {0} ELSE own :
          /\ i = 0 => RoomFor(t, v)
          /\ LET new == Tally(With(assigned[v], i, mine))
             IN thread' = [thread EXCEPT ![t] =
                  [Working("begun", "decide", v, new) EXCEPT
                     !.settled = (verdict[v] = new), !.id = i,
                     !.mine = IF i # 0 /\ assigned[v][i] = mine THEN NoAssignment ELSE mine]]
  /\ crossed' = IF Deciding(v) = {} THEN crossed ELSE crossed \cup {v}
  /\ raced' = IF Activating(v) = {} THEN raced ELSE raced \cup {v}
  /\ UNCHANGED <<tables, writer>>

\* A first decision is flushed, which takes the write lock, before v is loaded.
LoadDecided(t) ==
  LET v == thread[t].v
  IN /\ thread[t].pc = "begun" /\ thread[t].op = "decide"
     /\ IF thread[t].id = 0
          THEN /\ CanWrite(t) /\ Lock(t)
               /\ \E i \in FreeIds(v) :
                    /\ \A k \in FreeIds(v) : i <= k
                    /\ thread' = [thread EXCEPT ![t].pc = "ready", ![t].id = i,
                                               ![t].same = (row[v] = thread[t].new)]
          ELSE /\ UNCHANGED writer
               /\ thread' = [thread EXCEPT ![t].pc = "ready",
                                          ![t].same = (row[v] = thread[t].new)]
     /\ UNCHANGED <<tables, observed>>

CommitDecide(t) ==
  LET v == thread[t].v
      mine == thread[t].mine
  IN /\ thread[t].pc = "ready" /\ thread[t].op = "decide"
     /\ CanWrite(t)
     /\ RowsFree(t, {v})
     /\ Committed(t) /\ Reply(t)
     /\ verdict' = [verdict EXCEPT ![v] = IF thread[t].settled THEN @ ELSE thread[t].new]
     /\ assigned' = [assigned EXCEPT ![v][thread[t].id] = IF mine = NoAssignment THEN @ ELSE mine]
     /\ UNCHANGED observed

-------------------------------------------------------------------------------
(* A wait for a lock that another transaction holds ends in an error.       *)

\* Mutant: a wait has no timeout.
WaitingForever(t) == FALSE

Waiting(t) ==
  \/ thread[t].pc \in {"cleared", "ready"} /\ ~CanWrite(t)
  \/ thread[t].pc = "begun" /\ thread[t].op = "decide" /\ ~CanWrite(t)
  \/ thread[t].pc = "updating" /\ ~RowsFree(t, thread[t].matched)
  \/ thread[t].pc = "ready" /\ ~RowsFree(t, {thread[t].v})

LockError(t) ==
  /\ Waiting(t)
  /\ Reply(t)
  /\ UNCHANGED <<tables, observed>>

Begin(t) ==
  \/ \E v \in Versions, b \in BOOLEAN : BeginCreate(t, v, b)
  \/ \E v \in Versions : BeginActivate(t, v)
  \/ \E v \in Versions, who \in Reviewers, is \in Decisions : BeginDecide(t, v, who, is)

Continue(t) ==
  \/ CheckReview(t) \/ StartDemotion(t) \/ FinishDemotion(t)
  \/ CommitCreate(t) \/ CommitActivate(t)
  \/ LoadDecided(t) \/ CommitDecide(t)
  \/ LockError(t)

Next == \E t \in Threads : Begin(t) \/ Continue(t)

\* A handler that was started runs on.
Spec == Init /\ [][Next]_vars /\ \A t \in Threads : WF_vars(Continue(t))

-------------------------------------------------------------------------------
(* Properties.                                                              *)

\* At most one version of the asset is active in the committed tables, however
\* the statements of the handlers interleave (activate_version,
\* create_asset_version, decide_review).
AtMostOneActive ==
  \A v, w \in Versions : row[v] = "active" /\ row[w] = "active" => v = w

\* USER_GUIDE.md, 8.2: activate promotes the version to active; 5.2: only one
\* version of an asset is active at a time.  So an activation answered 200 has
\* made its version the active one (activate_version).
ActivationTakesEffect ==
  [][\A t \in Threads :
       CommitActivate(t) => {v \in Versions : row'[v] = "active"} = {thread[t].v}]_vars

\* A version is active only if its review request is satisfied by the decisions
\* on record, also when decisions that crossed left a stale status behind; only
\* a decision made while the activation ran may come too late
\* (activate_version, _update_review_status, decide_review).
ActiveIsCleared ==
  \A v \in Versions \ raced :
    row[v] = "active" /\ verdict[v] # "none" => Tally(assigned[v]) = "approved"

\* Unless two decisions crossed, the stored status of a request follows from the
\* decisions on record, and these are one per reviewer, so that no approval
\* counts twice (decide_review).
StatusFollowsDecisions ==
  \A v \in Versions \ crossed :
    /\ verdict[v] # "none" => verdict[v] = Tally(assigned[v])
    /\ \A who \in Reviewers : Cardinality({i \in Ids : assigned[v][i].by = who}) <= 1

\* Every request is answered: no wait for a lock lasts (FastAPI's thread pool
\* and the lock timeout of the database).
Answered == \A t \in Threads : []<>(thread[t].pc = "idle")
=============================================================================
