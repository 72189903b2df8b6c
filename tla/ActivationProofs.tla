--------------------------- MODULE ActivationProofs ---------------------------
(***************************************************************************)
(* Theorems about VersionActivation for all values of its constants.       *)
(***************************************************************************)
EXTENDS VersionActivation, NumberLemmas, TLAPS

ThreadType ==
  [pc : Points, op : {"none", "create", "activate", "decide"},
   v : Versions \cup {Nobody}, new : RowStatuses,
   same : BOOLEAN, settled : BOOLEAN, id : Ids \cup {0}, mine : Assignment,
   matched : SUBSET Versions, demoted : SUBSET Versions]

\* What an operation may assign: a decision the outcome of a tally, an activation
\* "active", a creation "active" or "draft".
Assigns(s) ==
  /\ s.pc = "idle" <=> s.op = "none"
  /\ s.op # "none" => s.v \in Versions
  /\ s.op = "decide" => s.new \in Outcomes /\ s.pc \in {"begun", "ready"}
  /\ s.op = "activate" => s.new = "active"
  /\ s.op = "create" => s.new \in {"active", "draft"} /\ s.pc # "begun" /\ ~s.same
  /\ s.pc \in {"cleared", "updating"} => s.new = "active"
  /\ s.new # "active" => s.demoted = {}

TypeInv == TypeOK /\ \A t \in Threads : Assigns(thread[t])

\* A handler goes on: only its own thread is changed, to s.
Becomes(t, s) == s \in ThreadType /\ Assigns(s) /\ thread' = [thread EXCEPT ![t] = s]

LEMMA IdleType == Idle \in ThreadType /\ Assigns(Idle)
  BY DEF Idle, ThreadType, Assigns, Points, RowStatuses, Assignment

LEMMA TallyType == \A rows : Tally(rows) \in Outcomes
  BY DEF Tally, Outcomes

LEMMA ReplyBecomes == ASSUME NEW t \in Threads, Reply(t) PROVE Becomes(t, Idle)
  BY IdleType DEF Reply, Becomes

\* A first decision is flushed to a place that was free.
LEMMA FirstDecisionLoads ==
  ASSUME NEW t \in Threads, LoadDecided(t), thread[t].id = 0
  PROVE  \E i \in FreeIds(thread[t].v) :
           thread' = [thread EXCEPT ![t] =
                        [thread[t] EXCEPT !.pc = "ready", !.id = i,
                                          !.same = (row[thread[t].v] = thread[t].new)]]
<1>1. PICK i \in FreeIds(thread[t].v) :
        thread' = [thread EXCEPT ![t].pc = "ready", ![t].id = i,
                                 ![t].same = (row[thread[t].v] = thread[t].new)]
  BY DEF LoadDecided
<1>2. thread' = [thread EXCEPT ![t] =
                   [thread[t] EXCEPT !.pc = "ready", !.id = i,
                                     !.same = (row[thread[t].v] = thread[t].new)]]
  BY <1>1
<1>3. QED
  BY <1>2

LEMMA BeginsBecome ==
  ASSUME TypeInv, NEW t \in Threads, Begin(t)
  PROVE  \E s : Becomes(t, s)
<1>1. ASSUME NEW v \in Versions, NEW b \in BOOLEAN, BeginCreate(t, v, b)
      PROVE  \E s : Becomes(t, s)
  <2> DEFINE s == IF b THEN Working("cleared", "create", v, "active")
                       ELSE Working("ready", "create", v, "draft")
  <2>1. s \in ThreadType /\ Assigns(s)
    BY DEF Working, Idle, ThreadType, Assigns, Points, RowStatuses, Assignment
  <2>2. QED
    BY <1>1, <2>1 DEF BeginCreate, Becomes
<1>2. ASSUME NEW v \in Versions, BeginActivate(t, v)
      PROVE  \E s : Becomes(t, s)
  <2> DEFINE s == [Working("begun", "activate", v, "active") EXCEPT !.same = row[v] = "active"]
  <2>1. s \in ThreadType /\ Assigns(s)
    BY DEF Working, Idle, ThreadType, Assigns, Points, RowStatuses, Assignment
  <2>2. QED
    BY <1>2, <2>1 DEF BeginActivate, Becomes
<1>3. ASSUME NEW v \in Versions, NEW who \in Reviewers, NEW is \in Decisions,
             BeginDecide(t, v, who, is)
      PROVE  \E s : Becomes(t, s)
  <2> DEFINE mine == [by |-> who, is |-> is]
             own == Own(assigned[v], who)
  <2>1. PICK i \in (IF own = {} THEN {0} ELSE own) :
          LET new == Tally(With(assigned[v], i, mine))
          IN thread' = [thread EXCEPT ![t] =
               [Working("begun", "decide", v, new) EXCEPT
                  !.settled = (verdict[v] = new), !.id = i,
                  !.mine = IF i # 0 /\ assigned[v][i] = mine THEN NoAssignment ELSE mine]]
    BY <1>3 DEF BeginDecide
  <2> DEFINE new == Tally(With(assigned[v], i, mine))
             m == IF i # 0 /\ assigned[v][i] = mine THEN NoAssignment ELSE mine
             s == [Working("begun", "decide", v, new) EXCEPT
                     !.settled = (verdict[v] = new), !.id = i, !.mine = m]
  <2>2. i \in Ids \cup {0} /\ m \in Assignment /\ new \in Outcomes
    BY TallyType DEF Own, Assignment
  <2> HIDE DEF m, new
  <2>3. s \in ThreadType /\ Assigns(s)
    BY <2>2 DEF Working, Idle, ThreadType, Assigns, Points, RowStatuses, Outcomes
  <2>4. thread' = [thread EXCEPT ![t] = s]
    BY <2>1 DEF m, new
  <2>5. QED
    BY <2>3, <2>4 DEF Becomes
<1>4. QED
  BY <1>1, <1>2, <1>3 DEF Begin

LEMMA ContinuesBecome ==
  ASSUME TypeInv, NEW t \in Threads, Continue(t)
  PROVE  \E s : Becomes(t, s)
<1> DEFINE old == thread[t]
<1>1. old \in ThreadType /\ Assigns(old)
  BY DEF TypeInv, TypeOK, ThreadType
<1>2. CASE CheckReview(t)
  <2> DEFINE b == verdict[old.v] \in {"none", "approved"}
             s == [old EXCEPT !.pc = "cleared", !.settled = b]
  <2>1. b \in BOOLEAN
    OBVIOUS
  <2>2. thread' = [thread EXCEPT ![t] = s] \/ Reply(t)
    BY <1>2 DEF CheckReview
  <2> HIDE DEF b
  <2>3. s \in ThreadType /\ Assigns(s)
    BY <1>1, <1>2, <2>1 DEF CheckReview, ThreadType, Assigns, Points
  <2> HIDE DEF s
  <2>4. QED
    BY <2>2, <2>3, ReplyBecomes DEF Becomes
<1>3. CASE StartDemotion(t)
  <2> DEFINE M == {v \in Versions \ {old.v} : row[v] = "active"}
             s == [old EXCEPT !.pc = "updating", !.matched = M]
  <2>1. s \in ThreadType /\ Assigns(s)
    BY <1>1, <1>3 DEF StartDemotion, ThreadType, Assigns, Points
  <2>2. thread' = [thread EXCEPT ![t] = s]
    BY <1>3 DEF StartDemotion
  <2>3. QED
    BY <2>1, <2>2 DEF Becomes
<1>4. CASE FinishDemotion(t)
  <2> DEFINE D == {v \in old.matched : row[v] = "active"}
             s == [old EXCEPT !.pc = "ready", !.matched = {}, !.demoted = D]
  <2>1. D \in SUBSET Versions
    BY <1>1 DEF ThreadType
  <2> HIDE DEF D
  <2>2. s \in ThreadType /\ Assigns(s)
    BY <1>1, <1>4, <2>1 DEF FinishDemotion, ThreadType, Assigns, Points
  <2>3. thread' = [thread EXCEPT ![t] = s]
    BY <1>4 DEF FinishDemotion, D
  <2>4. QED
    BY <2>2, <2>3 DEF Becomes
<1>5. CASE LoadDecided(t)
  <2>1. PICK i \in Ids \cup {0} :
          thread' = [thread EXCEPT ![t] =
            [old EXCEPT !.pc = "ready", !.id = i, !.same = (row[old.v] = old.new)]]
    <3>1. CASE old.id = 0
      <4>1. PICK i \in FreeIds(old.v) :
              thread' = [thread EXCEPT ![t] =
                [old EXCEPT !.pc = "ready", !.id = i, !.same = (row[old.v] = old.new)]]
        BY <1>5, <3>1, FirstDecisionLoads
      <4>2. i \in Ids
        BY DEF FreeIds
      <4>3. QED
        BY <4>1, <4>2
    <3>2. CASE old.id # 0
      <4>1. thread' = [thread EXCEPT ![t] =
              [old EXCEPT !.pc = "ready", !.same = (row[old.v] = old.new)]]
        BY <1>5, <3>2 DEF LoadDecided
      <4>2. [old EXCEPT !.pc = "ready", !.same = (row[old.v] = old.new)] =
            [old EXCEPT !.pc = "ready", !.id = old.id, !.same = (row[old.v] = old.new)]
        BY <1>1 DEF ThreadType
      <4>3. QED
        BY <1>1, <4>1, <4>2 DEF ThreadType
    <3>3. QED
      BY <3>1, <3>2
  <2> DEFINE s == [old EXCEPT !.pc = "ready", !.id = i, !.same = (row[old.v] = old.new)]
  <2>2. s \in ThreadType /\ Assigns(s)
    BY <1>1, <1>5 DEF LoadDecided, ThreadType, Assigns, Points
  <2>3. QED
    BY <2>1, <2>2 DEF Becomes
<1>6. CASE LockError(t) \/ CommitCreate(t) \/ CommitActivate(t) \/ CommitDecide(t)
  BY <1>6, ReplyBecomes DEF LockError, CommitCreate, CommitActivate, CommitDecide
<1>7. QED
  BY <1>2, <1>3, <1>4, <1>5, <1>6 DEF Continue

\* Every step is one handler's; it keeps the types of the tables.
LEMMA TablesType ==
  ASSUME TypeInv, NEW t \in Threads, Begin(t) \/ Continue(t)
  PROVE  /\ row' \in [Versions -> RowStatuses]
         /\ verdict' \in [Versions -> Outcomes \cup {"none"}]
         /\ assigned' \in [Versions -> [Ids -> Assignment]]
         /\ writer' \in Threads \cup {Nobody}
         /\ crossed' \subseteq Versions /\ raced' \subseteq Versions
<1> DEFINE old == thread[t]
<1>1. old \in ThreadType /\ Assigns(old)
  BY DEF TypeInv, TypeOK, ThreadType
<1>2. Committed(t) => row' \in [Versions -> RowStatuses]
  BY <1>1 DEF Committed, TypeInv, TypeOK, ThreadType, RowStatuses
<1>3. row' \in [Versions -> RowStatuses]
  BY <1>2 DEF Begin, Continue, BeginCreate, BeginActivate, BeginDecide, CheckReview,
              StartDemotion, FinishDemotion, LoadDecided, LockError, CommitCreate,
              CommitActivate, CommitDecide, tables, TypeInv, TypeOK
<1>4. writer' \in Threads \cup {Nobody}
  <2>1. Lock(t) \/ Reply(t) \/ UNCHANGED writer => writer' \in Threads \cup {Nobody}
    BY DEF Lock, Reply, Unlocked, TypeInv, TypeOK
  <2>2. QED
    BY <2>1 DEF Begin, Continue, BeginCreate, BeginActivate, BeginDecide, CheckReview,
                StartDemotion, FinishDemotion, LoadDecided, LockError, CommitCreate,
                CommitActivate, CommitDecide
<1>5. verdict' \in [Versions -> Outcomes \cup {"none"}]
  <2>1. verdict' = verdict \/ CommitActivate(t) \/ CommitDecide(t)
    BY DEF Begin, Continue, BeginCreate, BeginActivate, BeginDecide, CheckReview,
           StartDemotion, FinishDemotion, LoadDecided, LockError, CommitCreate, tables
  <2>2. CommitActivate(t) => verdict' \in [Versions -> Outcomes \cup {"none"}]
    BY DEF CommitActivate, TypeInv, TypeOK, Outcomes
  <2>3. CommitDecide(t) => verdict' \in [Versions -> Outcomes \cup {"none"}]
    BY <1>1 DEF CommitDecide, TypeInv, TypeOK, Assigns
  <2>4. QED
    BY <2>1, <2>2, <2>3 DEF TypeInv, TypeOK
<1>6. assigned' \in [Versions -> [Ids -> Assignment]]
  <2>1. assigned' = assigned \/ CommitDecide(t)
    BY DEF Begin, Continue, BeginCreate, BeginActivate, BeginDecide, CheckReview,
           StartDemotion, FinishDemotion, LoadDecided, LockError, CommitCreate,
           CommitActivate, tables
  <2>2. CASE CommitDecide(t)
    <3>1. old.v \in Versions /\ old.mine \in Assignment /\ assigned[old.v] \in [Ids -> Assignment]
      BY <1>1, <2>2 DEF CommitDecide, Assigns, ThreadType, TypeInv, TypeOK
    <3>2. assigned' = [assigned EXCEPT ![old.v] =
                         [assigned[old.v] EXCEPT ![old.id] =
                            IF old.mine = NoAssignment THEN @ ELSE old.mine]]
      BY <2>2 DEF CommitDecide
    <3>3. [assigned[old.v] EXCEPT ![old.id] = IF old.mine = NoAssignment THEN @ ELSE old.mine]
            \in [Ids -> Assignment]
      BY <3>1
    <3>4. QED
      BY <3>2, <3>3 DEF TypeInv, TypeOK
  <2>3. QED
    BY <2>1, <2>2 DEF TypeInv, TypeOK
<1>7. crossed' \subseteq Versions /\ raced' \subseteq Versions
  BY DEF Begin, Continue, BeginCreate, BeginActivate, BeginDecide, CheckReview,
         StartDemotion, FinishDemotion, LoadDecided, LockError, CommitCreate,
         CommitActivate, CommitDecide, observed, TypeInv, TypeOK
<1>8. QED
  BY <1>3, <1>4, <1>5, <1>6, <1>7

LEMMA StepBecomes ==
  ASSUME TypeInv, NEW t \in Threads, Begin(t) \/ Continue(t)
  PROVE  \E s : Becomes(t, s)
  BY BeginsBecome, ContinuesBecome

LEMMA TypeStep == TypeInv /\ [Next]_vars => TypeInv'
<1> SUFFICES ASSUME TypeInv, [Next]_vars
             PROVE  TypeInv'
  OBVIOUS
<1>1. ASSUME NEW t \in Threads, Begin(t) \/ Continue(t)
      PROVE  TypeInv'
  <2>1. PICK s : Becomes(t, s)
    BY <1>1, StepBecomes
  <2>2. thread \in [Threads -> ThreadType] /\ \A u \in Threads : Assigns(thread[u])
    BY DEF TypeInv, TypeOK, ThreadType
  <2>3. thread' \in [Threads -> ThreadType] /\ \A u \in Threads : Assigns(thread'[u])
    BY <2>1, <2>2 DEF Becomes
  <2>4. \A u \in Threads : Assigns(thread[u])'
    BY <2>3 DEF Assigns
  <2>5. TypeOK'
    BY <1>1, <2>3, TablesType DEF TypeOK, ThreadType
  <2>6. QED
    BY <2>4, <2>5 DEF TypeInv
<1>2. CASE UNCHANGED vars
  BY <1>2 DEF vars, tables, observed, TypeInv, TypeOK, Assigns
<1>3. QED
  BY <1>1, <1>2 DEF Next

LEMMA TypeInit == Init => TypeInv
<1>1. SUFFICES ASSUME Init
               PROVE  TypeInv
  OBVIOUS
<1>2. thread \in [Threads -> ThreadType] /\ \A t \in Threads : Assigns(thread[t])
  BY <1>1, IdleType DEF Init
<1>3. row \in [Versions -> RowStatuses]
  BY <1>1 DEF Init, RowStatuses
<1>4. /\ verdict \in [Versions -> Outcomes \cup {"none"}]
      /\ assigned \in [Versions -> [Ids -> Assignment]]
  BY <1>1 DEF Init, Outcomes, Assignment
<1>5. QED
  BY <1>1, <1>2, <1>3, <1>4 DEF Init, TypeInv, TypeOK, ThreadType

\* The handlers keep their types (create_asset_version, activate_version,
\* decide_review).
THEOREM TypeCorrect == Spec => []TypeOK
<1>1. TypeInv => TypeOK
  BY DEF TypeInv
<1>2. QED
  BY <1>1, TypeInit, TypeStep, PTL DEF Spec

-------------------------------------------------------------------------------
(* One active version.                                                      *)

Actives == {v \in Versions : row[v] = "active"}

\* From the UPDATE to the COMMIT a promotion holds the write lock, and what it
\* matched or demoted is what is active but its own version.
Holds(t) ==
  /\ thread[t].pc = "updating" =>
       writer = t /\ thread[t].matched = Actives \ {thread[t].v}
  /\ thread[t].pc = "ready" /\ thread[t].new = "active" =>
       writer = t /\ thread[t].demoted = Actives \ {thread[t].v}

LockInv == AtMostOneActive /\ \A t \in Threads : Holds(t)

\* While one thread holds the lock, no other changes a row or takes the lock.
LEMMA LockExcludes ==
  ASSUME TypeInv, LockInv, Isolation = "sqlite",
         NEW t \in Threads, Begin(t) \/ Continue(t), NEW u \in Threads \ {t}, writer = u
  PROVE  writer' = u /\ row' = row
<1>1. t # Nobody /\ u # Nobody
  BY ActivationAssumption
<1>2. ~CanWrite(t)
  BY <1>1 DEF CanWrite
<1>3. Reply(t) \/ UNCHANGED writer => writer' = u
  BY DEF Reply, Unlocked
<1>4. ~CommitActivate(t)
  BY DEF CommitActivate, LockInv, Holds, TypeInv, Assigns
<1>5. QED
  BY <1>2, <1>3, <1>4 DEF Begin, Continue, BeginCreate, BeginActivate, BeginDecide, CheckReview,
     StartDemotion, FinishDemotion, LoadDecided, LockError, CommitCreate, CommitDecide, tables

\* A COMMIT of anything else leaves what is active as it is, or less of it.
LEMMA CommitKeepsOne ==
  ASSUME TypeInv, LockInv, NEW t \in Threads,
         CommitCreate(t) \/ CommitActivate(t) \/ CommitDecide(t)
  PROVE  AtMostOneActive'
<1> DEFINE s == thread[t]
<1>1. Assigns(s) /\ Holds(t) /\ s.pc = "ready"
  BY DEF TypeInv, LockInv, CommitCreate, CommitActivate, CommitDecide
<1>2. SUFFICES ASSUME Committed(t)
               PROVE  AtMostOneActive'
  BY DEF LockInv, AtMostOneActive, CommitCreate, CommitActivate, CommitDecide
<1>3. CASE s.new = "active"
  <2>1. s.demoted = Actives \ {s.v}
    BY <1>1, <1>3 DEF Holds
  <2>2. \A v \in Versions \ {s.v} : row'[v] # "active"
    BY <1>2, <2>1 DEF Committed, Actives
  <2>3. QED
    BY <2>2 DEF AtMostOneActive
<1>4. CASE s.new # "active"
  <2>1. \A v \in Versions : row'[v] = "active" => row[v] = "active"
    BY <1>2, <1>4 DEF Committed
  <2>2. QED
    BY <2>1 DEF LockInv, AtMostOneActive
<1>5. QED
  BY <1>3, <1>4

\* What a decision knows once it has loaded the version.
LEMMA LoadedThread ==
  ASSUME TypeInv, NEW t \in Threads, LoadDecided(t)
  PROVE  /\ thread'[t].pc = "ready" /\ thread'[t].op = "decide"
         /\ thread'[t].v = thread[t].v /\ thread'[t].new = thread[t].new
         /\ thread'[t].settled = thread[t].settled /\ thread'[t].mine = thread[t].mine
         /\ thread'[t].same = (row[thread[t].v] = thread[t].new)
         /\ thread[t].id # 0 => thread'[t].id = thread[t].id
         /\ thread[t].id = 0 => thread'[t].id \in FreeIds(thread[t].v)
<1> DEFINE old == thread[t]
           same == row[old.v] = old.new
<1>1. old \in ThreadType /\ thread \in [Threads -> ThreadType] /\ old.op = "decide"
  BY DEF TypeInv, TypeOK, ThreadType, LoadDecided
<1>2. CASE old.id = 0
  <2>1. PICK i \in FreeIds(old.v) :
          thread' = [thread EXCEPT ![t] =
                       [old EXCEPT !.pc = "ready", !.id = i, !.same = same]]
    BY <1>2, FirstDecisionLoads
  <2> HIDE DEF same
  <2>2. thread'[t] = [old EXCEPT !.pc = "ready", !.id = i, !.same = same]
    BY <1>1, <2>1
  <2>3. QED
    BY <1>1, <1>2, <2>2 DEF ThreadType, same
<1>3. CASE old.id # 0
  <2>1. thread' = [thread EXCEPT ![t] = [old EXCEPT !.pc = "ready", !.same = same]]
    BY <1>3 DEF LoadDecided
  <2> HIDE DEF same
  <2>2. thread'[t] = [old EXCEPT !.pc = "ready", !.same = same]
    BY <1>1, <2>1
  <2>3. QED
    BY <1>1, <1>3, <2>2 DEF ThreadType, same
<1>4. QED
  BY <1>2, <1>3

LEMMA LockStep == Isolation = "sqlite" /\ TypeInv /\ LockInv /\ [Next]_vars => LockInv'
<1> SUFFICES ASSUME Isolation = "sqlite", TypeInv, LockInv, [Next]_vars
             PROVE  LockInv'
  OBVIOUS
<1>1. ASSUME NEW t \in Threads, Begin(t) \/ Continue(t)
      PROVE  LockInv'
  <2>1. PICK s : Becomes(t, s)
    BY <1>1, StepBecomes
  <2>2. \A u \in Threads \ {t} : thread'[u] = thread[u]
    BY <2>1 DEF Becomes, TypeInv, TypeOK
  <2>3. ASSUME NEW u \in Threads \ {t}
        PROVE  Holds(u)'
    <3>1. CASE writer = u
      BY <1>1, <2>2, <3>1, LockExcludes DEF LockInv, Holds, Actives
    <3>2. CASE writer # u
      BY <2>2, <3>2 DEF LockInv, Holds
    <3>3. QED
      BY <3>1, <3>2
  <2>4. Holds(t)'
    <3>1. CASE StartDemotion(t)
      <4>1. writer' = t /\ row' = row /\ thread'[t].pc = "updating"
            /\ thread'[t].v = thread[t].v
            /\ thread'[t].matched = {v \in Versions \ {thread[t].v} : row[v] = "active"}
        BY <3>1 DEF StartDemotion, Lock, tables, TypeInv, TypeOK
      <4>2. QED
        BY <4>1 DEF Holds, Actives
    <3>2. CASE FinishDemotion(t)
      <4>1. writer' = writer /\ row' = row /\ thread'[t].pc = "ready"
            /\ thread'[t].v = thread[t].v
            /\ thread'[t].demoted = {v \in thread[t].matched : row[v] = "active"}
        BY <3>2 DEF FinishDemotion, tables, TypeInv, TypeOK
      <4>2. writer = t /\ thread[t].matched = Actives \ {thread[t].v}
        BY <3>2 DEF FinishDemotion, LockInv, Holds
      <4>3. QED
        BY <4>1, <4>2 DEF Holds, Actives
    <3>3. CASE LoadDecided(t)
      <4>1. thread'[t].pc = "ready" /\ thread'[t].new = thread[t].new
        BY <3>3, LoadedThread
      <4>2. thread[t].new # "active"
        BY <3>3 DEF LoadDecided, TypeInv, Assigns, Outcomes
      <4>3. QED
        BY <4>1, <4>2 DEF Holds
    <3>4. CASE CheckReview(t)
      <4>1. thread'[t].pc \in {"cleared", "idle"}
        BY <3>4 DEF CheckReview, Reply, Idle, TypeInv, TypeOK
      <4>2. QED
        BY <4>1 DEF Holds
    <3>5. CASE LockError(t) \/ CommitCreate(t) \/ CommitActivate(t) \/ CommitDecide(t)
      <4>1. thread'[t].pc = "idle"
        BY <3>5 DEF LockError, CommitCreate, CommitActivate, CommitDecide, Reply, Idle,
                    TypeInv, TypeOK
      <4>2. QED
        BY <4>1 DEF Holds
    <3>6. CASE Begin(t)
      <4>1. ASSUME NEW v \in Versions, NEW b \in BOOLEAN, BeginCreate(t, v, b)
            PROVE  thread'[t].pc \in {"cleared", "ready"}
                   /\ (thread'[t].pc = "ready" => thread'[t].new = "draft")
        BY <4>1 DEF BeginCreate, Working, Idle, TypeInv, TypeOK
      <4>2. ASSUME NEW v \in Versions, BeginActivate(t, v)
            PROVE  thread'[t].pc = "begun"
        BY <4>2 DEF BeginActivate, Working, Idle, TypeInv, TypeOK
      <4>3. ASSUME NEW v \in Versions, NEW who \in Reviewers, NEW is \in Decisions,
                   BeginDecide(t, v, who, is)
            PROVE  thread'[t].pc = "begun"
        BY <4>3 DEF BeginDecide, Working, Idle, TypeInv, TypeOK
      <4>4. QED
        BY <3>6, <4>1, <4>2, <4>3 DEF Begin, Holds
    <3>7. QED
      BY <1>1, <3>1, <3>2, <3>3, <3>4, <3>5, <3>6 DEF Continue
  <2>5. AtMostOneActive'
    <3>1. CASE CommitCreate(t) \/ CommitActivate(t) \/ CommitDecide(t)
      BY <3>1, CommitKeepsOne
    <3>2. CASE row' = row
      BY <3>2 DEF LockInv, AtMostOneActive
    <3>3. QED
      BY <1>1, <3>1, <3>2 DEF Begin, Continue, BeginCreate, BeginActivate, BeginDecide,
         CheckReview, StartDemotion, FinishDemotion, LoadDecided, LockError, tables
  <2>6. QED
    BY <2>3, <2>4, <2>5 DEF LockInv
<1>2. CASE UNCHANGED vars
  BY <1>2 DEF vars, tables, LockInv, AtMostOneActive, Holds, Actives
<1>3. QED
  BY <1>1, <1>2 DEF Next

LEMMA LockInit == Init => LockInv
  BY DEF Init, LockInv, AtMostOneActive, Holds, Idle

\* On the default database at most one version of the asset is active, however
\* the handlers' statements interleave (activate_version, create_asset_version,
\* decide_review).
THEOREM OneActiveOnSqlite ==
  ASSUME Isolation = "sqlite"
  PROVE  Spec => []AtMostOneActive
<1>1. TypeInv /\ LockInv /\ [Next]_vars => LockInv'
  BY LockStep
<1>2. LockInv => AtMostOneActive
  BY DEF LockInv
<1>3. QED
  BY <1>1, <1>2, TypeInit, TypeStep, LockInit, PTL DEF Spec

-------------------------------------------------------------------------------
(* Decisions and activations, on either database.                           *)

Steps(t) ==
  \/ Begin(t) \/ CheckReview(t) \/ StartDemotion(t) \/ FinishDemotion(t)
  \/ LoadDecided(t) \/ LockError(t)

Commits(t) == CommitCreate(t) \/ CommitActivate(t) \/ CommitDecide(t)

\* Only a COMMIT changes a table, only a beginning what is observed.
LEMMA StepsKeepTables ==
  ASSUME NEW t \in Threads, Steps(t)
  PROVE  row' = row /\ verdict' = verdict /\ assigned' = assigned
  BY DEF Steps, Begin, BeginCreate, BeginActivate, BeginDecide, CheckReview, StartDemotion,
         FinishDemotion, LoadDecided, LockError, tables

LEMMA ObservedGrows ==
  ASSUME NEW t \in Threads, Begin(t) \/ Continue(t)
  PROVE  raced \subseteq raced' /\ crossed \subseteq crossed'
  BY DEF Continue, Begin, BeginCreate, BeginActivate, BeginDecide, CheckReview, StartDemotion,
         FinishDemotion, LoadDecided, LockError, CommitCreate, CommitActivate, CommitDecide,
         observed

\* A handler works on one version by one operation until it rests.
LEMMA SameWork ==
  ASSUME TypeInv, NEW t \in Threads, Begin(t) \/ Continue(t)
  PROVE  /\ \A u \in Threads \ {t} : thread'[u] = thread[u]
         /\ Commits(t) => thread'[t].op = "none"
         /\ Steps(t) /\ ~Begin(t) =>
              \/ thread'[t].op = "none"
              \/ /\ thread'[t].op = thread[t].op /\ thread'[t].v = thread[t].v
                 /\ thread'[t].op = "activate" /\ thread'[t].settled # thread[t].settled =>
                      CheckReview(t)
<1>1. \A u \in Threads \ {t} : thread'[u] = thread[u]
  BY StepBecomes DEF Becomes, TypeInv, TypeOK
<1>2. Reply(t) => thread'[t].op = "none"
  BY DEF Reply, Idle, TypeInv, TypeOK
<1>3. Commits(t) => Reply(t)
  BY DEF Commits, CommitCreate, CommitActivate, CommitDecide
<1>4. CheckReview(t) =>
        \/ Reply(t)
        \/ thread'[t].op = thread[t].op /\ thread'[t].v = thread[t].v
  <2> DEFINE b == verdict[thread[t].v] \in {"none", "approved"}
  <2>1. CheckReview(t) =>
          Reply(t) \/ thread' = [thread EXCEPT ![t] =
                                  [thread[t] EXCEPT !.pc = "cleared", !.settled = b]]
    BY DEF CheckReview
  <2> HIDE DEF b
  <2>2. thread \in [Threads -> ThreadType]
    BY DEF TypeInv, TypeOK, ThreadType
  <2>3. thread[t] \in ThreadType
    BY <2>2
  <2> DEFINE s == [thread[t] EXCEPT !.pc = "cleared", !.settled = b]
  <2>4. s.op = thread[t].op /\ s.v = thread[t].v
    BY <2>3 DEF ThreadType
  <2>5. CheckReview(t) => Reply(t) \/ thread' = [thread EXCEPT ![t] = s]
    BY <2>1
  <2> HIDE DEF s
  <2>6. thread' = [thread EXCEPT ![t] = s] => thread'[t] = s
    BY <2>2
  <2>7. QED
    BY <2>4, <2>5, <2>6
<1>5. StartDemotion(t) \/ FinishDemotion(t) =>
        /\ thread'[t].op = thread[t].op /\ thread'[t].v = thread[t].v
        /\ thread'[t].settled = thread[t].settled
  BY DEF StartDemotion, FinishDemotion, TypeInv, TypeOK
<1>6. LoadDecided(t) => thread'[t].op = thread[t].op /\ thread'[t].v = thread[t].v
                        /\ thread'[t].op = "decide"
  BY LoadedThread DEF LoadDecided
<1>7. LockError(t) => Reply(t)
  BY DEF LockError
<1>8. QED
  BY <1>1, <1>2, <1>3, <1>4, <1>5, <1>6, <1>7 DEF Steps

\* What a beginning makes of its thread.
LEMMA BegunThread ==
  ASSUME TypeInv, NEW t \in Threads, Begin(t)
  PROVE  /\ thread[t].op = "none"
         /\ \E v \in Versions :
              /\ thread'[t].v = v
              /\ \/ thread'[t].op = "create" /\ row[v] = "absent"
                 \/ /\ thread'[t].op = "activate" /\ thread'[t].pc = "begun"
                    /\ Deciding(v) # {} => v \in raced'
                 \/ /\ thread'[t].op = "decide" /\ thread'[t].pc = "begun"
                    /\ verdict[v] # "none"
                    /\ (Activating(v) # {} => v \in raced')
                    /\ (Deciding(v) # {} => v \in crossed')
<1>1. thread[t].op = "none" /\ thread \in [Threads -> ThreadType]
  BY DEF Begin, BeginCreate, BeginActivate, BeginDecide, TypeInv, TypeOK, ThreadType, Assigns
<1>2. ASSUME NEW v \in Versions, NEW b \in BOOLEAN, BeginCreate(t, v, b)
      PROVE  thread'[t].v = v /\ thread'[t].op = "create" /\ row[v] = "absent"
  BY <1>1, <1>2 DEF BeginCreate, Working, Idle
<1>3. ASSUME NEW v \in Versions, BeginActivate(t, v)
      PROVE  /\ thread'[t].v = v /\ thread'[t].op = "activate" /\ thread'[t].pc = "begun"
             /\ Deciding(v) # {} => v \in raced'
  BY <1>1, <1>3 DEF BeginActivate, Working, Idle
<1>4. ASSUME NEW v \in Versions, NEW who \in Reviewers, NEW is \in Decisions,
             BeginDecide(t, v, who, is)
      PROVE  /\ thread'[t].v = v /\ thread'[t].op = "decide" /\ thread'[t].pc = "begun"
             /\ verdict[v] # "none"
             /\ Activating(v) # {} => v \in raced'
             /\ Deciding(v) # {} => v \in crossed'
  BY <1>1, <1>4 DEF BeginDecide, Working, Idle
<1>5. CASE \E v \in Versions, b \in BOOLEAN : BeginCreate(t, v, b)
  BY <1>1, <1>2, <1>5
<1>6. CASE \E v \in Versions : BeginActivate(t, v)
  BY <1>1, <1>3, <1>6
<1>7. CASE \E v \in Versions, who \in Reviewers, is \in Decisions : BeginDecide(t, v, who, is)
  BY <1>1, <1>4, <1>7
<1>8. QED
  BY <1>5, <1>6, <1>7 DEF Begin

Works(t, op, v) == thread[t].op = op /\ thread[t].v = v

\* The check is behind the activation of v.
Checked(t, v) == Works(t, "activate", v) /\ thread[t].pc # "begun"

(***************************************************************************)
(* Unless a decision on v and an activation of v overlapped, an activation *)
(* that passed its check still has its approvals, and a decision that      *)
(* found the status it wants finds no active version at its COMMIT.        *)
(***************************************************************************)
ClearedInv ==
  \A v \in Versions :
    /\ verdict[v] # "none" => row[v] # "absent"
    /\ \A t \in Threads : Works(t, "decide", v) => verdict[v] # "none"
    /\ \A t \in Threads : Checked(t, v) /\ ~thread[t].settled => verdict[v] # "none"
    /\ \A t, u \in Threads : Works(t, "decide", v) /\ Works(u, "activate", v) => v \in raced
    /\ v \notin raced =>
         /\ row[v] = "active" /\ verdict[v] # "none" => Tally(assigned[v]) = "approved"
         /\ \A t \in Threads :
              Checked(t, v) /\ verdict[v] # "none" => Tally(assigned[v]) = "approved"
         /\ \A t \in Threads :
              Works(t, "decide", v) /\ thread[t].pc = "ready" /\ thread[t].same =>
                row[v] # "active"

LEMMA ClearedSteps ==
  ASSUME TypeInv, ClearedInv, NEW t \in Threads, Steps(t)
  PROVE  ClearedInv'
<1>1. SUFFICES ASSUME NEW v \in Versions
               PROVE  /\ \A u \in Threads : Works(u, "decide", v)' => verdict[v] # "none"
                      /\ \A u \in Threads : Checked(u, v)' /\ ~thread'[u].settled =>
                                              verdict[v] # "none"
                      /\ \A x, u \in Threads : Works(x, "decide", v)' /\ Works(u, "activate", v)'
                                                => v \in raced'
                      /\ v \notin raced' =>
                         /\ \A u \in Threads : Checked(u, v)' /\ verdict[v] # "none" =>
                                                 Tally(assigned[v]) = "approved"
                         /\ \A u \in Threads :
                              Works(u, "decide", v)' /\ thread'[u].pc = "ready" /\ thread'[u].same
                                => row[v] # "active"
  <2>1. row' = row /\ verdict' = verdict /\ assigned' = assigned /\ raced \subseteq raced'
    BY StepsKeepTables, ObservedGrows DEF Steps, Continue
  <2>2. \A v \in Versions : Tally(assigned[v])' = Tally(assigned[v])
    BY <2>1 DEF Tally, By
  <2>3. QED
    BY <1>1, <2>1, <2>2 DEF ClearedInv
<1>2. /\ \A u \in Threads \ {t} : thread'[u] = thread[u]
      /\ raced \subseteq raced'
  BY SameWork, ObservedGrows DEF Steps, Continue
<1>3. \A u \in Threads \ {t}, op \in {"decide", "activate"} :
        /\ Works(u, op, v)' <=> Works(u, op, v)
        /\ Checked(u, v)' <=> Checked(u, v)
  BY <1>2 DEF Works, Checked
<1>4. CASE Begin(t)
  <2>1. /\ \/ ~Works(t, "activate", v)'
           \/ thread'[t].pc = "begun" /\ (Deciding(v) # {} => v \in raced')
        /\ \/ ~Works(t, "decide", v)'
           \/ /\ thread'[t].pc = "begun" /\ verdict[v] # "none"
              /\ Activating(v) # {} => v \in raced'
        /\ ~(Works(t, "decide", v)' /\ Works(t, "activate", v)')
    BY <1>4, BegunThread DEF Works
  <2>2. \A u \in Threads : /\ Works(u, "decide", v) => Deciding(v) # {}
                           /\ Works(u, "activate", v) => Activating(v) # {}
    BY DEF Works, Deciding, Activating
  <2>3. ~Checked(t, v)'
    BY <2>1 DEF Checked
  <2>4. QED
    BY <1>2, <1>3, <2>1, <2>2, <2>3 DEF ClearedInv
<1>5. CASE ~Begin(t)
  <2>1. \/ thread'[t].op = "none"
        \/ /\ thread'[t].op = thread[t].op /\ thread'[t].v = thread[t].v
           /\ thread'[t].op = "activate" /\ thread'[t].settled # thread[t].settled =>
                CheckReview(t)
    BY <1>5, SameWork DEF Steps, Continue
  <2>2. \A op \in {"decide", "activate"} : Works(t, op, v)' => Works(t, op, v)
    BY <2>1 DEF Works
  <2>3. Checked(t, v)' /\ ~Checked(t, v) => CheckReview(t) /\ Works(t, "activate", v)
    <3>1. StartDemotion(t) \/ FinishDemotion(t) => thread[t].pc # "begun"
      BY DEF StartDemotion, FinishDemotion
    <3>2. LoadDecided(t) => thread[t].op = "decide"
      BY DEF LoadDecided
    <3>3. LockError(t) => thread'[t].op = "none"
      BY DEF LockError, Reply, Idle, TypeInv, TypeOK
    <3>4. QED
      BY <1>5, <2>2, <3>1, <3>2, <3>3 DEF Steps, Works, Checked
  <2>4. CheckReview(t) /\ Checked(t, v)' =>
          /\ verdict[v] = "none" \/ Tally(assigned[v]) = "approved"
          /\ verdict[v] = "none" => thread'[t].settled
    BY <2>2 DEF CheckReview, Cleared, Checked, Works, Reply, Idle, TypeInv, TypeOK
  <2>5. Works(t, "decide", v)' /\ thread'[t].pc = "ready" /\ thread'[t].same =>
          row[v] \in Outcomes
    <3>1. LoadDecided(t) => row[thread[t].v] = thread[t].new \/ ~thread'[t].same
      BY LoadedThread
    <3>2. LoadDecided(t) => thread[t].new \in Outcomes
      BY DEF LoadDecided, TypeInv, Assigns
    <3>3. CheckReview(t) \/ StartDemotion(t) \/ FinishDemotion(t) => thread[t].op # "decide"
      BY DEF CheckReview, StartDemotion, FinishDemotion, TypeInv, Assigns
    <3>4. LockError(t) => thread'[t].op = "none"
      BY DEF LockError, Reply, Idle, TypeInv, TypeOK
    <3>5. QED
      BY <1>5, <2>2, <3>1, <3>2, <3>3, <3>4 DEF Steps, Works
  <2>6. CASE CheckReview(t) /\ Checked(t, v)'
    <3>1. ~Works(t, "decide", v)'
      BY <2>6 DEF Checked, Works
    <3>2. QED
      BY <1>2, <1>3, <2>2, <2>4, <2>6, <3>1 DEF ClearedInv
  <2>7. CASE ~(CheckReview(t) /\ Checked(t, v)')
    <3>1. Checked(t, v)' => Checked(t, v) /\ thread'[t].settled = thread[t].settled
      BY <2>1, <2>3, <2>7 DEF Checked, Works
    <3>2. QED
      BY <1>2, <1>3, <2>2, <2>5, <3>1 DEF ClearedInv, Outcomes
  <2>8. QED
    BY <2>6, <2>7
<1>6. QED
  BY <1>4, <1>5

\* A COMMIT on one version leaves what the others' handlers rely on.
LEMMA CommitFacts ==
  ASSUME TypeInv, ClearedInv, NEW t \in Threads, Commits(t)
  PROVE  /\ thread[t].pc = "ready" /\ thread[t].v \in Versions
         /\ thread'[t].op = "none" /\ raced' = raced /\ crossed' = crossed
         /\ \A v \in Versions : /\ verdict'[v] = "none" <=> verdict[v] = "none"
                                /\ row[v] # "absent" => row'[v] # "absent"
                                /\ ~Works(t, "decide", v) => assigned'[v] = assigned[v]
                                /\ (v # thread[t].v /\ row'[v] = "active") => row[v] = "active"
         /\ thread[t].op = "decide" => row'[thread[t].v] \in Outcomes \cup {row[thread[t].v]}
         /\ thread[t].op = "create" => \/ row'[thread[t].v] = row[thread[t].v]
                                       \/ row[thread[t].v] = "absent"
         /\ thread[t].op \in {"create", "activate", "decide"}
         /\ thread[t].op = "decide" /\ ~thread[t].same => row'[thread[t].v] \in Outcomes
<1> DEFINE s == thread[t]
<1>1. s \in ThreadType /\ Assigns(s) /\ s.pc = "ready" /\ s.v \in Versions
      /\ s.op \in {"create", "activate", "decide"}
  BY DEF TypeInv, TypeOK, ThreadType, Assigns, Commits, CommitCreate, CommitActivate, CommitDecide
<1>2. thread'[t].op = "none" /\ raced' = raced /\ crossed' = crossed
  BY SameWork DEF Continue, Commits, CommitCreate, CommitActivate, CommitDecide, observed
<1>3. Committed(t) \/ row' = row
  BY DEF Commits, CommitCreate, CommitActivate, CommitDecide
<1>4. /\ s.new # "absent"
      /\ s.op = "decide" => s.new \in Outcomes /\ s.demoted = {}
  BY <1>1 DEF Assigns, Outcomes
<1>5. ASSUME NEW v \in Versions
      PROVE  /\ row[v] # "absent" => row'[v] # "absent"
             /\ (v # s.v /\ row'[v] = "active") => row[v] = "active"
             /\ v = s.v /\ s.op = "decide" => row'[v] \in Outcomes \cup {row[v]}
             /\ v = s.v /\ s.op = "decide" /\ Committed(t) /\ ~s.same => row'[v] \in Outcomes
  BY <1>3, <1>4 DEF Committed
<1>6. s.op = "decide" => CommitDecide(t) /\ Committed(t)
  BY DEF Commits, CommitCreate, CommitActivate, CommitDecide
<1>7. s.op = "create" => row' = row \/ row[s.v] = "absent"
  BY DEF Commits, CommitCreate, CommitActivate, CommitDecide
<1>8. ASSUME NEW v \in Versions
      PROVE  verdict'[v] = "none" <=> verdict[v] = "none"
  <2>1. CASE CommitCreate(t)
    BY <2>1 DEF CommitCreate
  <2>2. CASE CommitActivate(t)
    <3>1. v = s.v /\ ~s.settled => verdict[v] # "none"
      BY <2>2 DEF CommitActivate, ClearedInv, Checked, Works
    <3>2. QED
      BY <2>2, <3>1 DEF CommitActivate, TypeInv, TypeOK
  <2>3. CASE CommitDecide(t)
    <3>1. s.op = "decide" /\ verdict[s.v] # "none"
      BY <1>1, <2>3 DEF CommitDecide, ClearedInv, Works
    <3>2. QED
      BY <1>4, <2>3, <3>1 DEF CommitDecide, Outcomes, TypeInv, TypeOK
  <2>4. QED
    BY <2>1, <2>2, <2>3 DEF Commits
<1>9. ASSUME NEW v \in Versions, ~Works(t, "decide", v)
      PROVE  assigned'[v] = assigned[v]
  BY <1>9 DEF Works, Commits, CommitCreate, CommitActivate, CommitDecide, TypeInv, TypeOK
<1>10. QED
  BY <1>1, <1>2, <1>5, <1>6, <1>7, <1>8, <1>9

LEMMA ClearedCommits ==
  ASSUME TypeInv, ClearedInv, NEW t \in Threads, Commits(t)
  PROVE  ClearedInv'
<1>1. /\ \A u \in Threads \ {t} : thread'[u] = thread[u]
      /\ thread'[t].op = "none" /\ raced' = raced
  BY SameWork, CommitFacts DEF Commits, Continue
<1>2. \A u \in Threads, v \in Versions, op \in {"decide", "activate"} :
        /\ Works(u, op, v)' => u # t /\ Works(u, op, v)
        /\ Checked(u, v)' => u # t /\ Checked(u, v) /\ thread'[u].settled = thread[u].settled
  BY <1>1 DEF Works, Checked
<1>3. SUFFICES ASSUME NEW v \in Versions, v \notin raced
               PROVE  /\ row'[v] = "active" /\ verdict[v] # "none" => Tally(assigned'[v]) = "approved"
                      /\ \A u \in Threads :
                           Checked(u, v)' /\ verdict[v] # "none" => Tally(assigned'[v]) = "approved"
                      /\ \A u \in Threads :
                           Works(u, "decide", v)' /\ thread'[u].pc = "ready" /\ thread'[u].same =>
                             row'[v] # "active"
  <2>1. \A v \in Versions : Tally(assigned[v])' = Tally(assigned'[v])
    BY DEF Tally, By
  <2>2. \A v \in Versions : /\ verdict'[v] = "none" <=> verdict[v] = "none"
                            /\ row[v] # "absent" => row'[v] # "absent"
    BY CommitFacts
  <2>3. QED
    BY <1>1, <1>2, <1>3, <2>1, <2>2 DEF ClearedInv
<1>4. ASSUME row'[v] = "active", row[v] # "active", verdict[v] # "none"
      PROVE  Works(t, "activate", v)
  <2>1. v = thread[t].v /\ thread[t].op \in {"create", "activate", "decide"}
    BY <1>4, CommitFacts
  <2>2. row[v] # "absent"
    BY <1>4 DEF ClearedInv
  <2>3. QED
    BY <1>4, <2>1, <2>2, CommitFacts DEF Works, Outcomes
<1>5. CASE Works(t, "decide", v)
  <2>1. \A u \in Threads : ~Works(u, "activate", v)
    BY <1>3, <1>5 DEF ClearedInv
  <2>2. row'[v] # "active"
    <3>1. thread[t].pc = "ready" /\ v = thread[t].v /\ thread[t].op = "decide"
      BY <1>5, CommitFacts DEF Works
    <3>2. CASE thread[t].same
      BY <1>3, <1>5, <3>1, <3>2, CommitFacts DEF ClearedInv, Outcomes
    <3>3. CASE ~thread[t].same
      BY <3>1, <3>3, CommitFacts DEF Outcomes
    <3>4. QED
      BY <3>2, <3>3
  <2>3. QED
    BY <1>2, <2>1, <2>2 DEF Checked
<1>6. CASE ~Works(t, "decide", v)
  <2>1. assigned'[v] = assigned[v]
    BY <1>6, CommitFacts
  <2>2. Works(t, "activate", v) => Checked(t, v)
    BY CommitFacts DEF Checked
  <2>3. Works(t, "activate", v) => \A u \in Threads : ~Works(u, "decide", v)
    BY <1>3 DEF ClearedInv
  <2>4. ASSUME NEW u \in Threads, Works(u, "decide", v)', thread'[u].pc = "ready", thread'[u].same
        PROVE  row'[v] # "active"
    <3>1. u # t /\ Works(u, "decide", v) /\ thread[u].pc = "ready" /\ thread[u].same
      BY <1>1, <1>2, <2>4
    <3>2. row[v] # "active" /\ verdict[v] # "none"
      BY <1>3, <3>1 DEF ClearedInv
    <3>3. QED
      BY <1>4, <2>3, <3>1, <3>2
  <2>5. QED
    BY <1>2, <1>3, <1>4, <2>1, <2>2, <2>4 DEF ClearedInv
<1>7. QED
  BY <1>5, <1>6

LEMMA ClearedStep == TypeInv /\ ClearedInv /\ [Next]_vars => ClearedInv'
<1> SUFFICES ASSUME TypeInv, ClearedInv, [Next]_vars
             PROVE  ClearedInv'
  OBVIOUS
<1>1. CASE UNCHANGED vars
  <2>1. /\ row' = row /\ verdict' = verdict /\ assigned' = assigned
        /\ thread' = thread /\ raced' = raced
    BY <1>1 DEF vars, tables, observed
  <2>2. \A v : Tally(assigned[v])' = Tally(assigned[v])
    BY <2>1 DEF Tally, By
  <2>3. \A t, v, op : /\ Works(t, op, v)' <=> Works(t, op, v)
                      /\ Checked(t, v)' <=> Checked(t, v)
    BY <2>1 DEF Works, Checked
  <2>4. QED
    BY <2>1, <2>2, <2>3 DEF ClearedInv
<1>2. QED
  BY <1>1, ClearedSteps, ClearedCommits DEF Next, Continue, Steps, Commits

LEMMA ClearedInit == Init => ClearedInv
<1>1. SUFFICES ASSUME Init
               PROVE  ClearedInv
  OBVIOUS
<1>2. \A t \in Threads : thread[t].op = "none"
  BY <1>1 DEF Init, Idle
<1>3. \A v \in Versions : /\ verdict[v] # "none" => row[v] # "absent"
                          /\ row[v] # "active"
  BY <1>1 DEF Init
<1>4. QED
  BY <1>2, <1>3 DEF ClearedInv, Checked, Works

\* A version becomes active only with the approvals on record that its request
\* asks for, on either database, unless a decision came while the activation ran
\* (activate_version, _update_review_status, decide_review).
THEOREM ActiveOnesAreCleared == Spec => []ActiveIsCleared
<1>1. ClearedInv => ActiveIsCleared
  BY DEF ClearedInv, ActiveIsCleared
<1>2. QED
  BY <1>1, TypeInit, TypeStep, ClearedInit, ClearedStep, PTL DEF Spec

-------------------------------------------------------------------------------
(* The decisions on record.                                                 *)

\* A place in an assignment list is as good as another: the tally counts.
LEMMA TallyAnywhere ==
  ASSUME NEW rows \in [Ids -> Assignment], NEW mine \in Assignment, mine.by \in Reviewers,
         NEW i \in Ids, NEW k \in Ids, rows[i] = NoAssignment, rows[k] = NoAssignment
  PROVE  Tally([rows EXCEPT ![i] = mine]) = Tally([rows EXCEPT ![k] = mine])
<1>1. IsFiniteSet(Ids)
  BY ActivationAssumption, FS_Interval DEF Ids
<1>2. ASSUME NEW is, NEW x \in Ids, rows[x] = NoAssignment
      PROVE  /\ By([rows EXCEPT ![x] = mine], Reviewers, is) =
                  IF mine.is = is THEN By(rows, Reviewers, is) \cup {x}
                                  ELSE By(rows, Reviewers, is)
             /\ x \notin By(rows, Reviewers, is)
  BY <1>2, ActivationAssumption DEF By, NoAssignment
<1>3. ASSUME NEW is
      PROVE  IsFiniteSet(By(rows, Reviewers, is))
  <2>1. By(rows, Reviewers, is) \in SUBSET Ids
    BY DEF By
  <2>2. QED
    BY <1>1, <2>1, FS_Subset
<1>4. ASSUME NEW is
      PROVE  /\ Cardinality(By([rows EXCEPT ![i] = mine], Reviewers, is)) =
                  Cardinality(By([rows EXCEPT ![k] = mine], Reviewers, is))
             /\ By([rows EXCEPT ![i] = mine], Reviewers, is) = {} <=>
                  By([rows EXCEPT ![k] = mine], Reviewers, is) = {}
  <2>1. CASE mine.is = is
    <3> DEFINE B == By(rows, Reviewers, is)
    <3>1. i \notin B /\ k \notin B /\ IsFiniteSet(B)
      BY <1>2, <1>3
    <3>2. /\ By([rows EXCEPT ![i] = mine], Reviewers, is) = B \cup {i}
          /\ By([rows EXCEPT ![k] = mine], Reviewers, is) = B \cup {k}
      BY <1>2, <2>1
    <3> HIDE DEF B
    <3>3. /\ Cardinality(B \cup {i}) = Cardinality(B) + 1
          /\ Cardinality(B \cup {k}) = Cardinality(B) + 1
      BY <3>1, FS_AddElement
    <3>4. QED
      BY <3>2, <3>3
  <2>2. CASE mine.is # is
    BY <1>2, <2>2
  <2>3. QED
    BY <2>1, <2>2
<1>5. QED
  BY <1>4 DEF Tally

LEMMA NoTally ==
  ASSUME NEW rows, \A i \in Ids : rows[i] = NoAssignment
  PROVE  Tally(rows) = "review_pending"
<1>1. \A is : By(rows, Reviewers, is) = {}
  BY ActivationAssumption DEF By, NoAssignment
<1>2. Cardinality({}) = 0 /\ ~(0 >= Required)
  BY FS_EmptySet, ActivationAssumption
<1>3. QED
  BY <1>1, <1>2 DEF Tally

\* The assignments as the decision t will leave them.
Decided(s, rows) ==
  IF s.mine = NoAssignment THEN rows ELSE [rows EXCEPT ![s.id] = s.mine]

\* The only decision on a request knows what it will leave: with its own row at
\* the place it has, or in any that is free.
DecisionOK(s, v) ==
  /\ s.settled = (verdict[v] = s.new)
  /\ s.id = 0 =>
       /\ s.pc = "begun" /\ s.mine.by \in Reviewers
       /\ \A i \in Ids : assigned[v][i].by # s.mine.by
       /\ \A i \in Ids : assigned[v][i] = NoAssignment =>
                           s.new = Tally([assigned[v] EXCEPT ![i] = s.mine])
  /\ s.id # 0 =>
       /\ s.new = Tally(Decided(s, assigned[v]))
       /\ s.mine # NoAssignment =>
            /\ s.mine.by \in Reviewers
            /\ \A i \in Ids \ {s.id} : assigned[v][i].by # s.mine.by

OnePerReviewer(v) ==
  \A i, k \in Ids : assigned[v][i].by \in Reviewers /\ assigned[v][i].by = assigned[v][k].by
                      => i = k

DecidedInv ==
  \A v \in Versions \ crossed :
    /\ verdict[v] # "none" => verdict[v] = Tally(assigned[v])
    /\ OnePerReviewer(v)
    /\ \A t, u \in Threads : Works(t, "decide", v) /\ Works(u, "decide", v) => t = u
    /\ \A t \in Threads : Works(t, "decide", v) => DecisionOK(thread[t], v)
    /\ \A t \in Threads : Checked(t, v) => thread[t].settled

\* What a decision finds when it begins (decide_review).
LEMMA BeginDecided ==
  ASSUME TypeInv, DecidedInv, NEW t \in Threads, NEW v \in Versions \ crossed',
         NEW who \in Reviewers, NEW is \in Decisions, BeginDecide(t, v, who, is)
  PROVE  /\ Works(t, "decide", v)' /\ Deciding(v) = {}
         /\ DecisionOK(thread'[t], v)
<1> DEFINE rows == assigned[v]
           own == Own(rows, who)
           mine == [by |-> who, is |-> is]
<1>1. PICK i \in (IF own = {} THEN {0} ELSE own) :
        /\ i = 0 => RoomFor(t, v)
        /\ LET new == Tally(With(rows, i, mine))
           IN thread' = [thread EXCEPT ![t] =
                [Working("begun", "decide", v, new) EXCEPT
                   !.settled = (verdict[v] = new), !.id = i,
                   !.mine = IF i # 0 /\ rows[i] = mine THEN NoAssignment ELSE mine]]
  BY DEF BeginDecide
<1>2. Deciding(v) = {} /\ v \notin crossed
  BY DEF BeginDecide
<1>3. /\ thread \in [Threads -> ThreadType] /\ rows \in [Ids -> Assignment]
      /\ mine \in Assignment /\ mine.by = who /\ mine # NoAssignment /\ 0 \notin Ids
      /\ NoAssignment \in Assignment
  BY ActivationAssumption DEF TypeInv, TypeOK, ThreadType, Assignment, NoAssignment, Ids, Decisions
<1>4. own \subseteq Ids
  BY DEF Own
<1> DEFINE new == Tally(With(rows, i, mine))
           b == verdict[v] = new
           m == IF i # 0 /\ rows[i] = mine THEN NoAssignment ELSE mine
           s == [Working("begun", "decide", v, new) EXCEPT !.settled = b, !.id = i, !.mine = m]
<1>5. b \in BOOLEAN /\ thread' = [thread EXCEPT ![t] = s]
  BY <1>1
<1> HIDE DEF new, b, m
<1>6. /\ s.pc = "begun" /\ s.op = "decide" /\ s.v = v /\ s.new = new /\ s.settled = b
      /\ s.id = i /\ s.mine = m
  BY DEF Working, Idle
<1> HIDE DEF s
<1>7. thread'[t] = s
  BY <1>3, <1>5
<1>8. ASSUME i = 0
      PROVE  /\ m = mine /\ \A k \in Ids : rows[k].by # who
             /\ \A k \in Ids : rows[k] = NoAssignment => new = Tally([rows EXCEPT ![k] = mine])
  <2>1. own = {}
    BY <1>1, <1>3, <1>4, <1>8
  <2>2. FreeIds(v) # {}
    <3>1. {u \in Deciding(v) \ {t} : thread[u].id = 0} = {}
      BY <1>2
    <3>2. Cardinality(FreeIds(v)) > 0
      BY <1>1, <1>8, <3>1, FS_EmptySet DEF RoomFor
    <3>3. QED
      BY <3>2, FS_EmptySet
  <2> DEFINE place == CHOOSE k \in Ids : rows[k] = NoAssignment
  <2>3. place \in Ids /\ rows[place] = NoAssignment
    BY <2>2 DEF FreeIds
  <2>4. new = Tally([rows EXCEPT ![place] = mine])
    BY <1>8 DEF new, With
  <2> HIDE DEF place
  <2>5. ASSUME NEW k \in Ids, rows[k] = NoAssignment
        PROVE  new = Tally([rows EXCEPT ![k] = mine])
    <3> HIDE DEF rows, mine
    <3>1. QED
      BY <1>3, <2>3, <2>4, <2>5, TallyAnywhere
  <2>6. m = mine
    BY <1>8 DEF m
  <2>7. QED
    BY <2>1, <2>5, <2>6 DEF Own
<1>9. ASSUME i # 0
      PROVE  /\ new = Tally(Decided(s, rows))
             /\ m # NoAssignment => m.by = who /\ \A k \in Ids \ {i} : rows[k].by # who
  <2>1. i \in Ids /\ rows[i].by = who
    BY <1>1, <1>4, <1>9 DEF Own
  <2>2. OnePerReviewer(v)
    BY <1>2 DEF DecidedInv
  <2>3. \A k \in Ids \ {i} : rows[k].by # who
    BY <2>1, <2>2 DEF OnePerReviewer
  <2>4. new = Tally([rows EXCEPT ![i] = mine])
    BY <1>9 DEF new, With
  <2>5. CASE rows[i] = mine
    <3>1. m = NoAssignment /\ [rows EXCEPT ![i] = mine] = rows
      BY <1>3, <1>9, <2>1, <2>5 DEF m
    <3>2. QED
      BY <1>6, <2>4, <3>1 DEF Decided
  <2>6. CASE rows[i] # mine
    <3>1. m = mine
      BY <1>9, <2>6 DEF m
    <3>2. QED
      BY <1>3, <1>6, <2>3, <2>4, <3>1 DEF Decided
  <2>7. QED
    BY <2>5, <2>6
<1>10. DecisionOK(s, v)
  BY <1>3, <1>6, <1>8, <1>9 DEF DecisionOK, b
<1>11. QED
  BY <1>2, <1>6, <1>7, <1>10 DEF Works

\* Tallies and decisions of the next state, where the tables stay.
LEMMA SameTables ==
  ASSUME verdict' = verdict, assigned' = assigned
  PROVE  \A v : /\ Tally(assigned[v])' = Tally(assigned[v])
                /\ OnePerReviewer(v)' <=> OnePerReviewer(v)
                /\ \A u : DecisionOK(thread[u], v)' <=> DecisionOK(thread'[u], v)
  BY DEF Tally, By, OnePerReviewer, DecisionOK, Decided

LEMMA DecidedSteps ==
  ASSUME TypeInv, DecidedInv, NEW t \in Threads, Steps(t)
  PROVE  DecidedInv'
<1>1. /\ verdict' = verdict /\ assigned' = assigned
      /\ crossed \subseteq crossed'
      /\ \A u \in Threads \ {t} : thread'[u] = thread[u]
  BY StepsKeepTables, ObservedGrows, SameWork DEF Steps, Continue
<1>2. SUFFICES ASSUME NEW v \in Versions \ crossed'
               PROVE  /\ \A u, w \in Threads :
                           Works(u, "decide", v)' /\ Works(w, "decide", v)' => u = w
                      /\ \A u \in Threads : Works(u, "decide", v)' => DecisionOK(thread'[u], v)
                      /\ \A u \in Threads : Checked(u, v)' => thread'[u].settled
  BY <1>1, SameTables DEF DecidedInv
<1>3. /\ \A u, w \in Threads : Works(u, "decide", v) /\ Works(w, "decide", v) => u = w
      /\ \A u \in Threads : Works(u, "decide", v) => DecisionOK(thread[u], v)
      /\ \A u \in Threads : Checked(u, v) => thread[u].settled
      /\ verdict[v] # "none" => verdict[v] = Tally(assigned[v])
  BY <1>1 DEF DecidedInv
<1>4. \A u \in Threads \ {t} : /\ Works(u, "decide", v)' <=> Works(u, "decide", v)
                               /\ Checked(u, v)' <=> Checked(u, v)
  BY <1>1 DEF Works, Checked
<1>5. CASE Begin(t)
  <2>1. ~Checked(t, v)'
    BY <1>5, BegunThread DEF Checked, Works
  <2>2. CASE Works(t, "decide", v)'
    <3>1. PICK who \in Reviewers, is \in Decisions : BeginDecide(t, v, who, is)
      <4>1. ASSUME NEW x \in Versions, NEW b \in BOOLEAN, BeginCreate(t, x, b)
            PROVE  thread'[t].op = "create"
        BY <4>1 DEF BeginCreate, Working, Idle, TypeInv, TypeOK
      <4>2. ASSUME NEW x \in Versions, BeginActivate(t, x)
            PROVE  thread'[t].op = "activate"
        BY <4>2 DEF BeginActivate, Working, Idle, TypeInv, TypeOK
      <4>3. ASSUME NEW x \in Versions, NEW who \in Reviewers, NEW is \in Decisions,
                   BeginDecide(t, x, who, is)
            PROVE  thread'[t].v = x
        BY <4>3 DEF BeginDecide, Working, Idle, TypeInv, TypeOK
      <4>4. QED
        BY <1>5, <2>2, <4>1, <4>2, <4>3 DEF Begin, Works
    <3>2. Deciding(v) = {} /\ DecisionOK(thread'[t], v)
      BY <3>1, BeginDecided
    <3>3. \A u \in Threads : ~Works(u, "decide", v)
      BY <3>2 DEF Deciding, Works
    <3>4. QED
      BY <1>1, <1>3, <1>4, <2>1, <3>2, <3>3
  <2>3. CASE ~Works(t, "decide", v)'
    BY <1>1, <1>3, <1>4, <2>1, <2>3
  <2>4. QED
    BY <2>2, <2>3
<1>6. CASE ~Begin(t)
  <2>1. \/ thread'[t].op = "none"
        \/ /\ thread'[t].op = thread[t].op /\ thread'[t].v = thread[t].v
           /\ thread'[t].op = "activate" /\ thread'[t].settled # thread[t].settled =>
                CheckReview(t)
    BY <1>6, SameWork DEF Steps, Continue
  <2>2. \A op \in {"decide", "activate"} : Works(t, op, v)' => Works(t, op, v)
    BY <2>1 DEF Works
  <2>3. LockError(t) => thread'[t].op = "none"
    BY DEF LockError, Reply, Idle, TypeInv, TypeOK
  <2>4. Works(t, "decide", v)' => LoadDecided(t) /\ Works(t, "decide", v)
    <3>1. CheckReview(t) \/ StartDemotion(t) \/ FinishDemotion(t) => thread[t].op # "decide"
      BY DEF CheckReview, StartDemotion, FinishDemotion, TypeInv, Assigns
    <3>2. QED
      BY <1>6, <2>2, <2>3, <3>1 DEF Steps, Works
  <2>5. Works(t, "decide", v)' => DecisionOK(thread'[t], v)
    <3>1. SUFFICES ASSUME Works(t, "decide", v)'
                   PROVE  DecisionOK(thread'[t], v)
      OBVIOUS
    <3>2. DecisionOK(thread[t], v) /\ thread[t].v = v
      BY <1>3, <2>4, <3>1 DEF Works
    <3> DEFINE old == thread[t]
               new == thread'[t]
    <3>3. /\ new.pc = "ready" /\ new.new = old.new /\ new.settled = old.settled
          /\ new.mine = old.mine
          /\ old.id # 0 => new.id = old.id
          /\ old.id = 0 => new.id \in FreeIds(v)
      BY <2>4, <3>1, <3>2, LoadedThread
    <3>4. /\ Ids \subseteq Nat \ {0} /\ NoAssignment.by \notin Reviewers
      BY ActivationAssumption DEF Ids, NoAssignment
    <3> HIDE DEF new, old
    <3>5. CASE old.id = 0
      <4>1. /\ new.id \in Ids /\ assigned[v][new.id] = NoAssignment /\ new.id # 0
            /\ new.mine.by \in Reviewers /\ new.mine # NoAssignment
        BY <3>2, <3>3, <3>4, <3>5 DEF FreeIds, DecisionOK, old
      <4>2. /\ new.settled = (verdict[v] = new.new)
            /\ \A i \in Ids : assigned[v][i].by # new.mine.by
            /\ new.new = Tally([assigned[v] EXCEPT ![new.id] = new.mine])
        BY <3>2, <3>3, <3>5, <4>1 DEF DecisionOK, old
      <4>3. DecisionOK(new, v)
        BY <4>1, <4>2 DEF DecisionOK, Decided
      <4>4. QED
        BY <4>3 DEF new
    <3>6. CASE old.id # 0
      <4>1. DecisionOK(new, v)
        BY <3>2, <3>3, <3>6 DEF DecisionOK, Decided, old
      <4>2. QED
        BY <4>1 DEF new
    <3>7. QED
      BY <3>5, <3>6
  <2>6. Checked(t, v)' => thread'[t].settled
    <3>1. CheckReview(t) /\ Checked(t, v)' => thread'[t].settled
      <4>1. CheckReview(t) /\ Checked(t, v)' =>
              /\ verdict[v] = "none" \/ Tally(assigned[v]) = "approved"
              /\ thread'[t].settled = (verdict[v] \in {"none", "approved"})
        BY <2>2 DEF CheckReview, Cleared, Checked, Works, Reply, Idle, TypeInv, TypeOK
      <4>2. QED
        BY <1>3, <4>1
    <3>2. Checked(t, v)' /\ ~CheckReview(t) =>
            Checked(t, v) /\ thread'[t].settled = thread[t].settled
      <4>1. StartDemotion(t) \/ FinishDemotion(t) => thread[t].pc # "begun"
        BY DEF StartDemotion, FinishDemotion
      <4>2. LoadDecided(t) => thread[t].op = "decide"
        BY DEF LoadDecided
      <4>3. QED
        BY <1>6, <2>1, <2>2, <2>3, <4>1, <4>2 DEF Steps, Works, Checked
    <3>3. QED
      BY <1>3, <3>1, <3>2
  <2>7. QED
    BY <1>1, <1>3, <1>4, <2>2, <2>5, <2>6
<1>7. QED
  BY <1>5, <1>6

LEMMA DecidedCommits ==
  ASSUME TypeInv, ClearedInv, DecidedInv, NEW t \in Threads, Commits(t)
  PROVE  DecidedInv'
<1> DEFINE s == thread[t]
<1>1. /\ \A u \in Threads \ {t} : thread'[u] = thread[u]
      /\ thread'[t].op = "none" /\ crossed' = crossed
      /\ s.pc = "ready" /\ s.v \in Versions
  BY SameWork, CommitFacts DEF Commits, Continue
<1>2. \A u \in Threads, v \in Versions :
        /\ Works(u, "decide", v)' => u # t /\ Works(u, "decide", v)
        /\ Checked(u, v)' => u # t /\ Checked(u, v) /\ thread'[u].settled = thread[u].settled
  BY <1>1 DEF Works, Checked
<1>3. SUFFICES ASSUME NEW v \in Versions \ crossed
               PROVE  /\ verdict'[v] # "none" => verdict'[v] = Tally(assigned'[v])
                      /\ \A i, k \in Ids : /\ assigned'[v][i].by \in Reviewers
                                           /\ assigned'[v][i].by = assigned'[v][k].by
                                           => i = k
                      /\ \A u \in Threads : Works(u, "decide", v)' => DecisionOK(thread[u], v)'
  <2>1. \A v \in Versions : Tally(assigned[v])' = Tally(assigned'[v])
    BY DEF Tally, By
  <2>2. QED
    BY <1>1, <1>2, <1>3, <2>1 DEF DecidedInv, OnePerReviewer
<1>4. /\ \A u, w \in Threads : Works(u, "decide", v) /\ Works(w, "decide", v) => u = w
      /\ \A u \in Threads : Works(u, "decide", v) => DecisionOK(thread[u], v)
      /\ \A u \in Threads : Checked(u, v) => thread[u].settled
      /\ verdict[v] # "none" => verdict[v] = Tally(assigned[v])
      /\ OnePerReviewer(v)
  BY DEF DecidedInv
<1>5. CASE verdict'[v] = verdict[v] /\ assigned'[v] = assigned[v]
  <2>1. ASSUME NEW u \in Threads, Works(u, "decide", v)'
        PROVE  DecisionOK(thread[u], v)'
    <3>1. DecisionOK(thread[u], v) /\ thread'[u] = thread[u]
      BY <1>1, <1>2, <1>4, <2>1
    <3>2. QED
      BY <1>5, <3>1 DEF DecisionOK, Decided, Tally, By
  <2>2. QED
    BY <1>4, <1>5, <2>1 DEF OnePerReviewer
<1>6. CASE CommitDecide(t) /\ s.v = v
  <2>1. Works(t, "decide", v) /\ DecisionOK(s, v)
    BY <1>4, <1>6 DEF CommitDecide, Works
  <2>2. s.id # 0 /\ s.id \in Ids
    BY <1>1, <2>1 DEF DecisionOK, TypeInv, TypeOK
  <2>3. assigned[v] \in [Ids -> Assignment] /\ verdict \in [Versions -> Outcomes \cup {"none"}]
        /\ assigned \in [Versions -> [Ids -> Assignment]]
    BY DEF TypeInv, TypeOK
  <2>4. verdict'[v] = s.new
    BY <1>6, <2>1, <2>3 DEF CommitDecide, DecisionOK
  <2>5. assigned'[v] = Decided(s, assigned[v])
    BY <1>6, <2>2, <2>3 DEF CommitDecide, Decided
  <2>6. s.new = Tally(Decided(s, assigned[v]))
    BY <2>1, <2>2 DEF DecisionOK
  <2>7. ASSUME NEW i \in Ids, NEW k \in Ids, assigned'[v][i].by \in Reviewers,
               assigned'[v][i].by = assigned'[v][k].by
        PROVE  i = k
    <3>1. CASE s.mine = NoAssignment
      BY <1>4, <2>5, <2>7, <3>1 DEF Decided, OnePerReviewer
    <3>2. CASE s.mine # NoAssignment
      <4>1. \A j \in Ids \ {s.id} : assigned[v][j].by # s.mine.by
        BY <2>1, <2>2, <3>2 DEF DecisionOK
      <4>2. /\ assigned'[v][s.id] = s.mine
            /\ \A j \in Ids \ {s.id} : assigned'[v][j] = assigned[v][j]
        BY <2>2, <2>3, <2>5, <3>2 DEF Decided
      <4>3. QED
        BY <1>4, <2>7, <4>1, <4>2 DEF OnePerReviewer
    <3>3. QED
      BY <3>1, <3>2
  <2>8. \A u \in Threads : ~Works(u, "decide", v)'
    BY <1>2, <1>4, <2>1
  <2>9. QED
    BY <2>4, <2>5, <2>6, <2>7, <2>8
<1>7. \/ verdict'[v] = verdict[v] /\ assigned'[v] = assigned[v]
      \/ CommitDecide(t) /\ s.v = v
  <2>1. /\ verdict \in [Versions -> Outcomes \cup {"none"}]
        /\ assigned \in [Versions -> [Ids -> Assignment]]
    BY DEF TypeInv, TypeOK
  <2>2. CASE CommitCreate(t)
    BY <2>2 DEF CommitCreate
  <2>3. CASE CommitActivate(t)
    <3>1. s.v = v => s.settled
      BY <1>1, <1>4, <2>3 DEF CommitActivate, Checked, Works
    <3>2. QED
      BY <2>1, <2>3, <3>1 DEF CommitActivate
  <2>4. CASE CommitDecide(t)
    BY <2>1, <2>4 DEF CommitDecide
  <2>5. QED
    BY <2>2, <2>3, <2>4 DEF Commits
<1>8. QED
  BY <1>5, <1>6, <1>7

LEMMA DecidedStep == TypeInv /\ ClearedInv /\ DecidedInv /\ [Next]_vars => DecidedInv'
<1> SUFFICES ASSUME TypeInv, ClearedInv, DecidedInv, [Next]_vars
             PROVE  DecidedInv'
  OBVIOUS
<1>1. CASE UNCHANGED vars
  BY <1>1, SameTables DEF vars, tables, observed, DecidedInv, Checked, Works
<1>2. QED
  BY <1>1, DecidedSteps, DecidedCommits DEF Next, Continue, Steps, Commits

LEMMA DecidedInit == Init => DecidedInv
<1>1. SUFFICES ASSUME Init
               PROVE  DecidedInv
  OBVIOUS
<1>2. \A t \in Threads : thread[t].op = "none"
  BY <1>1 DEF Init, Idle
<1>3. \A v \in Versions : /\ verdict[v] # "none" => verdict[v] = "review_pending"
                          /\ \A i \in Ids : assigned[v][i] = NoAssignment
  BY <1>1 DEF Init
<1>4. \A v \in Versions : Tally(assigned[v]) = "review_pending" /\ OnePerReviewer(v)
  BY <1>3, NoTally, ActivationAssumption DEF OnePerReviewer, NoAssignment
<1>5. QED
  BY <1>2, <1>3, <1>4 DEF DecidedInv, Checked, Works

\* Unless two decisions on a request crossed, its stored status is what the
\* decisions on record amount to, one of each reviewer, on either database
\* (decide_review, _update_review_status, activate_version).
THEOREM StatusesFollow == Spec => []StatusFollowsDecisions
<1>1. ASSUME TypeInv, DecidedInv
      PROVE  StatusFollowsDecisions
  <2>1. ASSUME NEW v \in Versions \ crossed, NEW who \in Reviewers
        PROVE  Cardinality({i \in Ids : assigned[v][i].by = who}) <= 1
    <3>1. OnePerReviewer(v)
      BY <1>1 DEF DecidedInv
    <3>2. \A i, k \in {i \in Ids : assigned[v][i].by = who} : i = k
      BY <3>1 DEF OnePerReviewer
    <3>3. QED
      BY <3>2, AtMostOne
  <2>2. QED
    BY <1>1, <2>1 DEF DecidedInv, StatusFollowsDecisions
<1>2. QED
  BY <1>1, TypeInit, TypeStep, ClearedInit, ClearedStep, DecidedInit, DecidedStep, PTL DEF Spec
=============================================================================
