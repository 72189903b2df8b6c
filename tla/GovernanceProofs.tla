--------------------------- MODULE GovernanceProofs ---------------------------
(***************************************************************************)
(* Theorems about Governance for all values of its constants.  The two     *)
(* facts everything rests on are that rows are only ever added or updated  *)
(* in the columns the handlers write (lemmas EnsureAdds and ...Type), and  *)
(* the inductive invariant GovernanceInv.                                  *)
(***************************************************************************)
EXTENDS GovernanceProperties, NumberLemmas, TLAPS

\* Looking for a review request leaves the table alone or adds one row.
LEMMA EnsureAdds ==
  ASSUME TypeOK,
         NEW c \in Changes \cup {Null}, NEW v \in Versions \cup {Null},
         NEW n \in 1..MaxRequired, NEW a \in Authors,
         EnsureReviewRequest(c, v, n, a)
  PROVE  \/ review' = review /\ (c # Null => RequestsOfChange(c) # {})
         \/ \E r \in Reviews :
              /\ review[r] = Null
              /\ c # Null => RequestsOfChange(c) = {}
              /\ review' = [review EXCEPT ![r] =
                              [change |-> c, version |-> v, approvals |-> n,
                               status |-> "review_pending", created_by |-> a]]
  BY DEF EnsureReviewRequest, Requests

\* Hence the table keeps its type.
LEMMA EnsureType ==
  ASSUME TypeOK,
         NEW c \in Changes \cup {Null}, NEW v \in Versions \cup {Null},
         NEW n \in 1..MaxRequired, NEW a \in Authors,
         EnsureReviewRequest(c, v, n, a)
  PROVE  review' \in [Reviews -> ReviewRow \cup {Null}]
<1>1. [change |-> c, version |-> v, approvals |-> n, status |-> "review_pending",
       created_by |-> a] \in ReviewRow
  BY DEF ReviewRow, RequestStatuses
<1>2. review \in [Reviews -> ReviewRow \cup {Null}]
  BY DEF TypeOK
<1>3. QED
  BY <1>1, <1>2, EnsureAdds

\* The computed status of a request is a request status.
LEMMA TallyType ==
  ASSUME NEW r, NEW d
  PROVE  Tally(r, d) \in RequestStatuses
  BY DEF Tally, RequestStatuses

\* Recomputing the status of existing requests keeps the type of the table.
LEMMA RecomputedType ==
  ASSUME TypeOK, NEW R \in SUBSET Requests
  PROVE  Recomputed(R) \in [Reviews -> ReviewRow \cup {Null}]
<1>1. SUFFICES ASSUME NEW r \in Reviews
               PROVE  (IF r \in R THEN [review[r] EXCEPT !.status = Tally(r, decision[r])]
                                  ELSE review[r]) \in ReviewRow \cup {Null}
  BY DEF Recomputed
<1>2. CASE r \in R
  <2>1. review[r] \in ReviewRow
    BY <1>2 DEF TypeOK, Requests
  <2>2. Tally(r, decision[r]) \in RequestStatuses
    BY TallyType
  <2>3. [review[r] EXCEPT !.status = Tally(r, decision[r])] \in ReviewRow
    BY <2>1, <2>2 DEF ReviewRow
  <2>4. QED
    BY <1>2, <2>3
<1>3. CASE r \notin R
  BY <1>3 DEF TypeOK
<1>4. QED
  BY <1>2, <1>3

\* Making a version active keeps the type of the statuses.
LEMMA PromotedType ==
  ASSUME TypeOK, NEW v \in Versions
  PROVE  Promoted(v) \in [Versions -> VersionStatuses]
  BY DEF TypeOK, Promoted, VersionStatuses

-------------------------------------------------------------------------------

LEMMA VersionStepType == TypeOK /\ VersionStep => TypeOK'
<1>1. ASSUME TypeOK, NEW v \in Versions, NEW b \in BOOLEAN, CreateVersion(v, b)
      PROVE  TypeOK'
  <2>1. Promoted(v) \in [Versions -> VersionStatuses]
    BY <1>1, PromotedType
  <2>2. [status EXCEPT ![v] = "draft"] \in [Versions -> VersionStatuses]
    BY <1>1 DEF TypeOK, VersionStatuses
  <2>3. status' \in [Versions -> VersionStatuses]
    BY <1>1, <2>1, <2>2 DEF CreateVersion
  <2>4. QED
    BY <1>1, <2>3 DEF TypeOK, CreateVersion
<1>2. ASSUME TypeOK, NEW v \in Versions, ActivateVersion(v)
      PROVE  TypeOK'
  <2>1. status' \in [Versions -> VersionStatuses]
    BY <1>2, PromotedType DEF ActivateVersion
  <2>2. review' \in [Reviews -> ReviewRow \cup {Null}]
    <3>1. CASE review' = review
      BY <1>2, <3>1 DEF TypeOK
    <3>2. ASSUME NEW r \in RequestsOfVersion(v), review' = Recomputed({r})
          PROVE  review' \in [Reviews -> ReviewRow \cup {Null}]
      <4>1. {r} \in SUBSET Requests
        BY <3>2 DEF RequestsOfVersion
      <4>2. QED
        BY <1>2, <3>2, <4>1, RecomputedType
    <3>3. QED
      BY <1>2, <3>1, <3>2 DEF ActivateVersion
  <2>3. QED
    BY <1>2, <2>1, <2>2 DEF TypeOK, ActivateVersion
<1>3. QED
  BY <1>1, <1>2 DEF VersionStep

\* An import writes one row of the change table and keeps its author.
RowWritten(c, required) ==
  /\ change' = [change EXCEPT ![c] = change'[c]]
  /\ change'[c] \in ChangeRow
  /\ change'[c].required = required
  /\ change[c] # Null => change'[c].created_by = change[c].created_by

LEMMA UpsertRow ==
  ASSUME TypeOK, NEW c \in Changes, NEW a \in Assets \cup {Null}, NEW l \in BOOLEAN,
         NEW n \in {1, 2}, NEW author \in Users \cup {GitLab},
         UpsertGitLabChange(c, a, l, n, author)
  PROVE  RowWritten(c, IF a # Null THEN Policy[TypeOf[a]].review_required ELSE l)
<1> DEFINE risk == IF a # Null THEN Policy[TypeOf[a]].risk_level
                   ELSE IF l THEN "high" ELSE "low"
           required == IF a # Null THEN Policy[TypeOf[a]].review_required ELSE l
           new == [asset |-> a, version |-> Null, risk |-> risk, required |-> required,
                   status |-> IF required THEN "pending" ELSE "skipped",
                   created_by |-> author]
           old == [change[c] EXCEPT !.asset = IF a # Null THEN a ELSE @,
                                    !.risk = risk, !.required = required]
<1>1. change' = [change EXCEPT ![c] = IF change[c] = Null THEN new ELSE old]
  BY DEF UpsertGitLabChange
<1>2. a # Null => TypeOf[a] \in AssetTypes
  BY GovernanceAssumption
<1>3. risk \in RiskLevels /\ required \in BOOLEAN
  BY <1>2 DEF Policy, RiskLevels
<1>4. author \in Authors
  BY DEF Authors
<1>5. change \in [Changes -> ChangeRow \cup {Null}]
  BY DEF TypeOK
<1> HIDE DEF risk, required
<1>6. new \in ChangeRow
  BY <1>3, <1>4 DEF ChangeRow, ReviewStatuses
<1>7. change[c] # Null =>
        /\ old \in ChangeRow
        /\ old.required = required
        /\ old.created_by = change[c].created_by
  <2>1. change[c] # Null => change[c] \in ChangeRow
    BY <1>5
  <2>2. QED
    BY <2>1, <1>3 DEF ChangeRow
<1>8. new.required = required
  OBVIOUS
<1> HIDE DEF new, old
<1>9. change'[c] = IF change[c] = Null THEN new ELSE old
  BY <1>1, <1>5
<1>10. change' = [change EXCEPT ![c] = change'[c]]
  BY <1>1, <1>9
<1>11. QED
  BY <1>6, <1>7, <1>8, <1>9, <1>10 DEF RowWritten, required

LEMMA ChangeStepType == TypeOK /\ ChangeStep => TypeOK'
<1>1. ASSUME TypeOK, NEW c \in Changes, NEW row \in Payloads, NEW actor \in Users,
             CreateChange(c, row, actor)
      PROVE  TypeOK'
  <2>1. row \in ChangeRow
    BY DEF Payloads
  <2>2. change' \in [Changes -> ChangeRow \cup {Null}]
    BY <1>1, <2>1 DEF TypeOK, CreateChange
  <2>3. review' \in [Reviews -> ReviewRow \cup {Null}]
    <3>1. /\ row.version \in Versions \cup {Null}
          /\ 1 \in 1..MaxRequired
          /\ actor \in Authors
      BY <2>1, GovernanceAssumption DEF ChangeRow, Authors
    <3>2. CASE EnsureReviewRequest(c, row.version, 1, actor)
      BY <1>1, <3>1, <3>2, EnsureType
    <3>3. CASE UNCHANGED review
      BY <1>1, <3>3 DEF TypeOK
    <3>4. QED
      BY <1>1, <3>2, <3>3 DEF CreateChange
  <2>4. QED
    BY <1>1, <2>2, <2>3 DEF TypeOK, CreateChange
<1>2. ASSUME TypeOK, NEW c \in Changes, NEW a \in Assets \cup {Null}, NEW l \in BOOLEAN,
             NEW n \in {1, 2}, NEW author \in Users \cup {GitLab},
             UpsertGitLabChange(c, a, l, n, author)
      PROVE  TypeOK'
  <2> DEFINE required == IF a # Null THEN Policy[TypeOf[a]].review_required ELSE l
             ver == IF change[c] = Null THEN Null ELSE change[c].version
  <2>1. change' \in [Changes -> ChangeRow \cup {Null}]
    <3>1. RowWritten(c, required)
      BY <1>2, UpsertRow
    <3>2. QED
      BY <1>2, <3>1 DEF TypeOK, RowWritten
  <2>2. ver \in Versions \cup {Null} /\ n \in 1..MaxRequired /\ author \in Authors
    BY <1>2, GovernanceAssumption DEF TypeOK, ChangeRow, Authors
  <2>3. IF required THEN EnsureReviewRequest(c, ver, n, author) ELSE UNCHANGED review
    BY <1>2 DEF UpsertGitLabChange
  <2> HIDE DEF required, ver
  <2>4. review' \in [Reviews -> ReviewRow \cup {Null}]
    <3>1. CASE EnsureReviewRequest(c, ver, n, author)
      BY <1>2, <2>2, <3>1, EnsureType
    <3>2. CASE UNCHANGED review
      BY <1>2, <3>2 DEF TypeOK
    <3>3. QED
      BY <2>3, <3>1, <3>2
  <2>5. QED
    BY <1>2, <2>1, <2>4 DEF TypeOK, UpsertGitLabChange
<1>3. QED
  BY <1>1, <1>2 DEF ChangeStep

LEMMA ReviewStepType == TypeOK /\ ReviewStep => TypeOK'
<1>1. ASSUME TypeOK, NEW c \in Changes \cup {Null}, NEW v \in Versions \cup {Null},
             NEW n \in 1..MaxRequired, NEW author \in Users,
             CreateReview(c, v, n, author)
      PROVE  TypeOK'
  <2>1. review' \in [Reviews -> ReviewRow \cup {Null}]
    BY <1>1, EnsureType DEF CreateReview, Authors
  <2>2. status' \in [Versions -> VersionStatuses]
    BY <1>1 DEF CreateReview, TypeOK, VersionStatuses
  <2>3. change' \in [Changes -> ChangeRow \cup {Null}]
    <3>1. c # Null => change[c] \in ChangeRow
      BY <1>1 DEF TypeOK, CreateReview
    <3>2. c # Null => [change[c] EXCEPT !.required = TRUE, !.status = "pending"] \in ChangeRow
      BY <3>1 DEF ChangeRow, ReviewStatuses
    <3>3. Null \notin Changes
      BY GovernanceAssumption
    <3>4. QED
      BY <1>1, <3>2, <3>3 DEF TypeOK, CreateReview
  <2>4. QED
    BY <1>1, <2>1, <2>2, <2>3 DEF CreateReview, TypeOK
<1>2. ASSUME TypeOK, NEW r \in Reviews, NEW u \in Deciders, NEW d \in Decisions,
             DecideReview(r, u, d)
      PROVE  TypeOK'
  <2> DEFINE outcome == Tally(r, [decision[r] EXCEPT ![u] = d])
  <2>1. outcome \in RequestStatuses
    BY TallyType
  <2>2. u \in Users
    BY GovernanceAssumption
  <2>3. decision' \in [Reviews -> [Users -> Decisions]]
    BY <1>2, <2>2 DEF TypeOK, DecideReview, ChangeStatus
  <2>4. review[r] \in ReviewRow
    BY <1>2 DEF TypeOK, DecideReview, ChangeStatus
  <2>5. [review[r] EXCEPT !.status = outcome] \in ReviewRow
    BY <2>1, <2>4 DEF ReviewRow
  <2>6. review' \in [Reviews -> ReviewRow \cup {Null}]
    BY <1>2, <2>5 DEF TypeOK, DecideReview, ChangeStatus
  <2>7. (IF outcome = "review_pending" THEN "pending" ELSE outcome) \in ReviewStatuses
    BY <2>1 DEF RequestStatuses, ReviewStatuses
  <2>8. \A c \in Changes : change[c] # Null =>
          [change[c] EXCEPT !.status =
             IF outcome = "review_pending" THEN "pending" ELSE outcome] \in ChangeRow
    <3> DEFINE new == IF outcome = "review_pending" THEN "pending" ELSE outcome
    <3>1. SUFFICES ASSUME NEW c \in Changes, change[c] # Null
                   PROVE  [change[c] EXCEPT !.status = new] \in ChangeRow
      OBVIOUS
    <3>2. change[c] \in ChangeRow
      BY <1>2, <3>1 DEF TypeOK
    <3>3. new \in ReviewStatuses
      BY <2>7
    <3> HIDE DEF new
    <3>4. QED
      BY <3>2, <3>3 DEF ChangeRow
  <2>9. change' \in [Changes -> ChangeRow \cup {Null}]
    BY <1>2, <2>8 DEF TypeOK, DecideReview, ChangeStatus
  <2>10. status' \in [Versions -> VersionStatuses]
    BY <1>2, <2>1 DEF TypeOK, DecideReview, ChangeStatus, RequestStatuses, VersionStatuses
  <2>11. QED
    BY <1>2, <2>3, <2>6, <2>9, <2>10 DEF TypeOK, DecideReview, ChangeStatus
<1>3. ASSUME TypeOK, NEW parent \in Reviews \cup Versions, CreateBlockingComment(parent)
      PROVE  TypeOK'
  BY <1>3 DEF TypeOK, CreateBlockingComment
<1>4. ASSUME TypeOK, NEW page \in SUBSET Requests, ListReviews(page)
      PROVE  TypeOK'
  <2>1. review' \in [Reviews -> ReviewRow \cup {Null}]
    BY <1>4, RecomputedType DEF ListReviews
  <2>2. QED
    BY <1>4, <2>1 DEF TypeOK, ListReviews
<1>5. ASSUME TypeOK, NEW c \in Changes \cup {Null}, NEW v \in Versions, DatadogAlert(c, v)
      PROVE  TypeOK'
  <2>1. PICK n \in 1..MaxRequired : EnsureReviewRequest(c, v, n, Datadog)
    BY <1>5, GovernanceAssumption DEF DatadogAlert
  <2>2. review' \in [Reviews -> ReviewRow \cup {Null}]
    BY <1>5, <2>1, EnsureType DEF Authors
  <2>3. QED
    BY <1>5, <2>2 DEF TypeOK, DatadogAlert
<1>6. QED
  BY <1>1, <1>2, <1>3, <1>4, <1>5 DEF ReviewStep

\* However a run of a suite is scored, it passes or it fails.
LEMMA OutcomeType ==
  ASSUME NEW s \in Suites, NEW v \in Versions, NEW outputs \in Outputs[s]
  PROVE  /\ Outcomes[s][v][outputs] =
              RunStatuses(Cases[s], Threshold[s], Rules[v], RuntimeDefault(TypeOf[AssetOf[v]]),
                          outputs)
         /\ Outcomes[s][v][outputs] \subseteq {"passed", "failed"}
<1> DEFINE statuses(o) ==
             RunStatuses(Cases[s], Threshold[s], Rules[v], RuntimeDefault(TypeOf[AssetOf[v]]), o)
<1>1. statuses(outputs) \subseteq {"passed", "failed"}
  BY DEF RunStatuses
<1>2. Outcomes[s][v] = [o \in Outputs[s] |-> statuses(o)]
  BY DEF Outcomes
<1> HIDE DEF statuses
<1>3. Outcomes[s][v][outputs] = statuses(outputs)
  BY <1>2
<1>4. QED
  BY <1>1, <1>3 DEF statuses

LEMMA GateStepType == TypeOK /\ GateStep => TypeOK'
<1>1. ASSUME TypeOK, NEW s \in Suites, NEW a \in Assets \cup {Null}, NEW b \in BOOLEAN,
             CreateSuite(s, a, b)
      PROVE  TypeOK'
  BY <1>1 DEF TypeOK, CreateSuite, SuiteRow
<1>2. ASSUME TypeOK, NEW s \in Suites, NEW v \in Versions, NEW outputs \in Outputs[s],
             RunEvaluation(s, v, outputs)
      PROVE  TypeOK'
  <2>1. PICK outcome \in Outcomes[s][v][outputs] :
          lastRun' = [lastRun EXCEPT ![s][v] = outcome]
    BY <1>2 DEF RunEvaluation
  <2>2. outcome \in {"passed", "failed"}
    BY <2>1, OutcomeType
  <2>3. QED
    BY <1>2, <2>1, <2>2 DEF TypeOK, RunEvaluation
<1>3. ASSUME TypeOK, NEW c \in Changes, CheckGate(c)
      PROVE  TypeOK'
  <2>1. PICK r \in RequestsOfChange(c) : review' = Recomputed({r})
    BY <1>3 DEF CheckGate
  <2>2. {r} \in SUBSET Requests
    BY <2>1 DEF RequestsOfChange
  <2>3. review' \in [Reviews -> ReviewRow \cup {Null}]
    BY <1>3, <2>1, <2>2, RecomputedType
  <2>4. QED
    BY <1>3, <2>3 DEF TypeOK, CheckGate
<1>4. QED
  BY <1>1, <1>2, <1>3 DEF GateStep

\* Every column keeps the values its type allows (the tables of main.py).
THEOREM TypeCorrect == Spec => []TypeOK
<1>1. Init => TypeOK
  BY DEF Init, TypeOK, VersionStatuses, Decisions
<1>2. TypeOK /\ [Next]_vars => TypeOK'
  <2>1. TypeOK /\ UNCHANGED vars => TypeOK'
    BY DEF TypeOK, vars
  <2>2. QED
    BY <2>1, VersionStepType, ChangeStepType, ReviewStepType, GateStepType DEF Next
<1>3. QED
  BY <1>1, <1>2, PTL DEF Spec

-------------------------------------------------------------------------------
(* What every step keeps of the tables.                                     *)

ChangesKept ==
  \A c \in Changes :
    change[c] # Null => change'[c] # Null /\ change'[c].created_by = change[c].created_by

RequestsKept ==
  \A r \in Reviews :
    review[r] # Null => /\ review'[r] # Null
                        /\ review'[r].change = review[r].change
                        /\ review'[r].created_by = review[r].created_by

\* At most one request is added, and only for a change that has none.
RequestAdded ==
  \A r \in Reviews :
    review[r] = Null /\ review'[r] # Null =>
      /\ \A s \in Reviews : review[s] = Null /\ review'[s] # Null => s = r
      /\ review'[r].change # Null =>
           /\ review'[r].change \in Changes
           /\ RequestsOfChange(review'[r].change) = {}
           /\ change'[review'[r].change] # Null

\* A change that must be reviewed already had to be, or has a request now.
RequirementMet ==
  \A c \in Changes :
    change'[c] # Null /\ change'[c].required =>
      \/ change[c] # Null /\ change[c].required
      \/ \E r \in Reviews : review'[r] # Null /\ review'[r].change = c

LEMMA EnsureFrame ==
  ASSUME TypeOK,
         NEW c \in Changes \cup {Null}, NEW v \in Versions \cup {Null},
         NEW n \in 1..MaxRequired, NEW a \in Authors,
         EnsureReviewRequest(c, v, n, a), c # Null => change'[c] # Null
  PROVE  /\ RequestsKept /\ RequestAdded
         /\ c # Null => \E r \in Reviews : review'[r] # Null /\ review'[r].change = c
<1>1. CASE review' = review /\ (c # Null => RequestsOfChange(c) # {})
  BY <1>1 DEF RequestsKept, RequestAdded, RequestsOfChange, Requests
<1>2. ASSUME NEW r \in Reviews, review[r] = Null, c # Null => RequestsOfChange(c) = {},
             review' = [review EXCEPT ![r] =
                          [change |-> c, version |-> v, approvals |-> n,
                           status |-> "review_pending", created_by |-> a]]
      PROVE  /\ RequestsKept /\ RequestAdded
             /\ c # Null => \E s \in Reviews : review'[s] # Null /\ review'[s].change = c
  <2>1. [change |-> c, version |-> v, approvals |-> n, status |-> "review_pending",
         created_by |-> a] # Null
    BY NullIsNoRow DEF ReviewRow, RequestStatuses
  <2>2. review \in [Reviews -> ReviewRow \cup {Null}]
    BY DEF TypeOK
  <2>3. review'[r] # Null /\ review'[r].change = c
    BY <1>2, <2>1, <2>2
  <2>4. \A s \in Reviews : s # r => review'[s] = review[s]
    BY <1>2, <2>2
  <2>5. QED
    BY <1>2, <2>3, <2>4 DEF RequestsKept, RequestAdded
<1>3. CASE \E r \in Reviews :
             /\ review[r] = Null
             /\ c # Null => RequestsOfChange(c) = {}
             /\ review' = [review EXCEPT ![r] =
                             [change |-> c, version |-> v, approvals |-> n,
                              status |-> "review_pending", created_by |-> a]]
  BY <1>2, <1>3
<1>4. QED
  BY <1>1, <1>3, EnsureAdds

\* Updates of the status column neither add nor change a request otherwise.
LEMMA RecomputedFrame ==
  ASSUME TypeOK, NEW R \in SUBSET Requests, review' = Recomputed(R)
  PROVE  RequestsKept /\ RequestAdded
<1>1. \A r \in Requests : [review[r] EXCEPT !.status = Tally(r, decision[r])] \in ReviewRow
  BY TallyType DEF TypeOK, Requests, ReviewRow
<1>2. \A r \in Requests : /\ review'[r] # Null
                          /\ review'[r].change = review[r].change
                          /\ review'[r].created_by = review[r].created_by
  BY <1>1, NullIsNoRow DEF Recomputed, Requests, TypeOK, ReviewRow
<1>3. \A r \in Reviews : r \notin Requests => review'[r] = review[r]
  BY DEF Recomputed
<1>4. QED
  BY <1>2, <1>3 DEF RequestsKept, RequestAdded, Requests

\* Every step keeps the tables in this sense.
LEMMA Frame ==
  ASSUME TypeOK, [Next]_vars
  PROVE  ChangesKept /\ RequestsKept /\ RequestAdded /\ RequirementMet
<1> DEFINE Kept == ChangesKept /\ RequestsKept /\ RequestAdded /\ RequirementMet
<1>1. ASSUME UNCHANGED <<change, review>> PROVE Kept
  BY <1>1 DEF ChangesKept, RequestsKept, RequestAdded, RequirementMet
<1>2. ASSUME UNCHANGED change, NEW R \in SUBSET Requests, review' = Recomputed(R)
      PROVE  Kept
  BY <1>2, RecomputedFrame DEF ChangesKept, RequirementMet
<1>3. ASSUME NEW v \in Versions, ActivateVersion(v) PROVE Kept
  <2>1. CASE UNCHANGED review
    BY <1>1, <1>3, <2>1 DEF ActivateVersion
  <2>2. ASSUME NEW r \in RequestsOfVersion(v), review' = Recomputed({r}) PROVE Kept
    <3>1. {r} \in SUBSET Requests
      BY DEF RequestsOfVersion
    <3>2. QED
      BY <1>2, <1>3, <2>2, <3>1 DEF ActivateVersion
  <2>3. QED
    BY <1>3, <2>1, <2>2 DEF ActivateVersion
<1>4. ASSUME NEW c \in Changes, NEW row \in Payloads, NEW actor \in Users,
             CreateChange(c, row, actor)
      PROVE  Kept
  <2>1. row \in ChangeRow /\ row # Null
    BY NullIsNoRow DEF Payloads
  <2>2. /\ change'[c] = row
        /\ \A d \in Changes : d # c => change'[d] = change[d]
        /\ change[c] = Null
    BY <1>4 DEF CreateChange, TypeOK
  <2>3. ChangesKept
    BY <2>2 DEF ChangesKept
  <2>4. CASE row.required /\ EnsureReviewRequest(c, row.version, 1, actor)
    <3>1. /\ row.version \in Versions \cup {Null}
          /\ 1 \in 1..MaxRequired
          /\ actor \in Authors
      BY <2>1, GovernanceAssumption DEF ChangeRow, Authors
    <3>2. /\ RequestsKept /\ RequestAdded
          /\ c # Null => \E r \in Reviews : review'[r] # Null /\ review'[r].change = c
      BY <2>1, <2>2, <2>4, <3>1, EnsureFrame
    <3>3. RequirementMet
      BY <2>2, <3>2, GovernanceAssumption DEF RequirementMet
    <3>4. QED
      BY <2>3, <3>2, <3>3
  <2>5. CASE ~row.required /\ UNCHANGED review
    <3>1. RequirementMet
      BY <2>2, <2>5 DEF RequirementMet
    <3>2. QED
      BY <2>3, <2>5, <3>1 DEF RequestsKept, RequestAdded
  <2>6. QED
    BY <1>4, <2>4, <2>5 DEF CreateChange
<1>5. ASSUME NEW c \in Changes, NEW a \in Assets \cup {Null}, NEW l \in BOOLEAN,
             NEW n \in {1, 2}, NEW author \in Users \cup {GitLab},
             UpsertGitLabChange(c, a, l, n, author)
      PROVE  Kept
  <2> DEFINE required == IF a # Null THEN Policy[TypeOf[a]].review_required ELSE l
             ver == IF change[c] = Null THEN Null ELSE change[c].version
  <2>1. /\ change' = [change EXCEPT ![c] = change'[c]]
        /\ change'[c] \in ChangeRow /\ change'[c].required = required
        /\ change[c] # Null => change'[c].created_by = change[c].created_by
    <3>1. RowWritten(c, required)
      BY <1>5, UpsertRow
    <3>2. QED
      BY <3>1 DEF RowWritten
  <2>2. /\ change'[c] # Null /\ change'[c].required = required
        /\ change[c] # Null => change'[c].created_by = change[c].created_by
        /\ \A d \in Changes : d # c => change'[d] = change[d]
    BY <2>1, NullIsNoRow DEF TypeOK
  <2>3. ChangesKept
    BY <2>2 DEF ChangesKept
  <2>4. IF required THEN EnsureReviewRequest(c, ver, n, author) ELSE UNCHANGED review
    BY <1>5 DEF UpsertGitLabChange
  <2>5. ver \in Versions \cup {Null} /\ n \in 1..MaxRequired /\ author \in Authors
    BY GovernanceAssumption DEF TypeOK, ChangeRow, Authors
  <2> HIDE DEF required, ver
  <2>6. CASE required /\ EnsureReviewRequest(c, ver, n, author)
    <3>1. /\ RequestsKept /\ RequestAdded
          /\ c # Null => \E r \in Reviews : review'[r] # Null /\ review'[r].change = c
      BY <2>2, <2>5, <2>6, EnsureFrame
    <3>2. RequirementMet
      BY <2>2, <3>1, GovernanceAssumption DEF RequirementMet
    <3>3. QED
      BY <2>3, <3>1, <3>2
  <2>7. CASE ~required /\ UNCHANGED review
    <3>1. RequirementMet
      BY <2>2, <2>7 DEF RequirementMet
    <3>2. QED
      BY <2>3, <2>7, <3>1 DEF RequestsKept, RequestAdded
  <2>8. QED
    BY <2>4, <2>6, <2>7
<1>6. ASSUME NEW c \in Changes \cup {Null}, NEW v \in Versions \cup {Null},
             NEW n \in 1..MaxRequired, NEW author \in Users,
             CreateReview(c, v, n, author)
      PROVE  Kept
  <2>1. \A d \in Changes : change[d] # Null => change[d] \in ChangeRow
    BY DEF TypeOK
  <2>2. \A d \in Changes :
          /\ d # c => change'[d] = change[d]
          /\ d = c => change'[d] = [change[d] EXCEPT !.required = TRUE, !.status = "pending"]
          /\ d = c => change[d] \in ChangeRow
    BY <1>6, <2>1, GovernanceAssumption DEF CreateReview
  <2>3. \A d \in Changes : d = c => /\ change'[d] \in ChangeRow
                                    /\ change'[d].created_by = change[d].created_by
    <3>1. \A x \in ChangeRow :
            LET y == [x EXCEPT !.required = TRUE, !.status = "pending"]
            IN  y \in ChangeRow /\ y.created_by = x.created_by
      BY DEF ChangeRow, ReviewStatuses
    <3>2. SUFFICES ASSUME NEW d \in Changes, d = c
                   PROVE  /\ change'[d] \in ChangeRow
                          /\ change'[d].created_by = change[d].created_by
      OBVIOUS
    <3>3. /\ change[d] \in ChangeRow
          /\ change'[d] = [change[d] EXCEPT !.required = TRUE, !.status = "pending"]
      BY <2>2, <3>2
    <3>4. QED
      BY <3>1, <3>3
  <2>4. ChangesKept /\ (c # Null => change'[c] # Null)
    BY <2>2, <2>3, NullIsNoRow DEF ChangesKept
  <2>5. /\ RequestsKept /\ RequestAdded
        /\ c # Null => \E r \in Reviews : review'[r] # Null /\ review'[r].change = c
    BY <1>6, <2>4, EnsureFrame DEF CreateReview, Authors
  <2>6. RequirementMet
    BY <2>2, <2>5, GovernanceAssumption DEF RequirementMet
  <2>7. QED
    BY <2>4, <2>5, <2>6
<1>7. ASSUME NEW r \in Reviews, NEW u \in Deciders, NEW d \in Decisions,
             DecideReview(r, u, d)
      PROVE  Kept
  <2>1. \A s \in Reviews : review[s] # Null => review[s] \in ReviewRow
    BY DEF TypeOK
  <2>2. \A c \in Changes : change[c] # Null => change[c] \in ChangeRow
    BY DEF TypeOK
  <2>4. \A s \in Reviews :
          /\ s # r => review'[s] = review[s]
          /\ s = r => /\ review[s] # Null
                      /\ review'[s].change = review[s].change
                      /\ review'[s].created_by = review[s].created_by
    BY <1>7, <2>1 DEF DecideReview, TypeOK, ReviewRow
  <2>5. review'[r] # Null
    <3>1. Tally(r, [decision[r] EXCEPT ![u] = d]) \in RequestStatuses
      BY TallyType
    <3>2. review[r] \in ReviewRow
      BY <1>7, <2>1 DEF DecideReview
    <3>3. review'[r] \in ReviewRow
      BY <1>7, <3>1, <3>2 DEF DecideReview, TypeOK, ReviewRow
    <3>4. QED
      BY <3>3, NullIsNoRow
  <2>6. RequestsKept /\ RequestAdded
    BY <2>4, <2>5 DEF RequestsKept, RequestAdded
  <2>7. \A c \in Changes :
          /\ change[c] # Null => /\ change'[c].created_by = change[c].created_by
                                 /\ change'[c].required = change[c].required
          /\ change[c] = Null => change'[c] = Null
    BY <1>7, <2>2 DEF DecideReview, ChangeStatus, ChangeRow
  <2>8. \A c \in Changes : change[c] # Null => change'[c] # Null
    <3>1. Tally(r, [decision[r] EXCEPT ![u] = d]) \in RequestStatuses
      BY TallyType
    <3>2. \A c \in Changes : change[c] # Null =>
             change'[c] \in ChangeRow
      BY <1>7, <2>2, <3>1 DEF DecideReview, ChangeStatus, ChangeRow, RequestStatuses, ReviewStatuses
    <3>3. QED
      BY <3>2, NullIsNoRow
  <2>9. QED
    BY <2>6, <2>7, <2>8 DEF ChangesKept, RequirementMet
<1>8. ASSUME NEW page \in SUBSET Requests, ListReviews(page) PROVE Kept
  BY <1>2, <1>8 DEF ListReviews
<1>9. ASSUME NEW c \in Changes \cup {Null}, NEW v \in Versions, DatadogAlert(c, v)
      PROVE  Kept
  <2>1. PICK n \in 1..MaxRequired : EnsureReviewRequest(c, v, n, Datadog)
    BY <1>9, GovernanceAssumption DEF DatadogAlert
  <2>2. change' = change /\ (c # Null => change'[c] # Null)
    BY <1>9 DEF DatadogAlert
  <2>3. RequestsKept /\ RequestAdded
    BY <2>1, <2>2, EnsureFrame DEF Authors
  <2>4. QED
    BY <2>2, <2>3 DEF ChangesKept, RequirementMet
<1>10. ASSUME NEW c \in Changes, CheckGate(c) PROVE Kept
  <2>1. PICK r \in RequestsOfChange(c) : review' = Recomputed({r})
    BY <1>10 DEF CheckGate
  <2>2. {r} \in SUBSET Requests
    BY <2>1 DEF RequestsOfChange
  <2>3. QED
    BY <1>2, <1>10, <2>1, <2>2 DEF CheckGate
<1>11. ASSUME VersionStep \/ GateStep \/ UNCHANGED vars PROVE Kept
  BY <1>1, <1>3, <1>10, <1>11
  DEF VersionStep, GateStep, CreateVersion, CreateSuite, RunEvaluation, vars
<1>12. QED
  BY <1>1, <1>4, <1>5, <1>6, <1>7, <1>8, <1>9, <1>11
  DEF Next, ChangeStep, ReviewStep, CreateBlockingComment

\* Registering or importing a change writes no assignment and no version.
LEMMA ChangesOnly == ChangeStep => UNCHANGED <<status, decision>>
<1>1. ASSUME NEW c \in Changes, NEW row \in Payloads, NEW actor \in Users,
             CreateChange(c, row, actor)
      PROVE  UNCHANGED <<status, decision>>
  BY <1>1 DEF CreateChange
<1>2. ASSUME NEW c \in Changes, NEW a \in Assets \cup {Null}, NEW ai \in BOOLEAN,
             NEW n \in {1, 2}, NEW author \in Users \cup {GitLab},
             UpsertGitLabChange(c, a, ai, n, author)
      PROVE  UNCHANGED <<status, decision>>
  BY <1>2 DEF UpsertGitLabChange
<1>3. QED
  BY <1>1, <1>2 DEF ChangeStep

\* Only a decision writes assignments.
LEMMA OnlyDecisions ==
  [Next]_vars => \/ UNCHANGED decision
                 \/ \E r \in Reviews, u \in Deciders, d \in Decisions : DecideReview(r, u, d)
<1>1. VersionStep => UNCHANGED decision
  BY DEF VersionStep, CreateVersion, ActivateVersion
<1>2. ChangeStep => UNCHANGED decision
  BY ChangesOnly
<1>3. GateStep => UNCHANGED decision
  BY DEF GateStep, CreateSuite, RunEvaluation, CheckGate
<1>4. ReviewStep => \/ UNCHANGED decision
                    \/ \E r \in Reviews, u \in Deciders, d \in Decisions :
                         DecideReview(r, u, d)
  BY DEF ReviewStep, CreateReview, CreateBlockingComment, ListReviews, DatadogAlert
<1>5. QED
  BY <1>1, <1>2, <1>3, <1>4 DEF Next, vars

\* The handlers that write the status of a version.
LEMMA OnlyStatusWriters ==
  [Next]_vars =>
    \/ UNCHANGED status
    \/ VersionStep
    \/ \E c \in Changes \cup {Null}, v \in Versions \cup {Null},
          n \in 1..MaxRequired, author \in Users : CreateReview(c, v, n, author)
    \/ \E r \in Reviews, u \in Deciders, d \in Decisions : DecideReview(r, u, d)
<1>1. ChangeStep => UNCHANGED status
  BY ChangesOnly
<1>2. GateStep => UNCHANGED status
  BY DEF GateStep, CreateSuite, RunEvaluation, CheckGate
<1>3. ReviewStep =>
        \/ UNCHANGED status
        \/ \E c \in Changes \cup {Null}, v \in Versions \cup {Null},
              n \in 1..MaxRequired, author \in Users : CreateReview(c, v, n, author)
        \/ \E r \in Reviews, u \in Deciders, d \in Decisions : DecideReview(r, u, d)
  BY DEF ReviewStep, CreateBlockingComment, ListReviews, DatadogAlert
<1>4. QED
  BY <1>1, <1>2, <1>3 DEF Next, vars

-------------------------------------------------------------------------------
(* At most one active version.                                              *)

\* Making v active leaves no other version of its asset active.
LEMMA PromotedUnique ==
  ASSUME TypeOK, AtMostOneActive, NEW v \in Versions, status' = Promoted(v)
  PROVE  AtMostOneActive'
  BY DEF TypeOK, AtMostOneActive, Promoted

LEMMA OneActiveStep == TypeOK /\ AtMostOneActive /\ [Next]_vars => AtMostOneActive'
<1> SUFFICES ASSUME TypeOK, AtMostOneActive, [Next]_vars PROVE AtMostOneActive'
  OBVIOUS
<1>1. ASSUME \A v \in Versions : status'[v] = "active" => status[v] = "active"
      PROVE  AtMostOneActive'
  BY <1>1 DEF AtMostOneActive
<1>2. ASSUME NEW v \in Versions, NEW b \in BOOLEAN, CreateVersion(v, b)
      PROVE  AtMostOneActive'
  <2>1. CASE status' = Promoted(v)
    BY <2>1, PromotedUnique
  <2>2. CASE status' = [status EXCEPT ![v] = "draft"]
    BY <1>1, <2>2 DEF TypeOK
  <2>3. QED
    BY <1>2, <2>1, <2>2 DEF CreateVersion
<1>3. ASSUME NEW v \in Versions, ActivateVersion(v) PROVE AtMostOneActive'
  BY <1>3, PromotedUnique DEF ActivateVersion
<1>4. ASSUME NEW c \in Changes \cup {Null}, NEW v \in Versions \cup {Null},
             NEW n \in 1..MaxRequired, NEW author \in Users,
             CreateReview(c, v, n, author)
      PROVE  AtMostOneActive'
  BY <1>1, <1>4 DEF CreateReview
<1>5. ASSUME NEW r \in Reviews, NEW u \in Deciders, NEW d \in Decisions,
             DecideReview(r, u, d)
      PROVE  AtMostOneActive'
  <2>1. Tally(r, [decision[r] EXCEPT ![u] = d]) # "active"
    BY TallyType DEF RequestStatuses
  <2>2. QED
    BY <1>1, <1>5, <2>1 DEF DecideReview
<1>6. ASSUME UNCHANGED status PROVE AtMostOneActive'
  BY <1>6 DEF AtMostOneActive
<1>7. QED
  BY <1>2, <1>3, <1>4, <1>5, <1>6, OnlyStatusWriters DEF VersionStep

\* An asset never has two active versions, for any number of assets, versions,
\* users and requests, when handlers are serialised.
THEOREM OneActive == Spec => []AtMostOneActive
<1>1. Init => AtMostOneActive
  BY DEF Init, AtMostOneActive
<1>2. QED
  BY <1>1, OneActiveStep, TypeCorrect, PTL DEF Spec

-------------------------------------------------------------------------------
(* Requests and approvals.                                                  *)

\* Requests refer to registered changes, and only requests have decisions.
References ==
  /\ \A r \in Requests : review[r].change # Null => change[review[r].change] # Null
  /\ \A r \in Reviews : review[r] = Null => \A u \in Users : decision[r][u] = "pending"

GovernanceInv == References /\ OneRequestPerReviewedChange /\ NoSelfApproval

LEMMA OneRequestStep ==
  TypeOK /\ OneRequestPerReviewedChange /\ [Next]_vars => OneRequestPerReviewedChange'
<1> SUFFICES ASSUME TypeOK, OneRequestPerReviewedChange, [Next]_vars
             PROVE  OneRequestPerReviewedChange'
  OBVIOUS
<1>1. ChangesKept /\ RequestsKept /\ RequestAdded /\ RequirementMet
  BY Frame
<1>2. ASSUME NEW r \in Reviews, NEW s \in Reviews, review'[r] # Null, review'[s] # Null,
             review'[r].change # Null, review'[r].change = review'[s].change
      PROVE  r = s
  <2>1. CASE review[r] # Null /\ review[s] # Null
    BY <1>1, <1>2, <2>1 DEF RequestsKept, OneRequestPerReviewedChange, Requests
  <2>2. CASE review[r] = Null /\ review[s] # Null
    BY <1>1, <1>2, <2>2 DEF RequestsKept, RequestAdded, RequestsOfChange, Requests
  <2>3. CASE review[r] # Null /\ review[s] = Null
    BY <1>1, <1>2, <2>3 DEF RequestsKept, RequestAdded, RequestsOfChange, Requests
  <2>4. CASE review[r] = Null /\ review[s] = Null
    BY <1>1, <1>2, <2>4 DEF RequestAdded
  <2>5. QED
    BY <2>1, <2>2, <2>3, <2>4
<1>3. ASSUME NEW c \in Changes, change'[c] # Null, change'[c].required
      PROVE  \E r \in Reviews : review'[r] # Null /\ review'[r].change = c
  <2>1. CASE change[c] # Null /\ change[c].required
    <3>1. PICK r \in Reviews : review[r] # Null /\ review[r].change = c
      BY <2>1 DEF OneRequestPerReviewedChange, Registered, RequestsOfChange, Requests
    <3>2. QED
      BY <1>1, <3>1 DEF RequestsKept
  <2>2. QED
    BY <1>1, <1>3, <2>1 DEF RequirementMet
<1>4. QED
  BY <1>2, <1>3 DEF OneRequestPerReviewedChange, Registered, RequestsOfChange, Requests

LEMMA ReferencesStep == TypeOK /\ References /\ [Next]_vars => References'
<1> SUFFICES ASSUME TypeOK, References, [Next]_vars PROVE References'
  OBVIOUS
<1>1. ChangesKept /\ RequestsKept /\ RequestAdded
  BY Frame
<1>2. TypeOK'
  BY VersionStepType, ChangeStepType, ReviewStepType, GateStepType DEF Next, TypeOK, vars
<1>3. ASSUME NEW r \in Reviews, review'[r] # Null, review'[r].change # Null
      PROVE  change'[review'[r].change] # Null
  <2>1. CASE review[r] = Null
    BY <1>1, <1>3, <2>1 DEF RequestAdded
  <2>2. CASE review[r] # Null
    BY <1>1, <1>3, <2>2 DEF RequestsKept, ChangesKept, References, Requests, TypeOK, ReviewRow
  <2>3. QED
    BY <2>1, <2>2
<1>4. ASSUME NEW r \in Reviews, review'[r] = Null, NEW u \in Users
      PROVE  decision'[r][u] = "pending"
  <2>1. review[r] = Null /\ decision[r][u] = "pending"
    BY <1>1, <1>4 DEF RequestsKept, References
  <2>2. ASSUME NEW s \in Reviews, NEW w \in Deciders, NEW d \in Decisions,
               DecideReview(s, w, d)
        PROVE  decision'[r] = decision[r]
    BY <2>1, <2>2 DEF DecideReview, TypeOK
  <2>3. decision'[r] = decision[r]
    BY <2>2, OnlyDecisions
  <2>4. QED
    BY <2>1, <2>3
<1>5. QED
  BY <1>3, <1>4 DEF References, Requests

LEMMA NoSelfApprovalStep ==
  TypeOK /\ References /\ NoSelfApproval /\ [Next]_vars => NoSelfApproval'
<1> SUFFICES ASSUME TypeOK, References, NoSelfApproval, [Next]_vars,
                    NEW r \in Reviews, review'[r] # Null, NEW u \in Users,
                    decision'[r][u] = "approved"
             PROVE  Independent(r, u)'
  BY DEF NoSelfApproval, IndependentApprovers, Requests
<1>1. ChangesKept /\ RequestsKept
  BY Frame
<1>2. CASE decision'[r] = decision[r]
  <2>1. review[r] # Null
    BY <1>2 DEF References
  <2>2. Independent(r, u)
    BY <1>2, <2>1 DEF NoSelfApproval, IndependentApprovers, Requests
  <2>3. QED
    BY <1>1, <2>1, <2>2 DEF Independent, ChangesKept, RequestsKept, References, Requests,
                            TypeOK, ReviewRow
<1>3. ASSUME NEW s \in Reviews, NEW w \in Deciders, NEW d \in Decisions,
             DecideReview(s, w, d), decision'[r] # decision[r]
      PROVE  Independent(r, u)'
  <2>1. s = r /\ review[r] # Null /\ MayDecide(r, w, d)
        /\ decision'[r] = [decision[r] EXCEPT ![w] = d]
    BY <1>3 DEF DecideReview, TypeOK
  <2>2. Independent(r, u)
    <3>1. CASE u = w
      BY <2>1, <3>1 DEF TypeOK, MayDecide, Independent
    <3>2. CASE u # w
      BY <2>1, <3>2 DEF NoSelfApproval, IndependentApprovers, Requests, TypeOK
    <3>3. QED
      BY <3>1, <3>2
  <2>3. QED
    BY <1>1, <2>1, <2>2 DEF Independent, ChangesKept, RequestsKept, References, Requests,
                            TypeOK, ReviewRow
<1>4. QED
  BY <1>2, <1>3, OnlyDecisions

LEMMA GovernanceInvariant == Spec => []GovernanceInv
<1>1. Init => GovernanceInv
  BY DEF Init, GovernanceInv, References, OneRequestPerReviewedChange, NoSelfApproval,
         Requests, Registered, RequestsOfChange
<1>2. TypeOK /\ GovernanceInv /\ [Next]_vars => GovernanceInv'
  BY OneRequestStep, ReferencesStep, NoSelfApprovalStep DEF GovernanceInv
<1>3. QED
  BY <1>1, <1>2, TypeCorrect, PTL DEF Spec

\* Each change has at most one review request, and one if it must be reviewed.
THEOREM OneRequest == Spec => []OneRequestPerReviewedChange
  BY GovernanceInvariant, PTL DEF GovernanceInv

\* No approval ever counted is by the author of the request or of its change.
THEOREM NobodyApprovesAlone == Spec => []NoSelfApproval
  BY GovernanceInvariant, PTL DEF GovernanceInv

-------------------------------------------------------------------------------
(* The guardrails.                                                          *)

\* Rules added to a version that has some never relax the decision on a call,
\* unless one raises.
THEOREM MoreRulesTighten ==
  ASSUME NEW rules, NEW more, NEW call, NEW default,
         rules # {}, \A rule \in rules \cup more : rule.type # "faulty"
  PROVE  Rank[Decision(rules, call, default)]
           <= Rank[Decision(rules \cup more, call, default)]
<1>1. (\E rule \in rules : Blocks(rule, call)) => \E rule \in rules \cup more : Blocks(rule, call)
  OBVIOUS
<1>2. (\E rule \in rules : AsksReview(rule, call))
        => \E rule \in rules \cup more : AsksReview(rule, call)
  OBVIOUS
<1>3. rules \cup more # {} /\ \A rule \in rules : rule.type # "faulty"
  OBVIOUS
<1>4. Rank["allow"] = 0 /\ Rank["review"] = 1 /\ Rank["block"] = 2
  BY DEF Rank
<1>5. QED
  BY <1>1, <1>2, <1>3, <1>4 DEF Decision

-------------------------------------------------------------------------------
(* The gate.                                                                *)

\* When nobody approved for themselves, an approved tally is a clearance.
LEMMA TallyCleared ==
  ASSUME TypeOK, NoSelfApproval, NEW r \in Requests
  PROVE  Tally(r, decision[r]) = "approved" <=> Cleared(r)
<1>1. IndependentApprovers(r) = Approvers(decision[r])
  BY DEF NoSelfApproval, IndependentApprovers, Approvers
<1>2. QED
  BY <1>1 DEF Tally, Cleared

\* What the verdict says of the one request of a change.
LEMMA GatePass == TypeOK /\ GovernanceInv => PassMeansCleared
<1> SUFFICES ASSUME TypeOK, GovernanceInv, NEW c \in Registered, "pass" \in GateVerdicts(c)
             PROVE  /\ \A r \in RequestsOfChange(c) : Cleared(r)
                    /\ change[c].risk = "high" \/ change[c].required
                         => RequestsOfChange(c) # {}
  BY DEF PassMeansCleared
<1>1. CASE RequestsOfChange(c) = {}
  <2>1. GateVerdict(GateFacts(c, {})) = "pass"
    BY <1>1 DEF GateVerdicts
  <2>2. change[c].risk = "high" => change[c].required
    BY <2>1 DEF GateVerdict, GateFacts, RecordVerdict, BlockedByRecord
  <2>3. ~change[c].required
    BY <1>1 DEF GovernanceInv, OneRequestPerReviewedChange
  <2>4. QED
    BY <1>1, <2>2, <2>3
<1>2. CASE RequestsOfChange(c) # {}
  <2>1. PICK r \in RequestsOfChange(c) : GateVerdict(GateFacts(c, {r})) = "pass"
    BY <1>2 DEF GateVerdicts
  <2>2. Tally(r, decision[r]) = "approved"
    BY <2>1 DEF GateVerdict, GateFacts
  <2>3. r \in Requests /\ Cleared(r)
    BY <2>2, TallyCleared DEF RequestsOfChange, GovernanceInv
  <2>4. \A s \in RequestsOfChange(c) : s = r
    BY <2>1, GovernanceAssumption
    DEF RequestsOfChange, GovernanceInv, OneRequestPerReviewedChange, Registered
  <2>5. QED
    BY <1>2, <2>3, <2>4
<1>3. QED
  BY <1>1, <1>2

LEMMA GateBlock == TypeOK /\ GovernanceInv => UnclearedHighRiskBlocked
<1> SUFFICES ASSUME TypeOK, GovernanceInv, NEW c \in Registered, change[c].risk = "high",
                    \A r \in RequestsOfChange(c) : ~Cleared(r)
             PROVE  GateVerdicts(c) = {"block"}
  BY DEF UnclearedHighRiskBlocked
<1>1. CASE RequestsOfChange(c) = {}
  <2>1. ~change[c].required
    BY <1>1 DEF GovernanceInv, OneRequestPerReviewedChange
  <2>2. GateVerdict(GateFacts(c, {})) = "block"
    BY <2>1 DEF GateVerdict, GateFacts, RecordVerdict, BlockedByRecord
  <2>3. QED
    BY <1>1, <2>2 DEF GateVerdicts
<1>2. CASE RequestsOfChange(c) # {}
  <2>1. ASSUME NEW r \in RequestsOfChange(c)
        PROVE  GateVerdict(GateFacts(c, {r})) = "block"
    <3>1. Tally(r, decision[r]) # "approved"
      BY <2>1, TallyCleared DEF RequestsOfChange, GovernanceInv
    <3>2. QED
      BY <3>1 DEF GateVerdict, GateFacts
  <2>2. QED
    BY <1>2, <2>1 DEF GateVerdicts
<1>3. QED
  BY <1>1, <1>2

\* A suite that applies and has no passing run, whatever request is found.
LEMMA UnpassedVerdict ==
  ASSUME TypeOK, NEW c \in Registered, NEW s \in Suites, Applies(s, c),
         lastRun[s][change[c].version] # "passed", NEW R
  PROVE  /\ GateVerdict(GateFacts(c, R)) # "pass"
         /\ change[c].risk = "high" /\ suite[s].block_on_fail
              => GateVerdict(GateFacts(c, R)) = "block"
<1>1. s \in Unpassed(c)
  BY DEF Applies, Unpassed
<1>2. suite[s].block_on_fail \in BOOLEAN
  BY DEF Applies, TypeOK, SuiteRow
<1>3. suite[s].block_on_fail => GateFacts(c, R).blockers
  BY <1>1 DEF GateFacts
<1>4. ~suite[s].block_on_fail => GateFacts(c, R).warners
  BY <1>1 DEF GateFacts
<1>5. GateFacts(c, R).risk = change[c].risk
  BY DEF GateFacts
<1>6. QED
  BY <1>2, <1>3, <1>4, <1>5 DEF GateVerdict, RecordVerdict, BlockedByRecord, WarnedByRecord

LEMMA GateEvaluated == TypeOK => PassMeansEvaluated
<1> SUFFICES ASSUME TypeOK, NEW c \in Registered, NEW s \in Suites, Applies(s, c),
                    lastRun[s][change[c].version] # "passed"
             PROVE  /\ "pass" \notin GateVerdicts(c)
                    /\ change[c].risk = "high" /\ suite[s].block_on_fail
                         => GateVerdicts(c) = {"block"}
  BY DEF PassMeansEvaluated
<1>1. CASE RequestsOfChange(c) = {}
  <2>1. GateVerdicts(c) = {GateVerdict(GateFacts(c, {}))}
    BY <1>1 DEF GateVerdicts
  <2>2. QED
    BY <2>1, UnpassedVerdict
<1>2. CASE RequestsOfChange(c) # {}
  <2>1. GateVerdicts(c) = {GateVerdict(GateFacts(c, {r})) : r \in RequestsOfChange(c)}
    BY <1>2 DEF GateVerdicts
  <2>2. QED
    BY <1>2, <2>1, UnpassedVerdict
<1>3. QED
  BY <1>1, <1>2

\* A change passes the gate only on independent approvals with nothing
\* standing against it, whatever its client declared.
THEOREM GatePassesOnlyCleared == Spec => []PassMeansCleared
  BY GatePass, TypeCorrect, GovernanceInvariant, PTL

\* The gate blocks a high-risk change until its review is cleared.
THEOREM GateBlocksUncleared == Spec => []UnclearedHighRiskBlocked
  BY GateBlock, TypeCorrect, GovernanceInvariant, PTL

\* The gate passes no version on which a suite that applies failed, is stale or
\* was never run, and no approval outweighs a suite that blocks a high-risk change.
THEOREM GatePassesOnlyEvaluated == Spec => []PassMeansEvaluated
  BY GateEvaluated, TypeCorrect, PTL

\* What a check may find.
Facts ==
  [linked : BOOLEAN, guarded : BOOLEAN, risk : RiskLevels, required : BOOLEAN,
   status : ReviewStatuses, blockers : BOOLEAN, warners : BOOLEAN,
   requests : SUBSET RequestStatuses]

\* The change of g is the one of f, with nothing against it that is not against f.
NoWorse(g, f) ==
  /\ g.risk = f.risk /\ g.required = f.required
  /\ f.linked => g.linked
  /\ g.guarded => f.guarded
  /\ f.status = "approved" => g.status = "approved"
  /\ g.blockers => f.blockers
  /\ g.warners => f.warners
  /\ (\E s \in g.requests : s # "approved") => \E s \in f.requests : s # "approved"

Severity(verdict) == IF verdict = "block" THEN 2 ELSE IF verdict = "warn" THEN 1 ELSE 0

\* An objection that goes away, a suite passed or a request approved, never makes
\* the verdict stricter, and never spoils a pass.  The exception is the one that
\* GuardrailsBlockedUntilApproved is violated by: below high risk an unapproved
\* request replaces a block by a warning, which its approval then brings back
\* (ci_gate_check).
THEOREM FewerObjectionsNeverStricter ==
  ASSUME NEW f \in Facts, NEW g \in Facts, NoWorse(g, f)
  PROVE  /\ GateVerdict(f) = "pass" => GateVerdict(g) = "pass"
         /\ f.risk = "high" \/ (\A s \in f.requests : s = "approved")
              => Severity(GateVerdict(g)) <= Severity(GateVerdict(f))
<1>1. BlockedByRecord(g) => BlockedByRecord(f)
  BY DEF NoWorse, BlockedByRecord
<1>2. WarnedByRecord(g) => WarnedByRecord(f)
  BY DEF NoWorse, WarnedByRecord
<1>3. CASE \E s \in f.requests : s # "approved"
  BY <1>3 DEF GateVerdict, RecordVerdict, Severity
<1>4. CASE \A s \in f.requests : s = "approved"
  <2>1. GateVerdict(f) = RecordVerdict(f) /\ GateVerdict(g) = RecordVerdict(g)
    BY <1>4 DEF NoWorse, GateVerdict
  <2>2. QED
    BY <1>1, <1>2, <2>1 DEF RecordVerdict, Severity
<1>5. QED
  BY <1>3, <1>4

-------------------------------------------------------------------------------
(* The scores of evaluations.                                               *)

\* The cases of a suite: finitely many, with positive weights.
Weighted(cases) ==
  IsFiniteSet(DOMAIN cases) /\ \A i \in DOMAIN cases : cases[i].weight \in Nat \ {0}

\* f sums up the weights of the cases.
Adds(f, cases) ==
  /\ \A I \in SUBSET DOMAIN cases : Weight(cases, I) = f[I]
  /\ f[{}] = 0
  /\ \A I \in SUBSET DOMAIN cases : \A i \in I : f[I] = cases[i].weight + f[I \ {i}]
  /\ \A I, J \in SUBSET DOMAIN cases : I \cap J = {} => f[I \cup J] = f[I] + f[J]

\* Weight sums up as _execute_evaluation does: there is one function that sums
\* the weights of every set of cases, and the sum of disjoint sets is the sum of
\* their sums.
LEMMA WeightSums ==
  ASSUME NEW cases, Weighted(cases)
  PROVE  \E f \in [SUBSET DOMAIN cases -> Nat] : Adds(f, cases)
<1> DEFINE D == DOMAIN cases
           w == [i \in D |-> cases[i].weight]
           pick == [s \in SUBSET D |-> CHOOSE x \in s : TRUE]
<1>1. IsFiniteSet(D) /\ w \in [D -> Nat]
  BY DEF Weighted
<1>2. Picks(pick, D)
  BY DEF Picks
<1>3. PICK f \in [SUBSET D -> Nat] : SumsUp(f, w, pick, D)
  <2> HIDE DEF D, w, pick
  <2>1. QED
    BY <1>1, <1>2, SumExists
<1>4. ASSUME NEW I \in SUBSET D, NEW i \in I
      PROVE  f[I] = w[i] + f[I \ {i}]
  <2> HIDE DEF D, w, pick
  <2>1. QED
    BY <1>1, <1>2, <1>3, SumAnyElement, Z3
<1>5. f[{}] = 0
  BY <1>3 DEF SumsUp
<1>6. ASSUME NEW I \in SUBSET D, NEW J \in SUBSET D, I \cap J = {}
      PROVE  f[I \cup J] = f[I] + f[J]
  <2> HIDE DEF D, w, pick
  <2>1. QED
    BY <1>1, <1>2, <1>3, <1>6, SumDisjoint
<1>7. ASSUME NEW I \in SUBSET D
      PROVE  Weight(cases, I) = f[I]
  <2> DEFINE Body(g) == [s \in SUBSET I |->
               IF s = {} THEN 0
               ELSE cases[CHOOSE x \in s : TRUE].weight + g[s \ {CHOOSE x \in s : TRUE}]]
             sum == CHOOSE g : g = Body(g)
             part == [s \in SUBSET I |-> f[s]]
  <2>1. Weight(cases, I) = sum[I]
    BY DEF Weight, MapThenSumSet, MapThenFoldSet
  <2>2. \A s \in SUBSET I : s # {} =>
          /\ s \in SUBSET D /\ pick[s] = (CHOOSE x \in s : TRUE) /\ pick[s] \in s
          /\ w[pick[s]] = cases[CHOOSE x \in s : TRUE].weight
    <3>1. SUFFICES ASSUME NEW s \in SUBSET I, s # {}
                   PROVE  /\ s \in SUBSET D /\ pick[s] = (CHOOSE x \in s : TRUE) /\ pick[s] \in s
                          /\ w[pick[s]] = cases[CHOOSE x \in s : TRUE].weight
      OBVIOUS
    <3>2. s \in SUBSET D /\ pick[s] = (CHOOSE x \in s : TRUE)
      OBVIOUS
    <3>3. pick[s] \in s
      BY <1>2, <3>1, <3>2 DEF Picks
    <3> HIDE DEF pick
    <3>4. w[pick[s]] = cases[CHOOSE x \in s : TRUE].weight
      BY <3>2, <3>3
    <3>5. QED
      BY <3>2, <3>3, <3>4
  <2>3. part = Body(part)
    <3>1. ASSUME NEW s \in SUBSET I
          PROVE  part[s] = Body(part)[s]
      <4>1. f[s] = IF s = {} THEN 0 ELSE w[pick[s]] + f[s \ {pick[s]}]
        <5> HIDE DEF D, w, pick
        <5>1. s \in SUBSET D
          OBVIOUS
        <5>2. QED
          BY <1>3, <5>1 DEF SumsUp
      <4>2. s # {} => part[s \ {pick[s]}] = f[s \ {pick[s]}]
        <5> HIDE DEF pick
        <5>1. QED
          OBVIOUS
      <4>3. part[s] = f[s]
        OBVIOUS
      <4>4. Body(part)[s] =
              IF s = {} THEN 0
              ELSE cases[CHOOSE x \in s : TRUE].weight + part[s \ {CHOOSE x \in s : TRUE}]
        <5> HIDE DEF part
        <5>1. QED
          OBVIOUS
      <4> HIDE DEF w, pick, part, Body, D
      <4>5. QED
        BY <2>2, <4>1, <4>2, <4>3, <4>4
    <3>2. Body(part) = [s \in SUBSET I |-> Body(part)[s]] /\ part = [s \in SUBSET I |-> part[s]]
      OBVIOUS
    <3> HIDE DEF part, Body
    <3>3. QED
      BY <3>1, <3>2
  <2>4. sum = Body(sum)
    <3> HIDE DEF part, Body
    <3>1. QED
      BY <2>3
  <2>5. SumsUp(sum, w, pick, I)
    <3>1. ASSUME NEW s \in SUBSET I
          PROVE  sum[s] = IF s = {} THEN 0 ELSE w[pick[s]] + sum[s \ {pick[s]}]
      <4> HIDE DEF sum
      <4>1. sum[s] = IF s = {} THEN 0
              ELSE cases[CHOOSE x \in s : TRUE].weight + sum[s \ {CHOOSE x \in s : TRUE}]
        BY <2>4
      <4> HIDE DEF w, pick, D
      <4>2. QED
        BY <2>2, <4>1
    <3> HIDE DEF w, pick, D, sum
    <3>2. QED
      BY <3>1 DEF SumsUp
  <2>6. f[I] = sum[I]
    <3>1. I \in SUBSET I
      OBVIOUS
    <3> HIDE DEF sum, w, pick, D
    <3>2. QED
      BY <1>1, <1>2, <1>3, <2>5, <3>1, SumUnique
  <2> HIDE DEF sum
  <2>7. QED
    BY <2>1, <2>6
<1>8. \A I \in SUBSET D : \A i \in I : w[i] = cases[i].weight
  OBVIOUS
<1> HIDE DEF w, pick
<1>9. \A I \in SUBSET D : \A i \in I : f[I] = cases[i].weight + f[I \ {i}]
  BY <1>4, <1>8
<1>10. QED
  BY <1>5, <1>6, <1>7, <1>9 DEF Adds

LEMMA WeightOfNone ==
  ASSUME NEW cases, Weighted(cases)
  PROVE  Weight(cases, {}) = 0
<1>1. PICK f \in [SUBSET DOMAIN cases -> Nat] : Adds(f, cases)
  BY WeightSums
<1>2. f[{}] = 0 /\ {} \in SUBSET DOMAIN cases
  BY <1>1 DEF Adds
<1>3. QED
  BY <1>1, <1>2 DEF Adds

\* More passing cases weigh more.
LEMMA WeightOrder ==
  ASSUME NEW cases, Weighted(cases), NEW I \in SUBSET DOMAIN cases, NEW J \in SUBSET I
  PROVE  /\ Weight(cases, I) \in Nat /\ Weight(cases, J) \in Nat
         /\ Weight(cases, I \ J) = Weight(cases, I) - Weight(cases, J)
         /\ Weight(cases, J) <= Weight(cases, I)
<1>1. PICK f \in [SUBSET DOMAIN cases -> Nat] : Adds(f, cases)
  BY WeightSums
<1> DEFINE R == I \ J
<1>2. /\ J \in SUBSET DOMAIN cases /\ R \in SUBSET DOMAIN cases /\ J \cap R = {}
      /\ J \cup R = I
  OBVIOUS
<1> HIDE DEF R
<1>3. f[J] \in Nat /\ f[R] \in Nat /\ f[I] = f[J] + f[R]
  <2>1. f[J \cup R] = f[J] + f[R]
    BY <1>1, <1>2 DEF Adds
  <2>2. QED
    BY <1>2, <2>1
<1>4. Weight(cases, I) = f[I] /\ Weight(cases, J) = f[J] /\ Weight(cases, R) = f[R]
  BY <1>1, <1>2 DEF Adds
<1>5. Weight(cases, I) \in Nat /\ Weight(cases, J) \in Nat
      /\ Weight(cases, R) = Weight(cases, I) - Weight(cases, J)
      /\ Weight(cases, J) <= Weight(cases, I)
  BY <1>3, <1>4
<1>6. QED
  BY <1>5 DEF R

\* A suite with a case weighs something.
LEMMA WeightPositive ==
  ASSUME NEW cases, Weighted(cases), DOMAIN cases # {}
  PROVE  Weight(cases, DOMAIN cases) > 0
<1>1. PICK f \in [SUBSET DOMAIN cases -> Nat] : Adds(f, cases)
  BY WeightSums
<1>2. PICK i \in DOMAIN cases : TRUE
  OBVIOUS
<1>3. DOMAIN cases \in SUBSET DOMAIN cases /\ DOMAIN cases \ {i} \in SUBSET DOMAIN cases
  OBVIOUS
<1>4. cases[i].weight \in Nat \ {0} /\ f[DOMAIN cases \ {i}] \in Nat
  BY <1>2, <1>3 DEF Weighted
<1>5. f[DOMAIN cases] = cases[i].weight + f[DOMAIN cases \ {i}]
  BY <1>1, <1>2, <1>3 DEF Adds
<1>6. QED
  BY <1>1, <1>3, <1>4, <1>5 DEF Adds

\* A set of passing cases weighs between nothing and all, and something is there
\* to weigh.
LEMMA ScoredCases ==
  ASSUME NEW s \in Suites, DOMAIN Cases[s] # {}, NEW I \in SUBSET DOMAIN Cases[s]
  PROVE  LET total == Weight(Cases[s], DOMAIN Cases[s])
             part == Weight(Cases[s], I)
         IN  /\ total \in Nat /\ part \in Nat /\ total > 0 /\ part <= total
             /\ Scores(Cases[s], I) = Percents(part, total)
<1>1. Weighted(Cases[s])
  BY SuiteAssumption DEF Weighted
<1>2. DOMAIN Cases[s] \in SUBSET DOMAIN Cases[s]
  OBVIOUS
<1>3. Weight(Cases[s], DOMAIN Cases[s]) > 0
  BY <1>1, WeightPositive
<1>4. /\ Weight(Cases[s], DOMAIN Cases[s]) \in Nat /\ Weight(Cases[s], I) \in Nat
      /\ Weight(Cases[s], I) <= Weight(Cases[s], DOMAIN Cases[s])
  BY <1>1, <1>2, WeightOrder
<1>5. QED
  BY <1>3, <1>4 DEF Scores

\* Percentages of parts of a whole exist.
LEMMA PercentExists ==
  ASSUME NEW part \in Nat, NEW whole \in Nat, whole > 0, part <= whole
  PROVE  Percents(part, whole) # {}
<1> DEFINE n == (200 * part + whole) \div (2 * whole)
<1>1. /\ n \in Int /\ (2 * whole) * n <= 200 * part + whole
      /\ 200 * part + whole < (2 * whole) * (n + 1)
  <2>1. 2 * whole \in Nat \ {0} /\ 200 * part + whole \in Nat
    OBVIOUS
  <2>2. \A x \in Nat, y \in Nat \ {0} :
          /\ x \div y \in Int /\ y * (x \div y) <= x /\ x < y * (x \div y + 1)
    OBVIOUS
  <2>3. QED
    BY <2>1, <2>2
<1> HIDE DEF n
<1>2. (2 * whole) * n = 2 * n * whole /\ (2 * whole) * (n + 1) = 2 * n * whole + 2 * whole
  BY <1>1
<1>3. 200 * part - whole <= 2 * n * whole /\ 2 * n * whole <= 200 * part + whole
  <2> DEFINE p == 2 * n * whole
  <2>1. p \in Int
    BY <1>1
  <2>2. p <= 200 * part + whole /\ 200 * part + whole < p + 2 * whole
    BY <1>1, <1>2
  <2> HIDE DEF p
  <2>3. 200 * part - whole <= p
    BY <2>1, <2>2
  <2>4. QED
    BY <2>2, <2>3 DEF p
<1>4. n \in 0..100
  <2>1. n >= 0
    <3>1. SUFFICES ASSUME n <= -1
                   PROVE  FALSE
      BY <1>1
    <3>2. (n + 1) * whole <= 0
      BY <1>1, <3>1
    <3>3. QED
      BY <1>1, <3>2
  <2>2. n <= 100
    <3>1. SUFFICES ASSUME n >= 101
                   PROVE  FALSE
      BY <1>1
    <3>2. n * whole >= 101 * whole
      BY <1>1, <3>1
    <3>3. QED
      BY <1>1, <1>2, <3>2
  <2>3. QED
    BY <1>1, <2>1, <2>2
<1>5. QED
  BY <1>3, <1>4 DEF Percents

\* Of two percentages of a whole, the one of the larger part is not the smaller.
LEMMA PercentOrder ==
  ASSUME NEW part \in Nat, NEW more \in Nat, NEW whole \in Nat, whole > 0, part < more,
         NEW m \in Percents(part, whole), NEW n \in Percents(more, whole)
  PROVE  m <= n
<1>1. /\ m \in Int /\ 2 * m * whole <= 200 * part + whole
      /\ n \in Int /\ 200 * more - whole <= 2 * n * whole
  BY DEF Percents
<1>2. SUFFICES ASSUME m >= n + 1
               PROVE  FALSE
  BY <1>1
<1>3. m * whole >= (n + 1) * whole
  BY <1>1, <1>2
<1>4. 2 * m * whole >= 2 * n * whole + 2 * whole
  <2>1. 2 * m * whole = 2 * (m * whole) /\ 2 * n * whole = 2 * (n * whole)
        /\ (n + 1) * whole = n * whole + whole
    BY <1>1
  <2>2. m * whole \in Int /\ n * whole \in Int
    BY <1>1
  <2>3. QED
    BY <1>3, <2>1, <2>2
<1>5. 2 * m * whole \in Int /\ 2 * n * whole \in Int
  BY <1>1
<1>6. QED
  BY <1>1, <1>4, <1>5

\* Every run of a suite gets a score, between 0 and 100: no case passing gives 0
\* and all passing give 100, which reaches every threshold (_execute_evaluation).
THEOREM EveryRunIsScored ==
  ASSUME NEW s \in Suites, NEW I \in SUBSET DOMAIN Cases[s]
  PROVE  /\ Scores(Cases[s], I) # {} /\ Scores(Cases[s], I) \subseteq 0..100
         /\ Scores(Cases[s], {}) = {0}
         /\ DOMAIN Cases[s] # {} =>
              \A n \in Scores(Cases[s], DOMAIN Cases[s]) : n = 100 /\ n >= Threshold[s]
<1>1. CASE DOMAIN Cases[s] = {}
  <2>1. Weighted(Cases[s])
    BY SuiteAssumption DEF Weighted
  <2>2. Weight(Cases[s], {}) = 0
    BY <2>1, WeightOfNone
  <2>3. \A J : Scores(Cases[s], J) = {0}
    BY <1>1, <2>2 DEF Scores
  <2>4. QED
    BY <1>1, <2>3
<1>2. CASE DOMAIN Cases[s] # {}
  <2> DEFINE D == DOMAIN Cases[s]
             total == Weight(Cases[s], D)
  <2>1. D \in SUBSET D /\ {} \in SUBSET D
    OBVIOUS
  <2>2. /\ total \in Nat /\ total > 0
        /\ Scores(Cases[s], D) = Percents(total, total)
    BY <1>2, <2>1, ScoredCases
  <2>3. Scores(Cases[s], {}) = Percents(0, total)
    <3>1. Weighted(Cases[s])
      BY SuiteAssumption DEF Weighted
    <3>2. Weight(Cases[s], {}) = 0
      BY <3>1, WeightOfNone
    <3>3. QED
      BY <1>2, <2>1, <3>2, ScoredCases
  <2>4. Scores(Cases[s], I) # {} /\ Scores(Cases[s], I) \subseteq 0..100
    <3>1. Percents(Weight(Cases[s], I), total) # {}
      BY <1>2, ScoredCases, PercentExists
    <3>2. Scores(Cases[s], I) = Percents(Weight(Cases[s], I), total)
      BY <1>2, ScoredCases
    <3>3. QED
      BY <3>1, <3>2 DEF Percents
  <2> HIDE DEF D, total
  <2>5. ASSUME NEW n \in Percents(0, total)
        PROVE  n = 0
    <3>1. n \in Nat /\ 2 * n * total <= total
      BY <2>2, <2>5 DEF Percents
    <3>2. SUFFICES ASSUME n >= 1
                   PROVE  FALSE
      BY <3>1
    <3>3. n * total >= total
      BY <2>2, <3>1, <3>2
    <3>4. QED
      BY <2>2, <3>1, <3>3
  <2>6. 0 \in Percents(0, total)
    BY <2>2 DEF Percents
  <2>7. ASSUME NEW n \in Percents(total, total)
        PROVE  n = 100 /\ n >= Threshold[s]
    <3>1. n \in 0..100 /\ 200 * total - total <= 2 * n * total
      BY <2>2, <2>7 DEF Percents
    <3>2. n = 100
      <4>1. SUFFICES ASSUME n <= 99
                     PROVE  FALSE
        BY <3>1
      <4>2. n * total <= 99 * total
        BY <2>2, <3>1, <4>1
      <4>3. QED
        BY <2>2, <3>1, <4>2
    <3>3. QED
      BY <3>2, SuiteAssumption
  <2>8. Percents(0, total) = {0}
    BY <2>5, <2>6
  <2>9. QED
    BY <2>2, <2>3, <2>4, <2>7, <2>8 DEF D
<1>3. QED
  BY <1>1, <1>2

\* A case that passes in addition never lowers the score of a run, rounding
\* notwithstanding (_execute_evaluation).
THEOREM MorePassesNeverLower ==
  ASSUME NEW s \in Suites, NEW J \in SUBSET DOMAIN Cases[s], NEW I \in SUBSET J, I # J,
         NEW m \in Scores(Cases[s], I), NEW n \in Scores(Cases[s], J)
  PROVE  m <= n
<1> DEFINE D == DOMAIN Cases[s]
<1>1. Weighted(Cases[s])
  BY SuiteAssumption DEF Weighted
<1>2. PICK i \in J : i \notin I
  OBVIOUS
<1>3. D # {} /\ I \in SUBSET D /\ J \ I \in SUBSET D /\ i \in J \ I
  BY <1>2
<1>4. Weight(Cases[s], I) < Weight(Cases[s], J)
  <2>1. Weight(Cases[s], J \ I) > 0
    <3>1. PICK f \in [SUBSET D -> Nat] : Adds(f, Cases[s])
      BY <1>1, WeightSums
    <3>2. Cases[s][i].weight \in Nat \ {0} /\ f[(J \ I) \ {i}] \in Nat
      BY <1>1, <1>3 DEF Weighted
    <3>3. f[J \ I] = Cases[s][i].weight + f[(J \ I) \ {i}]
      BY <1>3, <3>1 DEF Adds
    <3>4. QED
      BY <1>3, <3>1, <3>2, <3>3 DEF Adds
  <2>2. /\ Weight(Cases[s], J) \in Nat /\ Weight(Cases[s], I) \in Nat
        /\ Weight(Cases[s], J \ I) = Weight(Cases[s], J) - Weight(Cases[s], I)
    BY <1>1, WeightOrder
  <2>3. QED
    BY <2>1, <2>2
<1>5. /\ Weight(Cases[s], D) \in Nat /\ Weight(Cases[s], D) > 0
      /\ Weight(Cases[s], I) \in Nat /\ Weight(Cases[s], J) \in Nat
      /\ Scores(Cases[s], I) = Percents(Weight(Cases[s], I), Weight(Cases[s], D))
      /\ Scores(Cases[s], J) = Percents(Weight(Cases[s], J), Weight(Cases[s], D))
  BY <1>3, ScoredCases
<1>6. QED
  BY <1>4, <1>5, PercentOrder

\* A run of a suite that is out of reach of a version fails, whatever is sent.
LEMMA HopelessRunFails ==
  ASSUME NEW s \in Suites, NEW v \in Versions, NEW outputs \in Outputs[s],
         <<s, v>> \in OutOfReach
  PROVE  Outcomes[s][v][outputs] \subseteq {"failed"}
<1> DEFINE D == DOMAIN Cases[s]
           H == HopelessCases(s, v)
           I == Passing(Cases[s], Rules[v], RuntimeDefault(TypeOf[AssetOf[v]]), outputs)
           total == Weight(Cases[s], D)
           lost == Weight(Cases[s], H)
           part == Weight(Cases[s], I)
<1>1. I \in SUBSET D /\ H \in SUBSET D /\ I \in SUBSET (D \ H)
  BY DEF Passing, HopelessCases, CasePasses
<1>2. 200 * (total - lost) < (2 * Threshold[s] - 1) * total
  BY DEF OutOfReach
<1>3. Weighted(Cases[s]) /\ Threshold[s] \in 0..100
  BY SuiteAssumption DEF Weighted
<1>4. /\ total \in Nat /\ lost \in Nat /\ part \in Nat /\ part <= total - lost
  <2>1. D \in SUBSET D /\ D \ H \in SUBSET D
    OBVIOUS
  <2> HIDE DEF D, H, I
  <2>2. /\ total \in Nat /\ lost \in Nat /\ Weight(Cases[s], D \ H) = total - lost
    BY <1>1, <1>3, <2>1, WeightOrder DEF D
  <2>3. part \in Nat /\ part <= Weight(Cases[s], D \ H)
    BY <1>1, <1>3, <2>1, WeightOrder DEF D
  <2>4. QED
    BY <2>2, <2>3
<1>5. total # 0
  <2> HIDE DEF total, lost, part
  <2>1. total = 0 => (2 * Threshold[s] - 1) * total = 0
    BY <1>3
  <2>2. QED
    BY <1>2, <1>4, <2>1
<1>6. ASSUME NEW n \in Scores(Cases[s], I)
      PROVE  ~(n >= Threshold[s])
  <2>1. n \in Nat /\ 2 * n * total <= 200 * part + total
    BY <1>5 DEF Scores, Percents
  <2> HIDE DEF total, lost, part, D, H, I
  <2>2. SUFFICES ASSUME n >= Threshold[s]
                 PROVE  FALSE
    OBVIOUS
  <2>3. n * total >= Threshold[s] * total
    <3>1. \A a, b, c \in Nat : a >= b => a * c >= b * c
      OBVIOUS
    <3>2. Threshold[s] \in Nat
      BY <1>3
    <3>3. QED
      BY <1>4, <2>1, <2>2, <3>1, <3>2
  <2>4. /\ (2 * Threshold[s] - 1) * total = 2 * (Threshold[s] * total) - total
        /\ 2 * n * total = 2 * (n * total)
        /\ n * total \in Nat /\ Threshold[s] * total \in Nat
    BY <1>3, <1>4, <2>1
  <2>5. QED
    BY <1>2, <1>4, <2>1, <2>3, <2>4
<1>7. Outcomes[s][v][outputs] = {IF n >= Threshold[s] THEN "passed" ELSE "failed" :
                                   n \in Scores(Cases[s], I)}
  BY OutcomeType DEF RunStatuses
<1> HIDE DEF I
<1>8. QED
  BY <1>6, <1>7

\* No run on record has passed where the guardrails put the threshold out of reach.
HopelessRunsFailed ==
  \A s \in Suites, v \in Versions : <<s, v>> \in OutOfReach => lastRun[s][v] # "passed"

\* The handlers of versions, changes and reviews touch no run.
LEMMA RunsStay == VersionStep \/ ChangeStep \/ ReviewStep => lastRun' = lastRun
<1>1. VersionStep => lastRun' = lastRun
  BY DEF VersionStep, CreateVersion, ActivateVersion
<1>2. ASSUME NEW c, NEW new, NEW u, CreateChange(c, new, u)
      PROVE  lastRun' = lastRun
  BY <1>2 DEF CreateChange
<1>3. ASSUME NEW c, NEW a, NEW aiLabel, NEW approvals, NEW u,
             UpsertGitLabChange(c, a, aiLabel, approvals, u)
      PROVE  lastRun' = lastRun
  BY <1>3 DEF UpsertGitLabChange
<1>4. ReviewStep => lastRun' = lastRun
  BY DEF ReviewStep, CreateReview, DecideReview, CreateBlockingComment, ListReviews, DatadogAlert
<1>5. QED
  BY <1>1, <1>2, <1>3, <1>4 DEF ChangeStep

LEMMA HopelessStep == TypeOK /\ HopelessRunsFailed /\ [Next]_vars => HopelessRunsFailed'
<1> SUFFICES ASSUME TypeOK, HopelessRunsFailed, [Next]_vars
             PROVE  HopelessRunsFailed'
  OBVIOUS
<1>1. CASE UNCHANGED lastRun
  BY <1>1 DEF HopelessRunsFailed
<1>2. ASSUME NEW s \in Suites, NEW v \in Versions, NEW outputs \in Outputs[s],
             RunEvaluation(s, v, outputs)
      PROVE  HopelessRunsFailed'
  <2>1. PICK outcome \in Outcomes[s][v][outputs] :
          lastRun' = [lastRun EXCEPT ![s][v] = outcome]
    BY <1>2 DEF RunEvaluation
  <2>2. ASSUME NEW t \in Suites, NEW w \in Versions, <<t, w>> \in OutOfReach
        PROVE  lastRun'[t][w] # "passed"
    <3>1. CASE t = s /\ w = v
      <4>1. outcome = "failed"
        BY <2>1, <2>2, <3>1, HopelessRunFails
      <4>2. lastRun'[t][w] = outcome
        BY <2>1, <3>1 DEF TypeOK
      <4>3. QED
        BY <4>1, <4>2
    <3>2. CASE ~(t = s /\ w = v)
      <4>1. lastRun'[t][w] = lastRun[t][w]
        BY <2>1, <3>2 DEF TypeOK
      <4>2. QED
        BY <2>2, <4>1 DEF HopelessRunsFailed
    <3>3. QED
      BY <3>1, <3>2
  <2>3. QED
    BY <2>2 DEF HopelessRunsFailed
<1>3. CASE GateStep
  BY <1>1, <1>2, <1>3 DEF GateStep, CreateSuite, CheckGate
<1>4. QED
  BY <1>1, <1>3, RunsStay DEF Next, vars

LEMMA HopelessBlocked ==
  PassMeansEvaluated /\ HopelessRunsFailed /\ TypeOK => BlockedCallsNeverShip
<1> SUFFICES ASSUME PassMeansEvaluated, HopelessRunsFailed, TypeOK,
                    NEW c \in Registered, NEW s \in Suites, Applies(s, c),
                    <<s, change[c].version>> \in OutOfReach
             PROVE  "pass" \notin GateVerdicts(c)
  BY DEF BlockedCallsNeverShip
<1>1. change[c].version \in Versions
  BY DEF OutOfReach
<1>2. lastRun[s][change[c].version] # "passed"
  BY <1>1 DEF HopelessRunsFailed
<1>3. QED
  BY <1>2 DEF PassMeansEvaluated

\* A version whose guardrails refuse the calls of a suite that applies to it, up to
\* more weight than the threshold leaves, passes no gate, for any suites, weights,
\* thresholds, rules and outputs.
THEOREM RefusedCallsNeverShip == Spec => []BlockedCallsNeverShip
<1>1. Init => HopelessRunsFailed
  BY DEF Init, HopelessRunsFailed
<1>2. Spec => []HopelessRunsFailed
  BY <1>1, HopelessStep, TypeCorrect, PTL DEF Spec
<1>3. QED
  BY <1>2, HopelessBlocked, GatePassesOnlyEvaluated, TypeCorrect, PTL

-------------------------------------------------------------------------------
(* Approvals, and what the runtime is served.                               *)

\* A decision whose tally is "approved" leaves its request cleared.
LEMMA DecisionClears ==
  ASSUME TypeOK, NoSelfApproval', RequestsKept,
         NEW r \in Reviews, NEW u \in Deciders, NEW d \in Decisions, DecideReview(r, u, d),
         Tally(r, [decision[r] EXCEPT ![u] = d]) = "approved"
  PROVE  Cleared(r)'
<1> DEFINE votes == [decision[r] EXCEPT ![u] = d]
<1>1. /\ blocking' = blocking /\ decision'[r] = votes
      /\ review[r] \in ReviewRow
      /\ review' = [review EXCEPT ![r] = [review[r] EXCEPT !.status = Tally(r, votes)]]
  BY DEF DecideReview, TypeOK
<1>2. review'[r].approvals = review[r].approvals
  BY <1>1 DEF TypeOK, ReviewRow
<1>3. r \in Requests'
  BY <1>1, NullIsNoRow DEF RequestsKept, Requests
<1>4. IndependentApprovers(r)' = Approvers(votes)
  BY <1>1, <1>3 DEF NoSelfApproval, IndependentApprovers, Approvers
<1>5. /\ r \notin blocking
      /\ ~ \E w \in Users : votes[w] \in Negative
      /\ Cardinality(Approvers(votes)) >= review[r].approvals
  BY DEF Tally
<1> HIDE DEF votes
<1>6. QED
  BY <1>1, <1>2, <1>4, <1>5 DEF Cleared

LEMMA BackedStep ==
  ASSUME TypeOK, NoSelfApproval', [Next]_vars
  PROVE  /\ \A c \in Registered :
              change[c].status # "approved" /\ change'[c].status = "approved"
                => \E r \in Reviews : review[r] # Null /\ review'[r].change = c /\ Cleared(r)'
         /\ \A v \in Versions :
              status[v] # "approved" /\ status'[v] = "approved"
                => \E r \in Reviews : review[r] # Null /\ review'[r].version = v /\ Cleared(r)'
<1>1. RequestsKept
  BY Frame
<1>2. ASSUME NEW r \in Reviews, NEW u \in Deciders, NEW d \in Decisions, DecideReview(r, u, d)
      PROVE  /\ \A c \in Registered :
                  change[c].status # "approved" /\ change'[c].status = "approved"
                    => review[r] # Null /\ review'[r].change = c /\ Cleared(r)'
             /\ \A v \in Versions :
                  status[v] # "approved" /\ status'[v] = "approved"
                    => review[r] # Null /\ review'[r].version = v /\ Cleared(r)'
  <2> DEFINE outcome == Tally(r, [decision[r] EXCEPT ![u] = d])
  <2>1. /\ review[r] # Null /\ review[r] \in ReviewRow
        /\ review' = [review EXCEPT ![r] = [review[r] EXCEPT !.status = outcome]]
        /\ \A c \in Registered :
             change'[c] = IF c = review[r].change
                            THEN [change[c] EXCEPT !.status = ChangeStatus(outcome)]
                            ELSE change[c]
        /\ \A v \in Versions : status'[v] = IF v = review[r].version THEN outcome ELSE status[v]
    BY <1>2 DEF DecideReview, TypeOK, Registered
  <2>2. outcome = "approved" => Cleared(r)'
    BY <1>1, <1>2, DecisionClears
  <2> HIDE DEF outcome
  <2>3. review'[r].change = review[r].change /\ review'[r].version = review[r].version
    BY <2>1 DEF TypeOK, ReviewRow
  <2>4. ASSUME NEW c \in Registered, change[c].status # "approved",
               change'[c].status = "approved"
        PROVE  c = review[r].change /\ outcome = "approved"
    <3>1. c = review[r].change
      BY <2>1, <2>4
    <3>2. c \in Changes /\ change[c] \in ChangeRow
      BY DEF TypeOK, Registered
    <3>3. change'[c] = [change[c] EXCEPT !.status = ChangeStatus(outcome)]
      BY <2>1, <3>1, <3>2
    <3>4. change'[c].status = ChangeStatus(outcome)
      BY <3>2, <3>3 DEF ChangeRow
    <3>5. QED
      BY <2>4, <3>1, <3>4 DEF ChangeStatus
  <2>5. QED
    BY <2>1, <2>2, <2>3, <2>4
<1>3. ASSUME NEW c \in Registered, change[c].status # "approved", change'[c].status = "approved"
      PROVE  \E r \in Reviews, u \in Deciders, d \in Decisions : DecideReview(r, u, d)
  <2>1. /\ c \in Changes /\ change[c] # Null /\ change[c] \in ChangeRow
        /\ change'[c] # change[c]
    BY <1>3 DEF Registered, TypeOK
  <2>2. ASSUME NEW e \in Changes, NEW row \in Payloads, NEW actor \in Users,
               CreateChange(e, row, actor)
        PROVE  FALSE
    BY <2>1, <2>2 DEF CreateChange, TypeOK
  <2>3. ASSUME NEW e \in Changes, NEW a \in Assets \cup {Null}, NEW ai \in BOOLEAN,
               NEW n \in {1, 2}, NEW author \in Users \cup {GitLab},
               UpsertGitLabChange(e, a, ai, n, author)
        PROVE  FALSE
    <3>1. \E x, y, z : change' = [change EXCEPT ![e] =
            IF change[e] = Null THEN z
            ELSE [change[e] EXCEPT !.asset = IF a # Null THEN a ELSE @, !.risk = x,
                                   !.required = y]]
      BY <2>3 DEF UpsertGitLabChange
    <3>2. PICK x, y, z : change' = [change EXCEPT ![e] =
            IF change[e] = Null THEN z
            ELSE [change[e] EXCEPT !.asset = IF a # Null THEN a ELSE @, !.risk = x,
                                   !.required = y]]
      BY <3>1
    <3>3. c = e
      BY <2>1, <3>2 DEF TypeOK
    <3>4. change'[c] = [change[c] EXCEPT !.asset = IF a # Null THEN a ELSE @, !.risk = x,
                                         !.required = y]
      BY <2>1, <3>2, <3>3 DEF TypeOK
    <3>5. change'[c].status = change[c].status
      BY <2>1, <3>4 DEF ChangeRow
    <3>6. QED
      BY <1>3, <3>5
  <2>4. ASSUME NEW e \in Changes \cup {Null}, NEW v \in Versions \cup {Null},
               NEW n \in 1..MaxRequired, NEW author \in Users, CreateReview(e, v, n, author)
        PROVE  FALSE
    <3>1. change'[c] = IF c = e THEN [change[c] EXCEPT !.required = TRUE, !.status = "pending"]
                                ELSE change[c]
      BY <2>1, <2>4 DEF CreateReview
    <3>2. [change[c] EXCEPT !.required = TRUE, !.status = "pending"].status = "pending"
      BY <2>1 DEF ChangeRow
    <3>3. QED
      BY <1>3, <2>1, <3>1, <3>2
  <2>5. QED
    BY <2>1, <2>2, <2>3, <2>4 DEF Next, VersionStep, ChangeStep, ReviewStep, GateStep, vars,
       CreateVersion, ActivateVersion, CreateBlockingComment, ListReviews, DatadogAlert,
       CreateSuite, RunEvaluation, CheckGate
<1>4. ASSUME NEW v \in Versions, status[v] # "approved", status'[v] = "approved"
      PROVE  \E r \in Reviews, u \in Deciders, d \in Decisions : DecideReview(r, u, d)
  <2>1. ~VersionStep
    BY <1>4 DEF VersionStep, CreateVersion, ActivateVersion, Promoted, TypeOK
  <2>2. ~ \E c \in Changes \cup {Null}, w \in Versions \cup {Null},
             n \in 1..MaxRequired, author \in Users : CreateReview(c, w, n, author)
    BY <1>4 DEF CreateReview
  <2>3. QED
    BY <1>4, <2>1, <2>2, OnlyStatusWriters
<1>5. QED
  BY <1>2, <1>3, <1>4

\* Nothing becomes approved but by a decision that leaves its request cleared
\* (decide_review).
THEOREM ApprovalsAreBacked == Spec => ApprovalIsBacked
<1> DEFINE Backed ==
      /\ \A c \in Registered :
           change[c].status # "approved" /\ change'[c].status = "approved"
             => \E r \in Reviews : review[r] # Null /\ review'[r].change = c /\ Cleared(r)'
      /\ \A v \in Versions :
           status[v] # "approved" /\ status'[v] = "approved"
             => \E r \in Reviews : review[r] # Null /\ review'[r].version = v /\ Cleared(r)'
<1>1. TypeOK /\ NoSelfApproval' /\ [Next]_vars => [Backed]_vars
  BY BackedStep
<1>2. QED
  BY <1>1, TypeCorrect, NobodyApprovesAlone, PTL DEF Spec, ApprovalIsBacked

\* What asset a is served under the statuses st.
ServedBy(st, a) ==
  IF \E v \in Versions : AssetOf[v] = a /\ st[v] = "active"
    THEN CHOOSE v \in Versions : AssetOf[v] = a /\ st[v] = "active"
    ELSE Null

OneActiveIn(st) ==
  \A v, w \in Versions :
    AssetOf[v] = AssetOf[w] /\ st[v] = "active" /\ st[w] = "active" => v = w

LEMMA ServedByActive ==
  ASSUME NEW st, OneActiveIn(st), NEW a \in Assets
  PROVE  /\ ServedBy(st, a) \in Versions \cup {Null}
         /\ \A v \in Versions : ServedBy(st, a) = v <=> AssetOf[v] = a /\ st[v] = "active"
<1>1. CASE \E v \in Versions : AssetOf[v] = a /\ st[v] = "active"
  <2> DEFINE w == CHOOSE v \in Versions : AssetOf[v] = a /\ st[v] = "active"
  <2>1. w \in Versions /\ AssetOf[w] = a /\ st[w] = "active"
    BY <1>1
  <2>2. ServedBy(st, a) = w
    BY <1>1 DEF ServedBy
  <2> HIDE DEF w
  <2>3. QED
    BY <2>1, <2>2 DEF OneActiveIn
<1>2. CASE ~ \E v \in Versions : AssetOf[v] = a /\ st[v] = "active"
  BY <1>2, GovernanceAssumption DEF ServedBy
<1>3. QED
  BY <1>1, <1>2

\* Statuses with the same active versions of an asset serve it alike.
LEMMA ServedBySame ==
  ASSUME NEW st, NEW next, OneActiveIn(st), OneActiveIn(next), NEW a \in Assets,
         \A v \in Versions : AssetOf[v] = a => (st[v] = "active" <=> next[v] = "active")
  PROVE  ServedBy(next, a) = ServedBy(st, a)
<1>1. \A v \in Versions : ServedBy(next, a) = v <=> ServedBy(st, a) = v
  BY ServedByActive
<1>2. ServedBy(next, a) \in Versions \cup {Null} /\ ServedBy(st, a) \in Versions \cup {Null}
  BY ServedByActive
<1>3. QED
  BY <1>1, <1>2

serving == [a \in Assets |-> Served(a)]
replaced == {v \in Versions : status[v] = "deprecated"}

LEMMA ServedTables ==
  ASSUME AtMostOneActive, AtMostOneActive'
  PROVE  /\ OneActiveIn(status) /\ OneActiveIn(status')
         /\ serving = [a \in Assets |-> ServedBy(status, a)]
         /\ serving' = [a \in Assets |-> ServedBy(status', a)]
         /\ replaced' = {v \in Versions : status'[v] = "deprecated"}
  BY DEF AtMostOneActive, OneActiveIn, serving, replaced, Served, ServedBy

\* Making v active is a switch of its asset, and of no other.
LEMMA PromotionSwitches ==
  ASSUME TypeOK, AtMostOneActive, AtMostOneActive', NEW v \in Versions, status' = Promoted(v)
  PROVE  Registry!Switch(v)
<1> DEFINE a == AssetOf[v]
<1>1. a \in Assets /\ status \in [Versions -> VersionStatuses] /\ Null \notin Versions
  BY GovernanceAssumption DEF TypeOK
<1>2. /\ status'[v] = "active"
      /\ \A w \in Versions : AssetOf[w] # a => status'[w] = status[w]
      /\ \A w \in Versions \ {v} :
           AssetOf[w] = a => status'[w] = IF status[w] = "active" THEN "deprecated" ELSE status[w]
  BY DEF Promoted
<1>3. ServedBy(status', a) = v
  BY <1>1, <1>2, ServedTables, ServedByActive
<1>4. \A b \in Assets \ {a} : ServedBy(status', b) = ServedBy(status, b)
  BY <1>2, ServedTables, ServedBySame
<1>5. serving' = [serving EXCEPT ![a] = v]
  BY <1>1, <1>3, <1>4, ServedTables
<1>6. serving[a] \in Versions \cup {Null}
      /\ \A w \in Versions : serving[a] = w <=> AssetOf[w] = a /\ status[w] = "active"
  BY <1>1, ServedTables, ServedByActive
<1>7. replaced' = (replaced \cup ({serving[a]} \ {Null})) \ {v}
  BY <1>1, <1>2, <1>6, ServedTables DEF replaced
<1>8. QED
  BY <1>5, <1>7 DEF Registry!Switch, serving, replaced

\* Giving v a status that is not served takes it off, if it was served.
LEMMA ReviewTakesOff ==
  ASSUME TypeOK, AtMostOneActive, AtMostOneActive', NEW v \in Versions,
         status'[v] \notin {"active", "deprecated"},
         \A w \in Versions \ {v} : status'[w] = status[w]
  PROVE  Registry!Review(v)
<1> DEFINE a == AssetOf[v]
<1>1. a \in Assets /\ Null \notin Versions
  BY GovernanceAssumption
<1>2. \A b \in Assets \ {a} : ServedBy(status', b) = ServedBy(status, b)
  BY ServedTables, ServedBySame
<1>3. ServedBy(status', a) = IF ServedBy(status, a) = v THEN Null ELSE ServedBy(status, a)
  <2>1. CASE ServedBy(status, a) = v
    <3>1. \A w \in Versions : ServedBy(status', a) # w
      BY <1>1, <2>1, ServedTables, ServedByActive
    <3>2. QED
      BY <1>1, <2>1, <3>1, ServedTables, ServedByActive
  <2>2. CASE ServedBy(status, a) # v
    <3>1. status[v] # "active"
      BY <1>1, <2>2, ServedTables, ServedByActive
    <3>2. QED
      BY <1>1, <2>2, <3>1, ServedTables, ServedBySame
  <2>3. QED
    BY <2>1, <2>2
<1>4. serving' = [serving EXCEPT ![a] = IF @ = v THEN Null ELSE @]
  BY <1>1, <1>2, <1>3, ServedTables
<1>5. replaced' = replaced \ {v}
  BY ServedTables DEF replaced
<1>6. QED
  BY <1>4, <1>5 DEF Registry!Review, serving, replaced

LEMMA RegistryStep ==
  ASSUME TypeOK, AtMostOneActive, AtMostOneActive', [Next]_vars
  PROVE  Registry!Next \/ UNCHANGED <<serving, replaced>>
<1>1. ASSUME NEW v \in Versions, NEW b \in BOOLEAN, CreateVersion(v, b)
      PROVE  Registry!Next
  <2>1. CASE status' = Promoted(v)
    BY <2>1, PromotionSwitches DEF Registry!Next
  <2>2. CASE status' = [status EXCEPT ![v] = "draft"]
    <3>1. /\ status'[v] \notin {"active", "deprecated"}
          /\ \A w \in Versions \ {v} : status'[w] = status[w]
      BY <2>2 DEF TypeOK
    <3>2. QED
      BY <3>1, ReviewTakesOff DEF Registry!Next
  <2>3. QED
    BY <1>1, <2>1, <2>2 DEF CreateVersion
<1>2. ASSUME NEW v \in Versions, ActivateVersion(v)
      PROVE  Registry!Next
  BY <1>2, PromotionSwitches DEF ActivateVersion, Registry!Next
<1>3. ASSUME NEW v \in Versions \cup {Null}, NEW outcome \in RequestStatuses,
             status' = [w \in Versions |-> IF w = v THEN outcome ELSE status[w]]
      PROVE  Registry!Next \/ status' = status
  <2>1. CASE v \in Versions
    <3>1. /\ status'[v] \notin {"active", "deprecated"}
          /\ \A w \in Versions \ {v} : status'[w] = status[w]
      BY <1>3, <2>1 DEF RequestStatuses
    <3>2. QED
      BY <2>1, <3>1, ReviewTakesOff DEF Registry!Next
  <2>2. CASE v = Null
    BY <1>3, <2>2, GovernanceAssumption DEF TypeOK
  <2>3. QED
    BY <2>1, <2>2
<1>4. ASSUME NEW c \in Changes \cup {Null}, NEW v \in Versions \cup {Null},
             NEW n \in 1..MaxRequired, NEW author \in Users, CreateReview(c, v, n, author)
      PROVE  Registry!Next \/ status' = status
  BY <1>3, <1>4 DEF CreateReview, RequestStatuses
<1>5. ASSUME NEW r \in Reviews, NEW u \in Deciders, NEW d \in Decisions, DecideReview(r, u, d)
      PROVE  Registry!Next \/ status' = status
  <2>1. review[r].version \in Versions \cup {Null}
    BY <1>5 DEF DecideReview, TypeOK, ReviewRow
  <2>2. PICK outcome \in RequestStatuses :
          status' = [w \in Versions |-> IF w = review[r].version THEN outcome ELSE status[w]]
    BY <1>5, TallyType DEF DecideReview
  <2>3. QED
    BY <1>3, <2>1, <2>2
<1>6. status' = status => UNCHANGED <<serving, replaced>>
  BY DEF serving, replaced, Served
<1>7. QED
  BY <1>1, <1>2, <1>4, <1>5, <1>6, OnlyStatusWriters DEF VersionStep

\* What the runtime is served changes as VersionRegistry allows: one version of
\* an asset at a time, replaced in one step or taken off by a review
\* (create_asset_version, activate_version, create_review, decide_review).
THEOREM HandlersKeepRegistry == Spec => ImplementsRegistry
<1>1. Init => Registry!Init
  <2>1. SUFFICES ASSUME Init
                 PROVE  Registry!Init
    OBVIOUS
  <2>2. \A v \in Versions : status[v] = "absent"
    BY <2>1 DEF Init
  <2>3. \A a \in Assets : Served(a) = Null
    BY <2>2 DEF Served
  <2>4. QED
    BY <2>2, <2>3 DEF Registry!Init
<1>2. TypeOK /\ AtMostOneActive /\ AtMostOneActive' /\ [Next]_vars
        => [Registry!Next]_<<[a \in Assets |-> Served(a)],
                             {v \in Versions : status[v] = "deprecated"}>>
  BY RegistryStep DEF serving, replaced
<1>3. QED
  BY <1>1, <1>2, TypeCorrect, OneActive, PTL DEF Spec, ImplementsRegistry, Registry!Spec
=============================================================================
