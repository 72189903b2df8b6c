------------------------------ MODULE Governance ------------------------------
(***************************************************************************)
(* Versions, change requests, review requests and the CI gate of one       *)
(* tenant (main.py, sections 8, 10, 13, 15, 16, 19 and the collaboration   *)
(* endpoints), at the granularity of whole request handlers: every action  *)
(* is one committed transaction.  Requests answered with an error leave    *)
(* the tables alone and are not actions.  What happens when the statements *)
(* of two handlers interleave is the subject of VersionActivation.         *)
(*                                                                         *)
(* A query.first() without ORDER BY returns an arbitrary matching row.     *)
(***************************************************************************)
EXTENDS Evaluation, FiniteSets

CONSTANTS
  Users,        \* authenticated actors, and names a payload may give
  Deciders,     \* the users whose role lets them decide a review
  Assets,       \* assets, created beforehand
  TypeOf,       \* the asset type of each asset
  Versions,     \* ids of asset versions
  AssetOf,      \* the asset each version id belongs to
  Changes,      \* change requests (commit SHAs)
  Reviews,      \* ids of review requests; bounds how many can be created
  Rules,        \* the guardrails of each version; a version is never edited
  Suites,       \* evaluation suites
  Cases,        \* the cases of each suite; a suite is never edited
  Threshold,    \* the pass_threshold of each suite
  Outputs,      \* the mock_outputs clients send for each suite
  Sent,         \* review_status values clients send with a new change
  MaxRequired,  \* bound on required_approvals in a request
  Null          \* SQL NULL, and a row that does not exist

GitLab == "gitlab-webhook"   \* created_by of rows made by the GitLab webhook
Datadog == "datadog"         \* created_by of rows made by the Datadog webhook

Authors == Users \cup {GitLab, Datadog}

ASSUME GovernanceAssumption ==
  /\ Deciders \subseteq Users
  /\ IsFiniteSet(Users)
  /\ TypeOf \in [Assets -> AssetTypes]
  /\ AssetOf \in [Versions -> Assets]
  /\ Versions \cap Reviews = {}
  /\ Sent \subseteq ReviewStatuses
  /\ MaxRequired \in Nat /\ MaxRequired >= 2
  /\ Null \notin Assets \cup Versions \cup Changes \cup Reviews \cup Suites

VersionStatuses ==
  {"absent", "draft", "review_pending", "approved", "rejected", "active", "deprecated"}

Decisions == {"pending", "approved", "changes_requested", "rejected"}
Negative == {"changes_requested", "rejected"}

ChangeRow ==
  [asset : Assets \cup {Null}, version : Versions \cup {Null}, risk : RiskLevels,
   required : BOOLEAN, status : ReviewStatuses, created_by : Authors]

ReviewRow ==
  [change : Changes \cup {Null}, version : Versions \cup {Null},
   approvals : 1..MaxRequired, status : RequestStatuses, created_by : Authors]

\* The change rows a client may ask for.
Payloads == {row \in ChangeRow : row.status \in Sent /\ row.created_by \in Users}

SuiteRow == [asset : Assets \cup {Null}, block_on_fail : BOOLEAN]

\* What the request models admit as a suite: positive weights, a percentage.
ASSUME SuiteAssumption ==
  \A s \in Suites :
    /\ Threshold[s] \in 0..100
    /\ IsFiniteSet(DOMAIN Cases[s])
    /\ \A i \in DOMAIN Cases[s] : Cases[s][i].weight \in Nat \ {0}

ASSUME NullIsNoRow == Null \notin ChangeRow \cup ReviewRow \cup SuiteRow

VARIABLES
  status,    \* status of each version, "absent" before it is created
  change,    \* the change_requests table
  review,    \* the review_requests table
  decision,  \* the assignments of a review: no assignment reads as "pending"
  blocking,  \* reviews and versions with an open blocking comment
  suite,     \* the evaluation_suites table
  lastRun    \* outcome of the latest run of a suite on a version

vars == <<status, change, review, decision, blocking, suite, lastRun>>

TypeOK ==
  /\ status \in [Versions -> VersionStatuses]
  /\ change \in [Changes -> ChangeRow \cup {Null}]
  /\ review \in [Reviews -> ReviewRow \cup {Null}]
  /\ decision \in [Reviews -> [Users -> Decisions]]
  /\ blocking \subseteq Reviews \cup Versions
  /\ suite \in [Suites -> SuiteRow \cup {Null}]
  /\ lastRun \in [Suites -> [Versions -> {"none", "passed", "failed"}]]

Init ==
  /\ status = [v \in Versions |-> "absent"]
  /\ change = [c \in Changes |-> Null]
  /\ review = [r \in Reviews |-> Null]
  /\ decision = [r \in Reviews |-> [u \in Users |-> "pending"]]
  /\ blocking = {}
  /\ suite = [s \in Suites |-> Null]
  /\ lastRun = [s \in Suites |-> [v \in Versions |-> "none"]]

-------------------------------------------------------------------------------
(* Rows and queries.                                                        *)

Registered == {c \in Changes : change[c] # Null}
Requests == {r \in Reviews : review[r] # Null}

RequestsOfChange(c) == {r \in Requests : review[r].change = c}
RequestsOfVersion(v) == {r \in Requests : review[r].version = v}

Approvers(d) == {u \in Users : d[u] = "approved"}

\* Mutant: a rejection does not outweigh approvals.
TallyOfApprovals(r, d) ==
  IF r \notin blocking /\ Cardinality(Approvers(d)) >= review[r].approvals
    THEN "approved" ELSE "review_pending"

\* The status _update_review_status computes for r from its assignments d.
Tally(r, d) ==
  IF r \in blocking THEN "review_pending"
  ELSE IF \E u \in Users : d[u] \in Negative THEN "rejected"
  ELSE IF Cardinality(Approvers(d)) >= review[r].approvals THEN "approved"
  ELSE "review_pending"

\* The status column of the reviews in R, recomputed.
Recomputed(R) ==
  [r \in Reviews |->
     IF r \in R THEN [review[r] EXCEPT !.status = Tally(r, decision[r])]
                ELSE review[r]]

\* Mutant: a request is created without looking for the one there is.
AddReviewRequest(c, v, approvals, author) ==
  \E r \in Reviews \ Requests :
    review' = [review EXCEPT ![r] =
                 [change |-> c, version |-> v, approvals |-> approvals,
                  status |-> "review_pending", created_by |-> author]]

\* The request a handler needs: one already made for the change (for the
\* version, when there is no change) is kept as it is, else one is created.
EnsureReviewRequest(c, v, approvals, author) ==
  IF (IF c # Null THEN RequestsOfChange(c) ELSE RequestsOfVersion(v)) # {}
    THEN UNCHANGED review
    ELSE \E r \in Reviews \ Requests :
           review' = [review EXCEPT ![r] =
                        [change |-> c, version |-> v, approvals |-> approvals,
                         status |-> "review_pending", created_by |-> author]]

\* Mutants: the other versions are not demoted; those of all assets are.
PromotedBeside(v) == [status EXCEPT ![v] = "active"]
PromotedEverywhere(v) ==
  [w \in Versions |->
     IF w = v THEN "active" ELSE IF status[w] = "active" THEN "deprecated" ELSE status[w]]

\* The statuses once v is made the active version: the UPDATE that deprecates
\* the asset's active versions, then the new status of v.
Promoted(v) ==
  [w \in Versions |->
     IF w = v THEN "active"
     ELSE IF AssetOf[w] = AssetOf[v] /\ status[w] = "active" THEN "deprecated"
     ELSE status[w]]

-------------------------------------------------------------------------------
(* Versions.                                                                *)

CreateVersion(v, setActive) ==
  /\ status[v] = "absent"
  /\ status' = IF setActive THEN Promoted(v) ELSE [status EXCEPT ![v] = "draft"]
  /\ UNCHANGED <<change, review, decision, blocking, suite, lastRun>>

\* Only one of the review requests that name the version is consulted.
ActivateVersion(v) ==
  /\ status[v] # "absent"
  /\ v \notin blocking
  /\ \/ /\ RequestsOfVersion(v) = {}
        /\ UNCHANGED review
     \/ \E r \in RequestsOfVersion(v) :
          /\ Tally(r, decision[r]) = "approved"
          /\ review' = Recomputed({r})
  /\ status' = Promoted(v)
  /\ UNCHANGED <<change, decision, blocking, suite, lastRun>>

-------------------------------------------------------------------------------
(* Change requests.                                                         *)

\* The version of the payload, when there is one, determines the asset; the
\* payload also chooses risk, review_required and the initial review_status.
CreateChange(c, row, actor) ==
  /\ change[c] = Null
  /\ row.version # Null =>
       status[row.version] # "absent" /\ row.asset = AssetOf[row.version]
  /\ row.risk = "high" => row.asset # Null
  /\ change' = [change EXCEPT ![c] = row]
  /\ IF row.required THEN EnsureReviewRequest(c, row.version, 1, actor)
                     ELSE UNCHANGED review
  /\ UNCHANGED <<status, decision, blocking, suite, lastRun>>

\* A merge request imported or received by webhook: risk and the need for a
\* review come from the asset its paths match or from its labels, and
\* overwrite those of the change found for its SHA or merge request.
UpsertGitLabChange(c, a, aiLabel, approvals, author) ==
  LET risk == IF a # Null THEN Policy[TypeOf[a]].risk_level
              ELSE IF aiLabel THEN "high" ELSE "low"
      required == IF a # Null THEN Policy[TypeOf[a]].review_required ELSE aiLabel
      v == IF change[c] = Null THEN Null ELSE change[c].version
  IN /\ change' = [change EXCEPT ![c] =
          IF change[c] = Null
            THEN [asset |-> a, version |-> Null, risk |-> risk, required |-> required,
                  status |-> IF required THEN "pending" ELSE "skipped",
                  created_by |-> author]
            ELSE [change[c] EXCEPT !.asset = IF a # Null THEN a ELSE @,
                                   !.risk = risk, !.required = required]]
     /\ IF required THEN EnsureReviewRequest(c, v, approvals, author)
                    ELSE UNCHANGED review
     /\ UNCHANGED <<status, decision, blocking, suite, lastRun>>

-------------------------------------------------------------------------------
(* Reviews and comments.                                                    *)

\* The version goes back to review_pending whether or not the request that is
\* found or created names it.
CreateReview(c, v, approvals, author) ==
  /\ c # Null \/ v # Null
  /\ c # Null => change[c] # Null
  /\ v # Null => status[v] # "absent"
  /\ EnsureReviewRequest(c, v, approvals, author)
  /\ status' = [w \in Versions |-> IF w = v THEN "review_pending" ELSE status[w]]
  /\ change' = [d \in Changes |->
                  IF d = c THEN [change[d] EXCEPT !.required = TRUE, !.status = "pending"]
                           ELSE change[d]]
  /\ UNCHANGED <<decision, blocking, suite, lastRun>>

\* Mutant: only the author of the request is kept from approving it.
MayDecideUnlessRequester(r, u, d) == d = "approved" => u # review[r].created_by

\* Nobody approves a request they made, or one for a change they made.
MayDecide(r, u, d) ==
  d = "approved" =>
    /\ u # review[r].created_by
    /\ review[r].change # Null => u # change[review[r].change].created_by

\* Mutant: the status of the request is stored in the change as it is.
RawChangeStatus(outcome) == outcome

\* The review_status of a change whose request has the given status.
ChangeStatus(outcome) == IF outcome = "review_pending" THEN "pending" ELSE outcome

\* One decision: the assignment of u, then the status of the request, of the
\* change it is for and of the version it names.
DecideReview(r, u, d) ==
  LET votes == [decision[r] EXCEPT ![u] = d]
      outcome == Tally(r, votes)
  IN /\ review[r] # Null
     /\ MayDecide(r, u, d)
     /\ decision' = [decision EXCEPT ![r] = votes]
     /\ review' = [review EXCEPT ![r].status = outcome]
     /\ change' = [c \in Changes |->
          IF c = review[r].change /\ change[c] # Null
            THEN [change[c] EXCEPT !.status = ChangeStatus(outcome)]
            ELSE change[c]]
     /\ status' = [v \in Versions |-> IF v = review[r].version THEN outcome ELSE status[v]]
     /\ UNCHANGED <<blocking, suite, lastRun>>

\* A blocking comment; the parent row is not looked up, and no endpoint
\* resolves a comment.
CreateBlockingComment(parent) ==
  /\ blocking' = blocking \cup {parent}
  /\ UNCHANGED <<status, change, review, decision, suite, lastRun>>

\* Listing reviews recomputes and commits the status of the page it returns.
ListReviews(page) ==
  /\ review' = Recomputed(page)
  /\ UNCHANGED <<status, change, decision, blocking, suite, lastRun>>

\* An open Datadog alert that names version v, and maybe change c.
DatadogAlert(c, v) ==
  /\ status[v] # "absent"
  /\ c # Null => change[c] # Null
  /\ LET approvals == IF c # Null /\ change[c].risk = "high" THEN 2 ELSE 1
     IN EnsureReviewRequest(c, v, approvals, Datadog)
  /\ UNCHANGED <<status, change, decision, blocking, suite, lastRun>>

-------------------------------------------------------------------------------
(* Evaluations and the gate.                                                *)

CreateSuite(s, a, blockOnFail) ==
  /\ suite[s] = Null
  /\ suite' = [suite EXCEPT ![s] = [asset |-> a, block_on_fail |-> blockOnFail]]
  /\ UNCHANGED <<status, change, review, decision, blocking, lastRun>>

\* How a run of suite s on version v may end, for each outputs the client may send.
Outcomes ==
  [s \in Suites |-> [v \in Versions |-> [outputs \in Outputs[s] |->
     RunStatuses(Cases[s], Threshold[s], Rules[v], RuntimeDefault(TypeOf[AssetOf[v]]), outputs)]]]

RunEvaluation(s, v, outputs) ==
  /\ suite[s] # Null
  /\ status[v] # "absent"
  /\ \E outcome \in Outcomes[s][v][outputs] : lastRun' = [lastRun EXCEPT ![s][v] = outcome]
  /\ UNCHANGED <<status, change, review, decision, blocking, suite>>

\* Mutant: a suite that was never run does not count.
UnpassedRuns(c) ==
  {s \in Suites : /\ suite[s] # Null /\ change[c].version # Null
                  /\ suite[s].asset \in {change[c].asset, Null}
                  /\ lastRun[s][change[c].version] = "failed"}

\* The active suites that apply to c and have no passing latest run.
Unpassed(c) ==
  IF change[c].version = Null THEN {}
  ELSE {s \in Suites : /\ suite[s] # Null
                       /\ suite[s].asset \in {change[c].asset, Null}
                       /\ lastRun[s][change[c].version] # "passed"}

GateFacts(c, R) ==
  [linked |-> change[c].asset # Null \/ change[c].version # Null,
   guarded |-> /\ change[c].asset # Null
               /\ Policy[TypeOf[change[c].asset]].block_without_approval,
   risk |-> change[c].risk, required |-> change[c].required, status |-> change[c].status,
   blockers |-> \E s \in Unpassed(c) : suite[s].block_on_fail,
   warners |-> \E s \in Unpassed(c) : ~suite[s].block_on_fail,
   requests |-> {Tally(r, decision[r]) : r \in R}]

\* The verdicts a check of change c may answer now.
GateVerdicts(c) ==
  IF RequestsOfChange(c) = {} THEN {GateVerdict(GateFacts(c, {}))}
  ELSE {GateVerdict(GateFacts(c, {r})) : r \in RequestsOfChange(c)}

\* The check itself commits the recomputed status of the request it found.
CheckGate(c) ==
  /\ change[c] # Null
  /\ \E r \in RequestsOfChange(c) : review' = Recomputed({r})
  /\ UNCHANGED <<status, change, decision, blocking, suite, lastRun>>

-------------------------------------------------------------------------------

VersionStep ==
  \/ \E v \in Versions, setActive \in BOOLEAN : CreateVersion(v, setActive)
  \/ \E v \in Versions : ActivateVersion(v)

ChangeStep ==
  \/ \E c \in Changes, row \in Payloads, actor \in Users : CreateChange(c, row, actor)
  \/ \E c \in Changes, a \in Assets \cup {Null}, aiLabel \in BOOLEAN,
        approvals \in {1, 2}, author \in Users \cup {GitLab} :
       UpsertGitLabChange(c, a, aiLabel, approvals, author)

ReviewStep ==
  \/ \E c \in Changes \cup {Null}, v \in Versions \cup {Null},
        approvals \in 1..MaxRequired, author \in Users :
       CreateReview(c, v, approvals, author)
  \/ \E r \in Reviews, u \in Deciders, d \in Decisions : DecideReview(r, u, d)
  \/ \E parent \in Reviews \cup Versions : CreateBlockingComment(parent)
  \/ \E page \in SUBSET Requests : ListReviews(page)
  \/ \E c \in Changes \cup {Null}, v \in Versions : DatadogAlert(c, v)

GateStep ==
  \/ \E s \in Suites, a \in Assets \cup {Null}, b \in BOOLEAN : CreateSuite(s, a, b)
  \/ \E s \in Suites, v \in Versions : \E outputs \in Outputs[s] :
       RunEvaluation(s, v, outputs)
  \/ \E c \in Changes : CheckGate(c)

Next == VersionStep \/ ChangeStep \/ ReviewStep \/ GateStep

Spec == Init /\ [][Next]_vars
=============================================================================
