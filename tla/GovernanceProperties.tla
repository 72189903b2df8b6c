------------------------- MODULE GovernanceProperties -------------------------
(***************************************************************************)
(* What Governance is checked for.                                         *)
(***************************************************************************)
EXTENDS Governance

\* User u made neither request r nor the change it is for.
Independent(r, u) ==
  /\ u # review[r].created_by
  /\ review[r].change # Null => u # change[review[r].change].created_by

IndependentApprovers(r) ==
  {u \in Users : decision[r][u] = "approved" /\ Independent(r, u)}

\* Nothing stands against request r and enough independent users approved it.
Cleared(r) ==
  /\ r \notin blocking
  /\ \A u \in Users : decision[r][u] \notin Negative
  /\ Cardinality(IndependentApprovers(r)) >= review[r].approvals

\* At most one version of an asset is active, whatever sequence of creations,
\* activations and review decisions the handlers ran (create_asset_version,
\* activate_version, decide_review).
AtMostOneActive ==
  \A v, w \in Versions :
    AssetOf[v] = AssetOf[w] /\ status[v] = "active" /\ status[w] = "active" => v = w

\* A change that must be reviewed has a review request, and exactly one, so
\* the first() by which the gate finds it leaves nothing out
\* (_ensure_review_request, ci_gate_check).
OneRequestPerReviewedChange ==
  /\ \A r, s \in Requests : review[r].change # Null /\ review[r].change = review[s].change => r = s
  /\ \A c \in Registered : change[c].required => RequestsOfChange(c) # {}

\* Nobody's approval counts for a request they made or for a change they made
\* (decide_review), also after imports and alerts rewrote the change.
NoSelfApproval ==
  \A r \in Requests, u \in Users :
    decision[r][u] = "approved" => u \in IndependentApprovers(r)

\* The gate passes a change only if every review request for it is cleared by
\* independent approvals, and a change that is high risk or must be reviewed
\* only if there is such a request (ci_gate_check).
PassMeansCleared ==
  \A c \in Registered :
    "pass" \in GateVerdicts(c) =>
      /\ \A r \in RequestsOfChange(c) : Cleared(r)
      /\ change[c].risk = "high" \/ change[c].required => RequestsOfChange(c) # {}

\* A high-risk change is blocked, never only warned about, while its review is
\* not cleared, an approval declared by the client notwithstanding
\* (ci_gate_check, create_change_request).
UnclearedHighRiskBlocked ==
  \A c \in Registered :
    change[c].risk = "high" /\ (\A r \in RequestsOfChange(c) : ~Cleared(r))
      => GateVerdicts(c) = {"block"}

\* Suite s is there to be run on the version of change c.
Applies(s, c) ==
  /\ suite[s] # Null /\ suite[s].asset \in {change[c].asset, Null}
  /\ change[c].version # Null

\* The gate passes a change of a version only when the latest run of every suite
\* that applies to it passed, and blocks a high-risk change, however its review
\* stands, while a suite with block_on_fail has not passed (ci_gate_check).
PassMeansEvaluated ==
  \A c \in Registered, s \in Suites :
    Applies(s, c) /\ lastRun[s][change[c].version] # "passed" =>
      /\ "pass" \notin GateVerdicts(c)
      /\ change[c].risk = "high" /\ suite[s].block_on_fail => GateVerdicts(c) = {"block"}

\* The cases of suite s that fail on version v whatever is sent as output: they
\* assert nothing, and the guardrails of v block their call.
HopelessCases(s, v) ==
  {i \in DOMAIN Cases[s] :
     /\ Cases[s][i].assertions = {}
     /\ Decision(Rules[v], Cases[s][i].call, RuntimeDefault(TypeOf[AssetOf[v]])) = "block"}

\* The suites and versions for which more than half a percent of the weight is
\* missing to the threshold.
OutOfReach ==
  {p \in Suites \X Versions :
     LET s == p[1]
         v == p[2]
         total == Weight(Cases[s], DOMAIN Cases[s])
         lost == Weight(Cases[s], HopelessCases(s, v))
     IN 200 * (total - lost) < (2 * Threshold[s] - 1) * total}

\* The gate never passes a change of a version whose guardrails block so many of
\* the calls of a suite that applies to it that the suite's threshold is out of
\* reach, whatever was run before (evaluate_runtime_guardrails,
\* _execute_evaluation, ci_gate_check).
BlockedCallsNeverShip ==
  \A c \in Registered, s \in Suites :
    Applies(s, c) /\ <<s, change[c].version>> \in OutOfReach => "pass" \notin GateVerdicts(c)

\* A registered change becomes approved, and a version becomes approved, only
\* when a request for it is cleared at that moment (decide_review).
ApprovalIsBacked ==
  [][/\ \A c \in Registered :
          change[c].status # "approved" /\ change'[c].status = "approved"
            => \E r \in Reviews : review[r] # Null /\ review'[r].change = c /\ Cleared(r)'
     /\ \A v \in Versions :
          status[v] # "approved" /\ status'[v] = "approved"
            => \E r \in Reviews : review[r] # Null /\ review'[r].version = v /\ Cleared(r)']_vars

-------------------------------------------------------------------------------
(* The registry the runtime reads.                                          *)

Served(a) ==
  IF \E v \in Versions : AssetOf[v] = a /\ status[v] = "active"
    THEN CHOOSE v \in Versions : AssetOf[v] = a /\ status[v] = "active"
    ELSE Null

Registry == INSTANCE VersionRegistry
              WITH serving <- [a \in Assets |-> Served(a)],
                   replaced <- {v \in Versions : status[v] = "deprecated"},
                   Nothing <- Null

\* The handlers keep the registry that get_active_asset reads: one version of an
\* asset at a time, replaced in the step in which another takes its place, or
\* taken off by a review, and no other asset concerned.
ImplementsRegistry == Registry!Spec

-------------------------------------------------------------------------------
(* What the code's own messages say of the same handlers.                   *)

\* main.py, policy of guardrails: a guardrail change must be approved before
\* deployment (block_without_approval), at any risk the change declares.
GuardrailsBlockedUntilApproved ==
  \A c \in Registered :
    GateFacts(c, {}).guarded /\ change[c].status # "approved"
      => GateVerdicts(c) = {"block"}
=============================================================================
