-------------------------------- MODULE Gate --------------------------------
(***************************************************************************)
(* The risk policy of asset types and the verdict of one CI gate check     *)
(* (main.py, ASSET_TYPE_GATE_POLICIES and ci_gate_check), as operators of  *)
(* the facts the handler reads from the database.                          *)
(***************************************************************************)
EXTENDS Integers

AssetTypes ==
  {"prompt_templates", "context_packs", "tools", "guardrails",
   "agent_configurations", "workflows", "skills", "memory_templates",
   "knowledge_base_connectors", "evaluation_test_suites"}

RiskLevels == {"low", "medium", "high"}
ReviewStatuses == {"pending", "approved", "rejected", "skipped"}
RequestStatuses == {"review_pending", "approved", "rejected"}
Verdicts == {"pass", "warn", "block"}

MediumRiskTypes == {"context_packs", "skills", "memory_templates"}

\* The policy of each asset type; only guardrails carry block_without_approval.
Policy ==
  [t \in AssetTypes |->
     [risk_level |-> IF t \in MediumRiskTypes THEN "medium" ELSE "high",
      review_required |-> t \notin MediumRiskTypes,
      block_without_approval |-> t = "guardrails"]]

(***************************************************************************)
(* The facts of a check on a registered change:                            *)
(*   linked    - the change has an asset or a version;                     *)
(*   guarded   - its asset's type must not ship without approval;          *)
(*   risk, required, status - columns of the change;                       *)
(*   blockers, warners - some active suite that applies has no passing     *)
(*               latest run, with and without block_on_fail;               *)
(*   requests  - the status, once recomputed, of the review request found  *)
(*               for the change: a set of at most one member.              *)
(***************************************************************************)

\* Mutant: a high-risk change that claims to be approved needs no review.
BlockedUnlessApproved(f) ==
  \/ ~f.linked
  \/ f.risk = "high" /\ f.status # "approved"
  \/ f.guarded /\ f.status # "approved"
  \/ f.blockers

BlockedByRecord(f) ==
  \/ ~f.linked
  \/ f.risk = "high" /\ (~f.required \/ f.status # "approved")
  \/ f.guarded /\ f.status # "approved"
  \/ f.blockers

WarnedByRecord(f) ==
  \/ f.risk = "medium" /\ f.required /\ f.status # "approved"
  \/ f.warners

\* The verdict before the review request is looked at: a block is never
\* lowered there, a warning replaces only a pass.
RecordVerdict(f) ==
  IF BlockedByRecord(f) THEN "block"
  ELSE IF WarnedByRecord(f) THEN "warn"
  ELSE "pass"

\* Mutant: the review requests are not looked at.
GateVerdictOfRecord(f) == RecordVerdict(f)

\* An unapproved review request REPLACES the verdict, by the risk alone.
GateVerdict(f) ==
  IF \E s \in f.requests : s # "approved"
    THEN IF f.risk = "high" THEN "block" ELSE "warn"
    ELSE RecordVerdict(f)
=============================================================================
