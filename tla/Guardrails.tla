------------------------------ MODULE Guardrails ------------------------------
(***************************************************************************)
(* The runtime guardrails of a version against one tool call (main.py,     *)
(* evaluate_runtime_guardrails).  The findings it lists, and with them the *)
(* order of the rules, are left out: _raise_decision keeps the strictest   *)
(* decision.  Texts are sets of words, a substring is one of them.         *)
(***************************************************************************)
EXTENDS Gate

\* "text" is a rule that is a string, "malformed" one that is no JSON object,
\* "faulty" one whose evaluation raises (keywords that are no list, say); a type
\* the engine does not know counts as "other".
RuleTypes ==
  {"text", "malformed", "faulty", "blocked_tool", "requires_approval", "allowed_tools",
   "deny_keyword", "max_amount", "other"}

RuntimeDecisions == {"allow", "review", "block"}

Rank == [allow |-> 0, review |-> 1, block |-> 2]

(***************************************************************************)
(* A rule: [type, tools, high, keywords, limit], and a call: [tool, words, *)
(* amount].  limit and amount are sets of at most one number: they may be  *)
(* missing, and an amount may be no number.                                *)
(***************************************************************************)

\* No tools listed means every tool.
MatchesTool(rule, call) == rule.tools = {} \/ call.tool \in rule.tools

\* A keyword found or an amount exceeded: how bad that is, the severity says.
Trips(rule, call) ==
  \/ rule.type = "deny_keyword" /\ rule.keywords \cap call.words # {}
  \/ rule.type = "max_amount" /\ \E limit \in rule.limit, x \in call.amount : x > limit

Blocks(rule, call) ==
  \/ rule.type = "blocked_tool" /\ MatchesTool(rule, call)
  \/ rule.type = "allowed_tools" /\ call.tool \notin rule.tools
  \/ Trips(rule, call) /\ rule.high

AsksReview(rule, call) ==
  \/ rule.type = "malformed"
  \/ rule.type = "requires_approval" /\ MatchesTool(rule, call)
  \/ Trips(rule, call) /\ ~rule.high

\* The decision on a call under a set of rules; without rules it is the
\* default of the asset type, and a rule that raises leaves none.
Decision(rules, call, default) ==
  IF rules = {} THEN default
  ELSE IF \E rule \in rules : rule.type = "faulty" THEN "error"
  ELSE IF \E rule \in rules : Blocks(rule, call) THEN "block"
  ELSE IF \E rule \in rules : AsksReview(rule, call) THEN "review"
  ELSE "allow"

\* What the policy of an asset type says of a version without guardrails.
RuntimeDefault(type) == IF type \in MediumRiskTypes THEN "allow" ELSE "review"
=============================================================================
