------------------------------ MODULE Evaluation ------------------------------
(***************************************************************************)
(* One run of an evaluation suite on a version (main.py,                   *)
(* _run_single_assertion and _execute_evaluation).  A case is a record     *)
(*   [call, latency, weight, assertions],                                  *)
(* an assertion [type, on_input, words, limit, decision].  The output of a *)
(* case is the set of words the client sent for it (mock_outputs), none in *)
(* a stub run.                                                             *)
(***************************************************************************)
EXTENDS Guardrails, FiniteSetsExt

\* What an assertion looks at: the output, or an input variable of the case.
Subject(a, case, output) == IF a.on_input THEN case.call.words ELSE output

\* A regex is the set of words it matches; one that does not compile matches
\* nothing.  An assertion of another type never holds.
AssertionHolds(a, case, output, decision) ==
  LET subject == Subject(a, case, output)
  IN \/ a.type = "contains" /\ a.words \subseteq subject
     \/ a.type = "not_contains" /\ ~(a.words \subseteq subject)
     \/ a.type = "equals" /\ subject = a.words
     \/ a.type = "regex" /\ a.words \cap subject # {}
     \/ a.type = "max_latency_ms" /\ case.latency <= a.limit
     \/ a.type = "guardrail_decision" /\ decision = a.decision

\* Mutant: a case without assertions passes.
CasePassesPlain(case, output, decision) ==
  \A a \in case.assertions : AssertionHolds(a, case, output, decision)

\* A case without assertions passes if the guardrails do not block its call; also
\* if their evaluation raised.
CasePasses(case, output, decision) ==
  IF case.assertions = {}
    THEN decision # "block"
    ELSE \A a \in case.assertions : AssertionHolds(a, case, output, decision)

Weight(cases, I) == MapThenSumSet(LAMBDA i : cases[i].weight, I)

\* What 100 * part / whole may be rounded to: the nearest integer.  A half is
\* rounded either way, because the quotient in floating point may be just off it.
Percents(part, whole) ==
  {n \in 0..100 : /\ 200 * part - whole <= 2 * n * whole
                  /\ 2 * n * whole <= 200 * part + whole}

Scores(cases, passing) ==
  LET total == Weight(cases, DOMAIN cases)
  IN IF total = 0 THEN {0} ELSE Percents(Weight(cases, passing), total)

Passing(cases, rules, default, outputs) ==
  {i \in DOMAIN cases : CasePasses(cases[i], outputs[i], Decision(rules, cases[i].call, default))}

\* The status of a run of the cases on a version with these rules.
RunStatuses(cases, threshold, rules, default, outputs) ==
  {IF score >= threshold THEN "passed" ELSE "failed" :
     score \in Scores(cases, Passing(cases, rules, default, outputs))}
=============================================================================
