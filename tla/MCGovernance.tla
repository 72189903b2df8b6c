---------------------------- MODULE MCGovernance ----------------------------
(***************************************************************************)
(* Small instances of Governance: one or two assets with their types and   *)
(* versions, a few users, and the properties checked on them.              *)
(***************************************************************************)
EXTENDS GovernanceProperties, TLC

CONSTANTS prompt, guard, v1, v2, v3, s1, s2

\* Both versions belong to the prompt template.
OneAsset == {prompt}
OneAssetType == prompt :> "prompt_templates"
OneAssetVersions == v1 :> prompt @@ v2 :> prompt

OneAssetVersion == v1 :> prompt

\* A prompt template and a guardrail with one version each.
TwoAssets == {prompt, guard}
TwoAssetTypes == prompt :> "prompt_templates" @@ guard :> "guardrails"
TwoAssetVersions == v1 :> prompt @@ v2 :> guard

\* Two versions of the one and one of the other.
ThreeVersions == v1 :> prompt @@ v2 :> prompt @@ v3 :> guard

\* Without suites nothing is evaluated.
NoRules == v1 :> {} @@ v2 :> {} @@ v3 :> {}
NoCases == [s \in {} |-> <<>>]
NoThreshold == [s \in {} |-> 0]
NoOutputs == [s \in {} |-> {}]

\* Two suites with a refund of 90 and an answer that must say "sorry".  The
\* guardrails of v1 block refunds above 50, so the answer alone decides: in s1 its
\* weight is 79.4 percent, which rounds to one short of the threshold, in s2 it is
\* 79.5, which may round to the threshold.
Refund == [tool |-> "refund", words |-> {"refund"}, amount |-> {90}]
Chat == [tool |-> "chat", words |-> {"hello"}, amount |-> {}]
SaysSorry == [type |-> "contains", on_input |-> FALSE, words |-> {"sorry"}, limit |-> 0,
              decision |-> "allow"]
RefundCases(weight) ==
  <<[call |-> Refund, latency |-> 0, weight |-> 41, assertions |-> {}],
    [call |-> Chat, latency |-> 0, weight |-> weight, assertions |-> {SaysSorry}]>>

TwoSuites == s1 :> RefundCases(158) @@ s2 :> RefundCases(159)
TwoThresholds == s1 :> 80 @@ s2 :> 80

\* A run without outputs, and one with a good answer.
TwoOutputs == [s \in Suites |-> {<<{}, {}>>, <<{}, {"sorry", "hello"}>>}]

AmountRules ==
  v1 :> {[type |-> "max_amount", tools |-> {}, high |-> TRUE, keywords |-> {},
          limit |-> {50}]}

\* Users differ only in what they did so far.
UserSymmetry == Permutations(Users)
=============================================================================
