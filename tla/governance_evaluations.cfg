SPECIFICATION Spec
CONSTANTS
  prompt = prompt
  guard = guard
  v1 = v1
  v2 = v2
  v3 = v3
  s1 = s1
  s2 = s2
  Users = {u1}
  Deciders = {}
  Rules <- AmountRules
  Cases <- TwoSuites
  Threshold <- TwoThresholds
  Outputs <- TwoOutputs
  Assets <- OneAsset
  TypeOf <- OneAssetType
  Versions = {v1}
  AssetOf <- OneAssetVersion
  Changes = {c1}
  Reviews = {r1}
  Suites = {s1, s2}
  Sent = {"approved"}
  MaxRequired = 2
  Null = Null
INVARIANTS PassMeansEvaluated BlockedCallsNeverShip
