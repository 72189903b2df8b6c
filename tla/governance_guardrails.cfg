SPECIFICATION Spec
CONSTANTS
  prompt = prompt
  guard = guard
  v1 = v1
  v2 = v2
  v3 = v3
  s1 = s1
  s2 = s2
  Users = {u1}
  Deciders = {u1}
  Rules <- NoRules
  Cases <- NoCases
  Threshold <- NoThreshold
  Outputs <- NoOutputs
  Assets <- TwoAssets
  TypeOf <- TwoAssetTypes
  Versions = {v1, v2}
  AssetOf <- TwoAssetVersions
  Changes = {c1}
  Reviews = {r1}
  Suites = {}
  Sent = {"pending"}
  MaxRequired = 2
  Null = Null
INVARIANTS GuardrailsBlockedUntilApproved
