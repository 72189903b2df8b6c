SPECIFICATION Spec
CONSTANTS
  prompt = prompt
  guard = guard
  v1 = v1
  v2 = v2
  v3 = v3
  s1 = s1
  s2 = s2
  Users = {u1, u2}
  Deciders = {u1, u2}
  Rules <- NoRules
  Cases <- NoCases
  Threshold <- NoThreshold
  Outputs <- NoOutputs
  Assets <- TwoAssets
  TypeOf <- TwoAssetTypes
  Versions = {v1, v2, v3}
  AssetOf <- ThreeVersions
  Changes = {}
  Reviews = {r1}
  Suites = {}
  Sent = {"pending"}
  MaxRequired = 2
  Null = Null
INVARIANTS AtMostOneActive
PROPERTIES ApprovalIsBacked ImplementsRegistry
SYMMETRY UserSymmetry
