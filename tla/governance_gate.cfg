SPECIFICATION Spec
CONSTANTS
  prompt = prompt
  guard = guard
  v1 = v1
  v2 = v2
  v3 = v3
  s1 = s1
  s2 = s2
  Users = {u1}
  Deciders = {u1}
  Rules <- NoRules
  Cases <- NoCases
  Threshold <- NoThreshold
  Outputs <- NoOutputs
  Assets <- OneAsset
  TypeOf <- OneAssetType
  Versions = {v1}
  AssetOf <- OneAssetVersion
  Changes = {c1}
  Reviews = {r1, r2}
  Suites = {}
  Sent = {"pending", "approved"}
  MaxRequired = 2
  Null = Null
INVARIANTS TypeOK NoSelfApproval OneRequestPerReviewedChange PassMeansCleared UnclearedHighRiskBlocked
