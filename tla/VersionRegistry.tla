--------------------------- MODULE VersionRegistry ---------------------------
(***************************************************************************)
(* What the version registry promises the callers of get_active_asset:     *)
(* an asset serves at most one version; serving another replaces it in the *)
(* same step, so no reader finds the asset without one in between; only a  *)
(* review may take a version off without putting another in its place; and *)
(* one step concerns the versions of one asset.                            *)
(***************************************************************************)
CONSTANTS Assets, Versions, AssetOf, Nothing

VARIABLES
  serving,   \* the version each asset serves, or Nothing
  replaced   \* versions that gave way to another

TypeOK ==
  /\ serving \in [Assets -> Versions \cup {Nothing}]
  /\ replaced \subseteq Versions

Init ==
  /\ serving = [a \in Assets |-> Nothing]
  /\ replaced = {}

Switch(v) ==
  LET a == AssetOf[v]
  IN /\ serving' = [serving EXCEPT ![a] = v]
     /\ replaced' = (replaced \cup ({serving[a]} \ {Nothing})) \ {v}

\* A review request or a decision about v.
Review(v) ==
  LET a == AssetOf[v]
  IN /\ serving' = [serving EXCEPT ![a] = IF @ = v THEN Nothing ELSE @]
     /\ replaced' = replaced \ {v}

Next == \E v \in Versions : Switch(v) \/ Review(v)

Spec == Init /\ [][Next]_<<serving, replaced>>
=============================================================================
