---------------------------- MODULE MCIngester -----------------------------
(* A feed of three snapshots: a busy one, one that has lost exactly 80 per *)
(* cent of its features, with the second incident gone and the first in    *)
(* other content, and an empty one.  So a feed can move on while the       *)
(* second incident stays away, and collapse at the threshold and beyond.   *)
(* Two of the incidents are followed; the other features count only.       *)
EXTENDS IngesterProperties, TLC

CONSTANTS i1, i2, v1, v2, busy, collapsed, empty

MCPayload == {busy, collapsed, empty}
MCFeatureCount == (busy :> 10) @@ (collapsed :> 2) @@ (empty :> 0)
MCIncidents ==
  (busy :> (i1 :> v1 @@ i2 :> v1))
    @@ (collapsed :> (i1 :> v2 @@ i2 :> Absent))
    @@ (empty :> (i1 :> Absent @@ i2 :> Absent))
=============================================================================
