----------------------------- MODULE MCFetchPlan -----------------------------
(***************************************************************************)
(* Files f and g; f is in the VP v, which is in the archive z, and f and g *)
(* are in the archive y as well.  A package lists v without a url.          *)
(***************************************************************************)
EXTENDS FetchPlan, TLC

CONSTANTS f, g, v, y, z
MCIds == {f, g, v, y, z}
MCContains == {<<f, v>>, <<v, z>>, <<f, y>>, <<g, y>>}
MCListed == {v, y, z}
MCRemote == {y, z}
MCSize == y :> 2 @@ z :> 1
MCManifests == {{f}, {f, g}, {g, v}}
=============================================================================
