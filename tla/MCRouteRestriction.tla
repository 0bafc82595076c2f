------------------------- MODULE MCRouteRestriction -------------------------
(***************************************************************************)
(* RouteRestriction for TLC: two zones, one of them with two objects, and  *)
(* an object the map does not hold.                                        *)
(***************************************************************************)
EXTENDS RouteRestriction

CONSTANTS grass1, grass2, pond, stray

MCObjects == {grass1, grass2, pond, stray}
MCHashes == 0 .. 2
MCZoneOf == [s \in MCObjects |->
               IF s \in {grass1, grass2} THEN 1 ELSE IF s = pond THEN 2 ELSE 0]
=============================================================================
