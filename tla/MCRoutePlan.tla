---------------------------- MODULE MCRoutePlan ----------------------------
\* Small instances of RoutePlan for TLC.
EXTENDS RoutePlan, TLC

CONSTANTS p1, p2, d1, d2

\* The vehicle is always near a street.
OnStreet == {p1, p2}
\* ... or the tracking loses the street.
OnAndOffRoad == {p1, OffRoad}
\* ... or no street is near the position reported.
OnStreetOrNeither == {p1, OffRoad, NoPos}

AllLinked == {}
\* Legs are told apart only by the pointers to them; readers are alike.
Symmetry == Permutations(LegIds) \cup Permutations(Readers)

\* What a leaked leg holds is never read again.
NoLeakedLegs ==
    LET unused == UnusedLegs
    IN  <<routeVars, graphVars, path2, link_path, gone \ unused, route_status,
          traffic, reader, callVars, [l \in LegIds |-> IF l \in unused THEN FreeLeg ELSE legs[l]]>>
=============================================================================
