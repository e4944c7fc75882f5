-------------------------- MODULE RoutePlanProofs --------------------------
(***************************************************************************)
(* Theorems about RoutePlan for every set of places, destinations, legs    *)
(* and readers and every environment: type correctness, and that the graph *)
(* is flooded towards the destination that the next leg ends at.           *)
(***************************************************************************)
EXTENDS RoutePlan, SequenceTheorems, TLAPS

Leg == [from : Origins \cup {NoPos}, to : Dests \cup {NoDst},
        traffic : Versions, in_use : Nat, update_required : 0..2,
        next : LegIds \cup {NoLeg, FreedLeg}]

-----------------------------------------------------------------------------
(* The operators keep their types. *)

\* Releasing legs, as route_path_destroy and the readers do, leaves legs.
LEMMA ReleaseType ==
    ASSUME NEW ls \in [LegIds -> Leg], NEW S
    PROVE  Release(ls, S) \in [LegIds -> Leg]
<1> DEFINE F == {l \in S \cap LegIds : ls[l].in_use <= 1}
           L(l) == IF l \in F THEN FreeLeg
                   ELSE [ls[l] EXCEPT
                           !.in_use = IF l \in S THEN @ - 1 ELSE @,
                           !.next = IF @ \in F THEN FreedLeg ELSE @]
<1>1. FreeLeg \in Leg
  BY ConstantsAssumption DEF FreeLeg, Leg, Versions
<1>2. ASSUME NEW l \in LegIds PROVE L(l) \in Leg
  <2>1. CASE l \in F
    BY <1>1, <2>1
  <2>2. CASE l \notin F
    <3>1. ls[l] \in Leg /\ ls[l].in_use \in Nat
      BY DEF Leg
    <3>2. l \in S => ls[l].in_use - 1 \in Nat
      BY <2>2, <3>1
    <3> DEFINE u == IF l \in S THEN ls[l].in_use - 1 ELSE ls[l].in_use
               x == IF ls[l].next \in F THEN FreedLeg ELSE ls[l].next
    <3>3. u \in Nat /\ x \in LegIds \cup {NoLeg, FreedLeg}
      BY <3>1, <3>2 DEF Leg
    <3>4. L(l) = [ls[l] EXCEPT !.in_use = u, !.next = x]
      BY <2>2, <3>1 DEF Leg
    <3> HIDE DEF u, x, L
    <3> QED
      BY <3>1, <3>3, <3>4 DEF Leg
  <2> QED
    BY <2>1, <2>2
<1>3. Release(ls, S) = [l \in LegIds |-> L(l)]
  BY DEF Release
<1> HIDE DEF L
<1> QED
  BY <1>2, <1>3

\* The last destination is one of the destinations (route_get_dst).
LEMMA LastOfList ==
    ASSUME NEW ds \in Seq(Dests)
    PROVE  /\ LastOf(ds) \in Dests \cup {NoDst}
           /\ ds # <<>> => \E i \in DOMAIN ds : ds[i] = LastOf(ds)
<1>1. CASE ds = <<>>
  BY <1>1 DEF LastOf
<1>2. CASE ds # <<>>
  <2>1. Len(ds) \in DOMAIN ds
    BY <1>2
  <2> QED
    BY <1>2, <2>1 DEF LastOf
<1> QED
  BY <1>1, <1>2

\* A leg starts at the position or at one of the destinations.
LEMMA PreviousDestinationType ==
    ASSUME TypeOK
    PROVE  /\ PreviousDestination \in Origins \cup {NoPos}
           /\ ~StartsAtPosition =>
                 \E i \in DOMAIN destinations :
                     destinations[i] = PreviousDestination
           /\ ~StartsAtPosition => PreviousDestination \in Dests
<1>1. CASE \E i \in 2..Len(destinations) : destinations[i] = current_dst
  <2> DEFINE k == CHOOSE i \in 2..Len(destinations) :
                     destinations[i] = current_dst
  <2>1. k \in 2..Len(destinations)
    BY <1>1
  <2>2. PreviousDestination = destinations[k - 1]
    BY <1>1 DEF PreviousDestination
  <2> HIDE DEF k
  <2>3. k - 1 \in DOMAIN destinations
    BY <2>1 DEF TypeOK
  <2> QED
    BY <2>2, <2>3 DEF TypeOK, Origins
<1>2. CASE ~\E i \in 2..Len(destinations) : destinations[i] = current_dst
  BY <1>2 DEF PreviousDestination, StartsAtPosition, TypeOK, Origins
<1> QED
  BY <1>1, <1>2

-----------------------------------------------------------------------------
(* The inductive invariant *)

\* The graph is flooded towards current_dst, which is a destination.  That a
\* rebuilt graph has a destination to be flooded towards needs the second
\* conjunct: the graph of an empty list is always gone.
Inv == TypeOK /\ CurrentIsDestination /\ FloodedForCurrentDestination

LegsType == legs \in [LegIds -> Leg] /\ gone \subseteq LegIds

\* What the graph may be flooded for.
LEMMA FloodedTyped ==
    /\ NotFlooded \in [dst : Dests \cup {NoDst}, traffic : Versions]
    /\ TypeOK => \A d \in Dests :
          [dst |-> d, traffic |-> traffic]
             \in [dst : Dests \cup {NoDst}, traffic : Versions]
BY ConstantsAssumption DEF NotFlooded, Versions, TypeOK

\* TypeOK says that legs are legs.
LEMMA LegsTyped == TypeOK => LegsType
BY DEF TypeOK, LegsType, Leg

\* route_path_update_flags keeps the invariant when its caller leaves
\* current_dst in the list and has destroyed the graph of another list.
LEMMA PathUpdateStep ==
    ASSUME Inv, NEW st \in Status, NEW drop \in BOOLEAN, NEW async \in BOOLEAN,
           NEW no_rebuild \in BOOLEAN,
           pos' \in Places \cup {OffRoad, NoPos},
           destinations' \in Seq(Dests),
           current_dst' \in Dests \cup {NoDst},
           destinations' # <<>> =>
              \E i \in DOMAIN destinations' : destinations'[i] = current_dst',
           drop \/ UNCHANGED <<destinations, current_dst>>,
           UNCHANGED <<traffic, reader>>,
           PathUpdate(pos', destinations', st, drop, async, no_rebuild)
    PROVE  Inv'
<1> USE DEF Inv
<1>1. LegsType /\ (DestroyPath => LegsType' /\ path2' = NoLeg)
  BY LegsTyped, ReleaseType DEF DestroyPath, FreeSegments, LegsType
<1>2. CASE /\ ~Routable(pos', destinations')
           /\ DestroyPath
           /\ graph' = IF drop THEN "none" ELSE graph
           /\ flooded' = IF drop THEN NotFlooded ELSE flooded
           /\ route_status' = st
           /\ UNCHANGED <<link_path, callVars>>
  <2>1. TypeOK'
    BY <1>1, <1>2, ConstantsAssumption
    DEF TypeOK, LegsType, Leg, NotFlooded, Versions, callVars
  <2>2. CurrentIsDestination' /\ FloodedForCurrentDestination'
    BY <1>1, <1>2, ConstantsAssumption
    DEF CurrentIsDestination, FloodedForCurrentDestination, TypeOK
  <2> QED
    BY <2>1, <2>2
<1>3. CASE /\ ~drop /\ graph = "busy"
           /\ route_status' = st
           /\ UNCHANGED <<graphVars, pathVars, callVars>>
  BY <1>3 DEF TypeOK, CurrentIsDestination, FloodedForCurrentDestination,
              graphVars, pathVars, callVars
<1>4. CASE /\ ~drop /\ graph = "ready"
           /\ pc' = "update" /\ new_graph' = FALSE /\ rebuild' = ~no_rebuild
           /\ route_status' = st
           /\ UNCHANGED <<graphVars, pathVars>>
  BY <1>4 DEF TypeOK, CurrentIsDestination, FloodedForCurrentDestination,
              graphVars, pathVars
<1>5. CASE /\ Routable(pos', destinations')
           /\ DestroyPath
           /\ GraphUpdate(current_dst', async)
           /\ UNCHANGED link_path
  <2>1. current_dst' \in Dests
    BY <1>5, ConstantsAssumption DEF Routable
  <2>2. CASE /\ graph' = "busy" /\ flooded' = NotFlooded
             /\ route_status' = "building_graph"
             /\ pc' = "idle" /\ new_graph' = FALSE /\ rebuild' = FALSE
    <3>1. TypeOK'
      BY <1>1, <1>5, <2>2, FloodedTyped
      DEF TypeOK, LegsType, Leg, Status
    <3>2. CurrentIsDestination' /\ FloodedForCurrentDestination'
      BY <1>1, <1>5, <2>2
      DEF CurrentIsDestination, FloodedForCurrentDestination, Routable
    <3> QED
      BY <3>1, <3>2
  <2>3. CASE /\ graph' = "ready" /\ Flood(current_dst')
             /\ route_status' = "building_graph"
             /\ rebuild' = FALSE
    <3>1. TypeOK'
      BY <1>1, <1>5, <2>1, <2>3, FloodedTyped
      DEF TypeOK, LegsType, Leg, Status, Flood
    <3>2. CurrentIsDestination' /\ FloodedForCurrentDestination'
      BY <1>1, <1>5, <2>3
      DEF CurrentIsDestination, FloodedForCurrentDestination, Flood, Routable
    <3> QED
      BY <3>1, <3>2
  <2> QED
    BY <1>5, <2>2, <2>3 DEF GraphUpdate
<1> QED
  BY <1>2, <1>3, <1>4, <1>5 DEF PathUpdate

\* A leg that has been found is a leg, and so are the ones left of the path.
LEMMA InstallLegType ==
    ASSUME TypeOK, InstallLeg
    PROVE  LegsType' /\ path2' \in LegIds
<1>1. PICK l \in UnusedLegs :
          /\ path2' = l
          /\ \/ /\ legs' = [legs EXCEPT ![l] = NewLeg]
                /\ gone' = gone \ {l}
             \/ /\ legs' = Release([legs EXCEPT ![l] = NewLeg], {path2})
                /\ gone' = {g \in (gone \cup {path2}) \cap LegIds :
                               g # l /\ legs'[g].in_use > 0}
  BY DEF InstallLeg
<1>2. l \in LegIds
  BY DEF UnusedLegs
<1>3. NextOfNewLeg \in LegIds \cup {NoLeg, FreedLeg}
  BY DEF TypeOK, NextOfNewLeg
<1>4. NewLeg \in Leg
  BY <1>3, PreviousDestinationType DEF NewLeg, Leg, TypeOK
<1>5. [legs EXCEPT ![l] = NewLeg] \in [LegIds -> Leg]
  BY <1>2, <1>4, LegsTyped DEF LegsType
<1>6. Release([legs EXCEPT ![l] = NewLeg], {path2}) \in [LegIds -> Leg]
  BY <1>5, ReleaseType
<1>7. gone \subseteq LegIds /\ path2 \in LegIds \cup {NoLeg, FreedLeg}
  BY DEF TypeOK
<1>8. gone' \subseteq LegIds
  BY <1>1, <1>7 DEF LegsType
<1> QED
  BY <1>1, <1>2, <1>5, <1>6, <1>8 DEF LegsType

\* A leg that is not in use any more, or is marked or taken by a reader.
LEMMA UseType ==
    ASSUME TypeOK, NEW l \in LegIds
    PROVE  /\ [legs EXCEPT ![l].in_use = @ + 1] \in [LegIds -> Leg]
           /\ [legs EXCEPT ![l].update_required = DeferredMark]
                 \in [LegIds -> Leg]
BY LegsTyped DEF LegsType, Leg, DeferredMark

-----------------------------------------------------------------------------
(* Every step keeps the invariant: route_path_update_done ... *)

LEMMA UpdateDeferredStep == Inv /\ UpdateDeferred => Inv'
<1> SUFFICES ASSUME Inv, UpdateDeferred PROVE Inv'
  OBVIOUS
<1> USE DEF Inv, UpdateDeferred
<1>1. LegsType'
  BY UseType, LegsTyped DEF LegsType, PathInUse
<1>2. TypeOK'
  BY <1>1 DEF TypeOK, LegsType, Leg, routeVars, graphVars
<1>3. CurrentIsDestination' /\ FloodedForCurrentDestination'
  BY DEF CurrentIsDestination, FloodedForCurrentDestination, routeVars,
         graphVars
<1> QED
  BY <1>2, <1>3

LEMMA UpdateNextLegStep == Inv /\ UpdateNextLeg => Inv'
<1> SUFFICES ASSUME Inv, UpdateNextLeg PROVE Inv'
  OBVIOUS
<1> USE DEF Inv, UpdateNextLeg
<1>1. LegsType' /\ path2' \in LegIds
  BY InstallLegType
<1>2. /\ PreviousDestination \in Dests
      /\ \E i \in DOMAIN destinations : destinations[i] = PreviousDestination
  BY PreviousDestinationType
<1>3. flooded' \in [dst : Dests \cup {NoDst}, traffic : Versions]
  BY <1>2, FloodedTyped DEF Flood
<1>4. TypeOK'
  BY <1>1, <1>2, <1>3 DEF TypeOK, LegsType, Leg, Flood, Status
<1>5. CurrentIsDestination' /\ FloodedForCurrentDestination'
  BY <1>2 DEF CurrentIsDestination, FloodedForCurrentDestination, Flood,
              LegFound
<1> QED
  BY <1>4, <1>5

LEMMA UpdateCompleteStep == Inv /\ UpdateComplete => Inv'
<1> SUFFICES ASSUME Inv, UpdateComplete PROVE Inv'
  OBVIOUS
<1> USE DEF Inv, UpdateComplete
<1>1. LegsType' /\ path2' \in LegIds
  BY InstallLegType
<1>2. route_status' \in Status
  BY DEF Status, PathDone
<1>3. TypeOK'
  BY <1>1, <1>2 DEF TypeOK, LegsType, Leg, routeVars, graphVars
<1>4. CurrentIsDestination' /\ FloodedForCurrentDestination'
  BY DEF CurrentIsDestination, FloodedForCurrentDestination, LegFound,
         routeVars, graphVars
<1> QED
  BY <1>3, <1>4

LEMMA UpdateNotFoundStep == Inv /\ UpdateNotFound => Inv'
<1> SUFFICES ASSUME Inv, UpdateNotFound PROVE Inv'
  OBVIOUS
<1> USE DEF Inv, UpdateNotFound
<1>1. LegsType' /\ path2' = NoLeg
  BY LegsTyped, ReleaseType DEF FreeSegments, LegsType
<1>2. CASE /\ route_status' = "not_found"
           /\ pc' = "idle" /\ new_graph' = FALSE /\ rebuild' = FALSE
           /\ UNCHANGED graphVars
  <2>1. TypeOK'
    BY <1>1, <1>2 DEF TypeOK, LegsType, Leg, Status, routeVars, graphVars
  <2>2. CurrentIsDestination' /\ FloodedForCurrentDestination'
    BY <1>1, <1>2 DEF CurrentIsDestination, FloodedForCurrentDestination,
                      routeVars, graphVars
  <2> QED
    BY <2>1, <2>2
<1>3. CASE GraphUpdate(current_dst, TRUE)
  <2>1. /\ graph' = "busy" /\ flooded' = NotFlooded
        /\ route_status' = "building_graph"
        /\ pc' = "idle" /\ new_graph' = FALSE /\ rebuild' = FALSE
    BY <1>3 DEF GraphUpdate
  <2>2. TypeOK'
    BY <1>1, <2>1, FloodedTyped DEF TypeOK, LegsType, Leg, Status, routeVars
  <2>3. CurrentIsDestination' /\ FloodedForCurrentDestination'
    BY <1>1, <2>1 DEF CurrentIsDestination, FloodedForCurrentDestination,
                      UpdateDefined, routeVars
  <2> QED
    BY <2>2, <2>3
<1> QED
  BY <1>2, <1>3

-----------------------------------------------------------------------------
(* ... the position ... *)

\* PathUpdate is the same formula when it is given the new values.
LEMMA SetPositionStep ==
    ASSUME Inv, NEW p \in Fixes, NEW no_rebuild \in BOOLEAN,
           SetPosition(p, no_rebuild)
    PROVE  Inv'
<1> USE DEF SetPosition
<1>1. p \in Places \cup {OffRoad, NoPos}
  BY ConstantsAssumption
<1>2. CASE UNCHANGED <<graphVars, pathVars, route_status, callVars>>
  BY <1>1, <1>2 DEF Inv, TypeOK, CurrentIsDestination, graphVars, pathVars,
                    callVars, FloodedForCurrentDestination
<1>3. CASE PathUpdate(p, destinations, route_status, FALSE, ~no_rebuild,
                      no_rebuild)
  <2>1. PathUpdate(pos', destinations', route_status, FALSE, ~no_rebuild,
                   no_rebuild)
    BY <1>3
  <2> QED
    BY <1>1, <2>1, PathUpdateStep DEF Inv, TypeOK, CurrentIsDestination
<1> QED
  BY <1>2, <1>3

LEMMA SetPositionFromTrackingStep ==
    ASSUME Inv, NEW p \in Fixes, SetPositionFromTracking(p)
    PROVE  Inv'
<1> USE DEF SetPositionFromTracking
<1>1. p \in Places \cup {OffRoad, NoPos}
  BY ConstantsAssumption
<1>2. CASE UNCHANGED <<graphVars, pathVars, route_status, callVars>>
  BY <1>1, <1>2 DEF Inv, TypeOK, CurrentIsDestination, graphVars, pathVars,
                    callVars, FloodedForCurrentDestination
<1>3. CASE PathUpdate(p, destinations, route_status, FALSE, TRUE, FALSE)
  <2>1. PathUpdate(pos', destinations', route_status, FALSE, TRUE, FALSE)
    BY <1>3
  <2> QED
    BY <1>1, <2>1, PathUpdateStep DEF Inv, TypeOK, CurrentIsDestination
<1> QED
  BY <1>2, <1>3

(* ... the destinations ... *)

\* A caller of route_path_update_flags that has set the list ds.
LEMMA NewListStep ==
    ASSUME Inv, NEW ds \in Seq(Dests), NEW st \in Status,
           NEW async \in BOOLEAN,
           destinations' = ds, current_dst' = LastOf(ds),
           PathUpdate(pos, ds, st, TRUE, async, FALSE),
           UNCHANGED <<pos, traffic, reader>>
    PROVE  Inv'
<1>1. PathUpdate(pos', destinations', st, TRUE, async, FALSE)
  OBVIOUS
<1>2. pos' \in Places \cup {OffRoad, NoPos}
  BY DEF Inv, TypeOK
<1>3. /\ destinations' \in Seq(Dests)
      /\ current_dst' \in Dests \cup {NoDst}
      /\ destinations' # <<>> =>
            \E i \in DOMAIN destinations' : destinations'[i] = current_dst'
  BY LastOfList
<1> QED
  BY <1>1, <1>2, <1>3, PathUpdateStep

LEMMA SetDestinationsStep ==
    ASSUME Inv, NEW ds \in DestLists, NEW count, NEW async \in BOOLEAN,
           SetDestinations(ds, count, async)
    PROVE  Inv'
<1> DEFINE st == IF count > 0 THEN "destination_set" ELSE "no_destination"
<1>1. ds \in Seq(Dests)
  BY ConstantsAssumption DEF DestLists
<1>2. st \in Status
  BY DEF Status
<1>3. PathUpdate(pos, ds, st, TRUE, async, FALSE)
  BY DEF SetDestinations
<1> HIDE DEF st
<1> QED
  BY <1>1, <1>2, <1>3, NewListStep DEF SetDestinations

LEMMA AppendDestinationStep ==
    ASSUME Inv, NEW d \in Dests, NEW found \in BOOLEAN, NEW async \in BOOLEAN,
           AppendDestination(d, found, async)
    PROVE  Inv'
<1> DEFINE ds == IF found THEN Append(destinations, d) ELSE destinations
<1>1. destinations \in Seq(Dests) /\ route_status \in Status
  BY DEF Inv, TypeOK
<1>2. Append(destinations, d) \in Seq(Dests)
  BY <1>1, AppendProperties
<1>3. ds \in Seq(Dests)
  BY <1>1, <1>2
<1>4. /\ destinations' = ds /\ current_dst' = LastOf(ds)
      /\ PathUpdate(pos, ds, route_status, TRUE, async, FALSE)
      /\ UNCHANGED <<pos, traffic, reader>>
  BY DEF AppendDestination
<1> HIDE DEF ds
<1> QED
  BY <1>1, <1>3, <1>4, NewListStep

LEMMA RemoveNthWaypointStep ==
    ASSUME Inv, NEW n \in 1..MaxDests, RemoveNthWaypoint(n)
    PROVE  Inv'
<1> DEFINE ds == SubSeq(destinations, 1, n - 1)
                   \o SubSeq(destinations, n + 1, Len(destinations))
<1>1. destinations \in Seq(Dests) /\ route_status \in Status
  BY DEF Inv, TypeOK
<1>2. n \in 1..Len(destinations) /\ Len(destinations) \in Nat
  BY <1>1 DEF RemoveNthWaypoint
<1>3. SubSeq(destinations, 1, n - 1) \in Seq(Dests)
  BY <1>1, <1>2
<1>4. SubSeq(destinations, n + 1, Len(destinations)) \in Seq(Dests)
  BY <1>1, <1>2
<1>5. ds \in Seq(Dests)
  BY <1>3, <1>4, ConcatProperties
<1>6. /\ destinations' = ds /\ current_dst' = LastOf(ds)
      /\ PathUpdate(pos, ds, route_status, TRUE, TRUE, FALSE)
      /\ UNCHANGED <<pos, traffic, reader>>
  BY DEF RemoveNthWaypoint
<1> HIDE DEF ds
<1> QED
  BY <1>1, <1>5, <1>6, NewListStep

\* route_remove_waypoint floods the graph there is: a path has been found, so
\* there is one.
LEMMA RemoveWaypointStep == Inv /\ RemoveWaypoint => Inv'
<1> SUFFICES ASSUME Inv, RemoveWaypoint PROVE Inv'
  OBVIOUS
<1> USE DEF Inv, RemoveWaypoint
<1>1. destinations \in Seq(Dests) /\ Len(destinations) > 1
  BY DEF TypeOK
<1>2. /\ destinations' \in Seq(Dests)
      /\ 1 \in DOMAIN destinations' /\ destinations'[1] = destinations[2]
      /\ current_dst' \in Dests
  BY <1>1
<1>3. graph = "ready"
  BY ConstantsAssumption DEF FloodedForCurrentDestination
<1>4. LegsType' /\ path2' \in LegIds \cup {NoLeg, FreedLeg}
  <2>1. legs[path2] \in Leg
    BY LegsTyped DEF LegsType
  <2> QED
    BY <2>1, LegsTyped, ReleaseType DEF FreeSegments, LegsType, Leg
<1>5. flooded' \in [dst : Dests \cup {NoDst}, traffic : Versions]
  BY <1>2, FloodedTyped DEF Flood
<1>6. TypeOK'
  BY <1>2, <1>4, <1>5 DEF TypeOK, LegsType, Leg, Flood
<1>7. graph' = "ready" /\ flooded'.dst = current_dst'
  BY <1>3 DEF Flood
<1>8. \E i \in DOMAIN destinations' : destinations'[i] = current_dst'
  BY <1>2
<1> HIDE DEF RemoveWaypoint
<1>9. CurrentIsDestination' /\ FloodedForCurrentDestination'
  BY <1>2, <1>7, <1>8 DEF CurrentIsDestination, FloodedForCurrentDestination
<1> QED
  BY <1>6, <1>9

-----------------------------------------------------------------------------
(* ... the graph ... *)

LEMMA BuildDoneStep == Inv /\ BuildDone => Inv'
<1> SUFFICES ASSUME Inv, BuildDone PROVE Inv'
  OBVIOUS
<1> USE DEF Inv, BuildDone
<1>1. /\ destinations # <<>>
      /\ \E i \in DOMAIN destinations : destinations[i] = current_dst
  BY DEF CurrentIsDestination
<1>2. current_dst \in Dests
  BY <1>1 DEF TypeOK
<1>3. flooded' \in [dst : Dests \cup {NoDst}, traffic : Versions]
  BY <1>2, FloodedTyped DEF Flood
<1>4. TypeOK'
  BY <1>3 DEF TypeOK, Flood, routeVars, pathVars
<1>5. CurrentIsDestination' /\ FloodedForCurrentDestination'
  BY <1>1 DEF CurrentIsDestination, FloodedForCurrentDestination, Flood,
              routeVars, pathVars
<1> QED
  BY <1>4, <1>5

LEMMA TrafficUpdateStep == Inv /\ TrafficUpdate => Inv'
<1> SUFFICES ASSUME Inv, TrafficUpdate PROVE Inv'
  OBVIOUS
<1> USE DEF Inv, TrafficUpdate
<1>1. traffic' \in Versions
  BY ConstantsAssumption DEF TypeOK, Versions
<1>2. CASE UNCHANGED <<flooded, route_status, callVars>>
  <2>1. TypeOK'
    BY <1>1, <1>2 DEF TypeOK, routeVars, pathVars, callVars
  <2>2. CurrentIsDestination' /\ FloodedForCurrentDestination'
    BY <1>2 DEF CurrentIsDestination, FloodedForCurrentDestination,
                routeVars, pathVars
  <2> QED
    BY <2>1, <2>2
<1>3. CASE /\ flooded' = Recalculated
           /\ route_status' = "building_graph"
           /\ pc' = "update" /\ new_graph' = FALSE /\ rebuild' = FALSE
  <2>1. /\ flooded' \in [dst : Dests \cup {NoDst}, traffic : Versions]
        /\ flooded'.dst = flooded.dst
    BY <1>1, <1>3 DEF TypeOK, Recalculated
  <2>2. TypeOK'
    BY <1>1, <1>3, <2>1 DEF TypeOK, Status, routeVars, pathVars
  <2>3. CurrentIsDestination' /\ FloodedForCurrentDestination'
    BY <2>1 DEF CurrentIsDestination, FloodedForCurrentDestination,
                routeVars, pathVars
  <2> QED
    BY <2>2, <2>3
<1> QED
  BY <1>2, <1>3

-----------------------------------------------------------------------------
(* ... and the readers of the route map. *)

\* What a reader changes, the invariant does not look at.
LEMMA ReaderKeeps ==
    ASSUME Inv, LegsType', UNCHANGED <<routeVars, graphVars, path2, link_path,
                                       route_status, traffic>>,
           reader' \in [Readers -> LegIds \cup {NoLeg, FreedLeg, Closed}],
           pc' \in {"idle", "update"},
           new_graph' \in BOOLEAN, rebuild' \in BOOLEAN
    PROVE  Inv'
<1>1. TypeOK'
  BY DEF Inv, TypeOK, LegsType, Leg, routeVars, graphVars
<1>2. CurrentIsDestination' /\ FloodedForCurrentDestination'
  BY DEF Inv, CurrentIsDestination, FloodedForCurrentDestination, routeVars,
         graphVars
<1> QED
  BY <1>1, <1>2 DEF Inv

LEMMA OpenReaderStep ==
    ASSUME Inv, NEW r \in Readers, OpenReader(r)
    PROVE  Inv'
<1> USE DEF OpenReader
<1>1. LegsType'
  BY UseType, LegsTyped DEF Inv, LegsType
<1>2. /\ reader' \in [Readers -> LegIds \cup {NoLeg, FreedLeg, Closed}]
      /\ pc' \in {"idle", "update"}
      /\ new_graph' \in BOOLEAN /\ rebuild' \in BOOLEAN
  BY DEF Inv, TypeOK, callVars
<1> QED
  BY <1>1, <1>2, ReaderKeeps

LEMMA AdvanceReaderStep ==
    ASSUME Inv, NEW r \in Readers, AdvanceReader(r)
    PROVE  Inv'
<1> USE DEF AdvanceReader
<1>1. LegsType'
  BY UseType, ReleaseType, LegsTyped DEF FreeSegments, Inv, LegsType
<1>2. /\ reader' \in [Readers -> LegIds \cup {NoLeg, FreedLeg, Closed}]
      /\ pc' \in {"idle", "update"}
      /\ new_graph' \in BOOLEAN /\ rebuild' \in BOOLEAN
  BY DEF Inv, TypeOK, callVars
<1> QED
  BY <1>1, <1>2, ReaderKeeps

LEMMA CloseReaderStep ==
    ASSUME Inv, NEW r \in Readers, CloseReader(r)
    PROVE  Inv'
<1> USE DEF CloseReader
<1>1. LegsType'
  BY ReleaseType, LegsTyped DEF FreeSegments, Inv, LegsType
<1>2. /\ reader' \in [Readers -> LegIds \cup {NoLeg, FreedLeg, Closed}]
      /\ pc' \in {"idle", "update"}
      /\ new_graph' \in BOOLEAN /\ rebuild' \in BOOLEAN
  BY DEF Inv, TypeOK, callVars
<1> QED
  BY <1>1, <1>2, ReaderKeeps

-----------------------------------------------------------------------------
(* The theorems *)

LEMMA InitInv == Init => Inv
<1> SUFFICES ASSUME Init PROVE Inv
  OBVIOUS
<1>1. legs \in [LegIds -> Leg]
  BY ConstantsAssumption DEF Init, FreeLeg, Leg, Versions
<1>2. /\ pos \in Places \cup {OffRoad, NoPos}
      /\ destinations \in Seq(Dests)
      /\ current_dst \in Dests \cup {NoDst}
  BY DEF Init
<1>3. flooded \in [dst : Dests \cup {NoDst}, traffic : Versions]
  BY FloodedTyped DEF Init
<1>4. traffic \in Versions /\ route_status \in Status
  BY ConstantsAssumption DEF Init, Versions, Status
<1>5. reader \in [Readers -> LegIds \cup {NoLeg, FreedLeg, Closed}]
  BY DEF Init
<1>6. /\ graph \in {"none", "busy", "ready"} /\ pc \in {"idle", "update"}
      /\ path2 \in LegIds \cup {NoLeg, FreedLeg} /\ link_path \in BOOLEAN
      /\ gone \subseteq LegIds
      /\ new_graph \in BOOLEAN /\ rebuild \in BOOLEAN
  BY DEF Init
<1>7. TypeOK
  BY <1>1, <1>2, <1>3, <1>4, <1>5, <1>6 DEF TypeOK, Leg
<1>8. CurrentIsDestination /\ FloodedForCurrentDestination
  BY DEF Init, CurrentIsDestination, FloodedForCurrentDestination
<1> QED
  BY <1>7, <1>8 DEF Inv

LEMMA NextInv == Inv /\ [Next]_vars => Inv'
<1> SUFFICES ASSUME Inv, [Next]_vars PROVE Inv'
  OBVIOUS
<1>1. CASE UserCommand
  BY <1>1, SetDestinationsStep, AppendDestinationStep, RemoveNthWaypointStep,
     RemoveWaypointStep DEF UserCommand
<1>2. CASE PositionFix
  BY <1>2, SetPositionStep, SetPositionFromTrackingStep DEF PositionFix
<1>3. CASE ReaderStep
  BY <1>3, OpenReaderStep, AdvanceReaderStep, CloseReaderStep DEF ReaderStep
<1>4. CASE TrafficUpdate
  BY <1>4, TrafficUpdateStep
<1>5. CASE BuildDone
  BY <1>5, BuildDoneStep
<1>6. CASE UpdateDone
  BY <1>6, UpdateDeferredStep, UpdateNextLegStep, UpdateCompleteStep,
     UpdateNotFoundStep DEF UpdateDone
<1>7. CASE UNCHANGED vars
  BY <1>7 DEF vars, routeVars, graphVars, pathVars, callVars, Inv, TypeOK,
              CurrentIsDestination, FloodedForCurrentDestination
<1> QED
  BY <1>1, <1>2, <1>3, <1>4, <1>5, <1>6, <1>7 DEF Next

\* The invariant holds whatever the environment does: streets that are not
\* found, destinations that come and go, readers that return at any time.
THEOREM InvariantHolds == Spec => []Inv
BY InitInv, NextInv, PTL DEF Spec

\* Every pointer of the route is NULL, a leg or a leg that has been freed, and
\* every counter stays in its range: route_path_destroy never counts a leg's
\* users below zero.
THEOREM TypeCorrect == Spec => []TypeOK
<1>1. Inv => TypeOK
  BY DEF Inv
<1> QED
  BY <1>1, InvariantHolds, PTL

\* current_dst is a destination whenever there is one, and no graph is left
\* when there is none.
THEOREM CurrentCorrect == Spec => []CurrentIsDestination
<1>1. Inv => CurrentIsDestination
  BY DEF Inv
<1> QED
  BY <1>1, InvariantHolds, PTL

\* A path is kept only with a complete graph, and the graph is flooded towards
\* the destination at which the next leg is to end.
THEOREM FloodedCorrect == Spec => []FloodedForCurrentDestination
<1>1. Inv => FloodedForCurrentDestination
  BY DEF Inv
<1> QED
  BY <1>1, InvariantHolds, PTL

=============================================================================
