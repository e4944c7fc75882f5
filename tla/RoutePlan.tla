----------------------------- MODULE RoutePlan -----------------------------
(***************************************************************************)
(* The life cycle of a route: struct route and struct route_path of        *)
(* src/navit/route.c.  A route has a position, a list of destinations, a   *)
(* route graph that is built from the map in idle time and flooded towards *)
(* one destination at a time, and a path: a chain of legs, one for each    *)
(* destination, linked by route_path.next.  The route map hands the legs   *)
(* to readers (the display list, the maneuver generator) which keep them   *)
(* across events; route_path.in_use counts the route and its readers.      *)
(* The count keeps the struct: the segments of a leg are freed as soon as  *)
(* the route gives the leg up, whoever reads them.                         *)
(*                                                                         *)
(* Navit runs one event at a time.  Every handler is one action, except    *)
(* that each call of route_path_update_done is a step of its own, taken    *)
(* while pc = "update" and before any other event: the code calls it once  *)
(* per destination, from the last to the first, through the callback that  *)
(* runs when flooding is complete.                                         *)
(***************************************************************************)
EXTENDS Integers, Sequences, FiniteSets

CONSTANTS
    Places,      \* positions on a street
    Dests,       \* destinations (struct route_info)
    Readers,     \* map rects that may be open on the route map
    LegIds,      \* identities of struct route_path
    Fixes,       \* the positions the vehicle may report
    Unlinked,    \* <<from, to>>: no street leads from from to to
    MaxDests,    \* bound: destinations in the list
    MaxTraffic,  \* bound: changes of the traffic situation
    NoPos,       \* pos = NULL
    OffRoad,     \* a position with street = NULL
    NoDst,       \* current_dst = NULL
    NoLeg,       \* path2 = NULL, next = NULL
    FreedLeg,    \* a pointer to a leg that has been freed
    Closed       \* a reader that is not open

Origins == Places \cup Dests \cup {OffRoad}

ASSUME ConstantsAssumption ==
    /\ IsFiniteSet(Readers)
    /\ MaxDests \in Nat /\ MaxTraffic \in Nat
    /\ Fixes \subseteq Places \cup {OffRoad, NoPos}
    /\ Unlinked \subseteq Origins \X Dests
    /\ NoPos \notin Origins /\ OffRoad \notin Places \cup Dests
    /\ Places \cap Dests = {} /\ NoDst \notin Dests
    /\ LegIds \cap {NoLeg, FreedLeg, Closed} = {}
    /\ NoLeg # FreedLeg /\ NoLeg # Closed /\ FreedLeg # Closed

VARIABLES
    pos,           \* route.pos
    destinations,  \* route.destinations
    current_dst,   \* route.current_dst
    graph,         \* route.graph: "none", "busy" (being built) or "ready"
    flooded,       \* what the costs in the graph were computed for
    legs,          \* every struct route_path
    path2,         \* route.path2
    link_path,     \* route.link_path
    gone,          \* legs in use whose segments have been freed
    route_status,  \* route.route_status
    traffic,       \* the traffic situation the map reports (a version)
    reader,        \* the leg each open map rect points to (mr.path)
    pc,            \* "idle", or "update": route_path_update_done is called
    new_graph,     \* the argument of that call
    rebuild        \* route_path_update_flags continues after that call

routeVars == <<pos, destinations, current_dst>>
graphVars == <<graph, flooded>>
pathVars == <<legs, path2, link_path, gone>>
callVars == <<pc, new_graph, rebuild>>
vars == <<routeVars, graphVars, pathVars, route_status, traffic, reader,
          callVars>>

Status == {"no_destination", "destination_set", "not_found", "building_path",
           "building_graph", "path_done_new", "path_done_incremental"}
PathDone == {"path_done_new", "path_done_incremental"}

Versions == 0..MaxTraffic
NotFlooded == [dst |-> NoDst, traffic |-> 0]
FreeLeg == [from |-> NoPos, to |-> NoDst, traffic |-> 0, in_use |-> 0,
            update_required |-> 0, next |-> NoLeg]

TypeOK ==
    /\ pos \in Places \cup {OffRoad, NoPos}
    /\ destinations \in Seq(Dests)
    /\ current_dst \in Dests \cup {NoDst}
    /\ graph \in {"none", "busy", "ready"}
    /\ flooded \in [dst : Dests \cup {NoDst}, traffic : Versions]
    /\ legs \in [LegIds -> [from : Origins \cup {NoPos},
                            to : Dests \cup {NoDst},
                            traffic : Versions,
                            in_use : Nat,
                            update_required : 0..2,
                            next : LegIds \cup {NoLeg, FreedLeg}]]
    /\ path2 \in LegIds \cup {NoLeg, FreedLeg}
    /\ link_path \in BOOLEAN
    /\ gone \subseteq LegIds
    /\ route_status \in Status
    /\ traffic \in Versions
    /\ reader \in [Readers -> LegIds \cup {NoLeg, FreedLeg, Closed}]
    /\ pc \in {"idle", "update"}
    /\ new_graph \in BOOLEAN
    /\ rebuild \in BOOLEAN

Init ==
    /\ pos = NoPos /\ destinations = <<>> /\ current_dst = NoDst
    /\ graph = "none" /\ flooded = NotFlooded
    /\ legs = [l \in LegIds |-> FreeLeg] /\ path2 = NoLeg
    /\ link_path = FALSE /\ gone = {}
    /\ route_status = "no_destination"
    /\ traffic = 0
    /\ reader = [r \in Readers |-> Closed]
    /\ pc = "idle" /\ new_graph = FALSE /\ rebuild = FALSE

-----------------------------------------------------------------------------
(* Legs *)

\* The legs that can be reached from the pointers in S through next: they are
\* in every set of legs that has those in S and leads to no other.
Encloses(T, S) ==
    /\ S \cap LegIds \subseteq T
    /\ \A l \in T : legs[l].next \in LegIds => legs[l].next \in T
Reach(S) ==
    LET enclosing == {T \in SUBSET LegIds : Encloses(T, S)}
    IN  {l \in LegIds : \A T \in enclosing : l \in T}

\* A leg that is not in use.  One that neither the route nor a reader can
\* reach (the code leaks a few) counts as unused: nobody sees it again.
UnusedLegs == LegIds \ Reach({path2} \cup {reader[r] : r \in Readers})

\* in_use-- for the legs in S: the structs whose count reaches zero are freed,
\* and the pointers to them that remain in other legs dangle.
Release(ls, S) ==
    LET F == {l \in S \cap LegIds : ls[l].in_use <= 1}
    IN  [l \in LegIds |->
           IF l \in F THEN FreeLeg
           ELSE [ls[l] EXCEPT
                   !.in_use = IF l \in S THEN @ - 1 ELSE @,
                   !.next = IF @ \in F THEN FreedLeg ELSE @]]

\* route_path_destroy frees the segments of the legs in S, whatever in_use
\* is; what a leg still in use is left with is the struct.
FreeSegments(S) ==
    gone' = {l \in gone \cup (S \cap LegIds) : legs'[l].in_use > 0}

DestroyFirstLeg ==              \* an error: the legs after it are forgotten
    legs' = Release(legs, {path2}) /\ path2' = NoLeg /\ FreeSegments({path2})

\* route_path_destroy(this->path2, 1)
DestroyPath ==
    /\ legs' = Release(legs, Reach({path2}))
    /\ path2' = NoLeg
    /\ FreeSegments(Reach({path2}))

-----------------------------------------------------------------------------
(* The route graph *)

LastOf(ds) == IF ds = <<>> THEN NoDst ELSE ds[Len(ds)]

\* route_graph_init and route_graph_compute_shortest_path, which then calls
\* back route_path_update_done with new_graph set.
Flood(dst) ==
    /\ flooded' = [dst |-> dst, traffic |-> traffic]
    /\ pc' = "update" /\ new_graph' = TRUE

\* route_graph_update: an idle event builds the graph, or a loop does it now.
GraphUpdate(dst, async) ==
    \/ /\ async
       /\ graph' = "busy" /\ flooded' = NotFlooded
       /\ route_status' = "building_graph"
       /\ pc' = "idle" /\ new_graph' = FALSE /\ rebuild' = FALSE
    \/ /\ ~async
       /\ graph' = "ready" /\ Flood(dst)
       /\ route_status' = "building_graph"
       /\ rebuild' = FALSE

\* There is something to route.
RoutableAnywhere(p, ds) == ds # <<>>       \* an error: no position is needed
Routable(p, ds) == p # NoPos /\ ds # <<>>

\* route_path_update_flags, for the position and destinations it will find
\* and the status set before it; drop: the graph has been destroyed.
PathUpdate(p, ds, st, drop, async, no_rebuild) ==
    \/ /\ ~Routable(p, ds)
       /\ DestroyPath
       /\ graph' = IF drop THEN "none" ELSE graph
       /\ flooded' = IF drop THEN NotFlooded ELSE flooded
       /\ route_status' = st
       /\ UNCHANGED <<link_path, callVars>>
    \/ /\ Routable(p, ds)
       /\ ~drop /\ graph = "busy"
       /\ route_status' = st
       /\ UNCHANGED <<graphVars, pathVars, callVars>>
    \/ /\ Routable(p, ds)
       /\ ~drop /\ graph = "ready"
       /\ pc' = "update" /\ new_graph' = FALSE /\ rebuild' = ~no_rebuild
       /\ route_status' = st
       /\ UNCHANGED <<graphVars, pathVars>>
    \/ /\ Routable(p, ds)
       /\ drop \/ graph = "none"
       /\ DestroyPath
       /\ GraphUpdate(current_dst', async)
       /\ UNCHANGED link_path

-----------------------------------------------------------------------------
(* route_path_update_done *)

\* route_previous_destination: where the leg to current_dst starts.
PreviousDestination ==
    IF \E i \in 2..Len(destinations) : destinations[i] = current_dst
    THEN destinations[(CHOOSE i \in 2..Len(destinations) :
                          destinations[i] = current_dst) - 1]
    ELSE pos

\* prev_dst == this->pos
StartsAtPosition == PreviousDestination = pos

\* route_path_new returns a path: the graph is flooded towards the
\* destination and a street leads from the start of the leg to it.
LegFound ==
    /\ graph = "ready" /\ PreviousDestination # OffRoad
    /\ <<PreviousDestination, flooded.dst>> \notin Unlinked

\* The leg after the new one: the legs found before it, or what followed the
\* leg that it replaces.
NextForgotten == IF link_path THEN path2 ELSE NoLeg   \* an error: no followers
NextOfNewLeg == IF link_path THEN path2
                ELSE IF path2 \in LegIds THEN legs[path2].next ELSE NoLeg

NewLeg == [from |-> PreviousDestination, to |-> current_dst,
           traffic |-> flooded.traffic, in_use |-> 1, update_required |-> 0,
           next |-> NextOfNewLeg]

PathInUseByMany ==              \* an error: one reader is not enough
    path2 \in LegIds /\ legs[path2].in_use > 2
PathInUse == path2 \in LegIds /\ legs[path2].in_use > 1

\* update_required, 0 for none
MarkUncounted == IF new_graph THEN 1 ELSE 0     \* an error: 1 + is missing
DeferredMark == IF new_graph THEN 2 ELSE 1

\* A reader holds the first leg: the update is left for its return.
UpdateDeferred ==
    /\ pc = "update" /\ PathInUse
    /\ legs' = [legs EXCEPT ![path2].update_required = DeferredMark]
    /\ pc' = "idle" /\ new_graph' = FALSE /\ rebuild' = FALSE
    /\ UNCHANGED <<routeVars, graphVars, path2, link_path, gone, route_status,
                   traffic, reader>>

\* What reading pos and graph requires; the code does not check it.
UpdateDefined ==
    graph # "none" /\ PreviousDestination # NoPos /\ current_dst # NoDst

\* The new leg replaces the first one, or is put before it.
InstallLeg ==
    \E l \in UnusedLegs :
        /\ path2' = l
        /\ \/ /\ link_path \/ path2 = NoLeg
              /\ legs' = [legs EXCEPT ![l] = NewLeg]
              /\ gone' = gone \ {l}
           \/ /\ ~link_path /\ path2 # NoLeg
              /\ legs' = Release([legs EXCEPT ![l] = NewLeg], {path2})
              /\ gone' = {g \in (gone \cup {path2}) \cap LegIds :
                             g # l /\ legs'[g].in_use > 0}

\* The leg found starts at a destination: the leg before it is next.
UpdateNextLeg ==
    /\ pc = "update" /\ ~PathInUse /\ UpdateDefined /\ LegFound
    /\ ~StartsAtPosition
    /\ InstallLeg
    /\ link_path' = TRUE
    /\ current_dst' = PreviousDestination
    /\ Flood(PreviousDestination)
    /\ route_status' = "building_path"
    /\ UNCHANGED <<pos, destinations, graph, traffic, reader, rebuild>>

\* The leg found starts at the position: the path is complete.
UpdateComplete ==
    /\ pc = "update" /\ ~PathInUse /\ UpdateDefined /\ LegFound
    /\ StartsAtPosition
    /\ InstallLeg
    /\ link_path' = FALSE
    /\ route_status' \in IF new_graph THEN {"path_done_new"} ELSE PathDone
    /\ pc' = "idle" /\ new_graph' = FALSE /\ rebuild' = FALSE
    /\ UNCHANGED <<routeVars, graphVars, traffic, reader>>

\* No leg: the path is dropped, and route_path_update_flags builds the graph
\* again when the call came from there.
UpdateNotFound ==
    /\ pc = "update" /\ ~PathInUse /\ UpdateDefined /\ ~LegFound
    /\ path2' = NoLeg
    /\ \/ link_path /\ legs' = Release(legs, {path2}) /\ FreeSegments({path2})
       \/ ~link_path /\ UNCHANGED <<legs, gone>>
    /\ link_path' = FALSE
    /\ \/ /\ ~rebuild
          /\ route_status' = "not_found"
          /\ pc' = "idle" /\ new_graph' = FALSE /\ rebuild' = FALSE
          /\ UNCHANGED graphVars
       \/ rebuild /\ GraphUpdate(current_dst, TRUE)
    /\ UNCHANGED <<routeVars, traffic, reader>>

UpdateDone ==
    UpdateDeferred \/ UpdateNextLeg \/ UpdateComplete \/ UpdateNotFound

-----------------------------------------------------------------------------
(* Events *)

\* route_set_position: the nearest street, NoPos when there is none.
SetPosition(p, no_rebuild) ==
    /\ pc = "idle" /\ p # OffRoad
    /\ pos' = p
    /\ UNCHANGED <<destinations, current_dst, traffic, reader>>
    /\ \/ p = NoPos /\ UNCHANGED <<graphVars, pathVars, route_status, callVars>>
       \/ /\ p # NoPos
          /\ PathUpdate(p, destinations, route_status, FALSE,
                        ~no_rebuild, no_rebuild)

\* route_set_position_from_tracking: there may be no street.
SetPositionFromTracking(p) ==
    /\ pc = "idle" /\ p # NoPos
    /\ pos' = p
    /\ UNCHANGED <<destinations, current_dst, traffic, reader>>
    /\ \/ /\ destinations = <<>>
          /\ UNCHANGED <<graphVars, pathVars, route_status, callVars>>
       \/ /\ destinations # <<>>
          /\ PathUpdate(p, destinations, route_status, FALSE, TRUE, FALSE)

\* route_set_destinations: ds are the ones found near a street; count is the
\* number asked for.
SetDestinations(ds, count, async) ==
    /\ pc = "idle"
    /\ destinations' = ds /\ current_dst' = LastOf(ds)
    /\ PathUpdate(pos, ds,
                  IF count > 0 THEN "destination_set" ELSE "no_destination",
                  TRUE, async, FALSE)
    /\ UNCHANGED <<pos, traffic, reader>>

\* route_append_destination, called when the list is not empty; found: a
\* street is near the new destination.
AppendDestination(d, found, async) ==
    /\ pc = "idle" /\ destinations # <<>>
    /\ \A i \in DOMAIN destinations : destinations[i] # d
    /\ Len(destinations) < MaxDests
    /\ destinations' = IF found THEN Append(destinations, d) ELSE destinations
    /\ current_dst' = LastOf(destinations')
    /\ PathUpdate(pos, destinations', route_status, TRUE, async, FALSE)
    /\ UNCHANGED <<pos, traffic, reader>>

\* route_remove_nth_waypoint, called when there is more than one.
KeepGraphAfterRemoval(n) ==     \* an error: the graph is not destroyed
    /\ pc = "idle" /\ Len(destinations) > 1 /\ n \in DOMAIN destinations
    /\ destinations' = SubSeq(destinations, 1, n - 1)
                         \o SubSeq(destinations, n + 1, Len(destinations))
    /\ current_dst' = LastOf(destinations')
    /\ PathUpdate(pos, destinations', route_status, FALSE, TRUE, FALSE)
    /\ UNCHANGED <<pos, traffic, reader>>

RemoveNthWaypoint(n) ==
    /\ pc = "idle" /\ Len(destinations) > 1 /\ n \in DOMAIN destinations
    /\ destinations' = SubSeq(destinations, 1, n - 1)
                         \o SubSeq(destinations, n + 1, Len(destinations))
    /\ current_dst' = LastOf(destinations')
    /\ PathUpdate(pos, destinations', route_status, TRUE, TRUE, FALSE)
    /\ UNCHANGED <<pos, traffic, reader>>

\* route_remove_waypoint, called when there is more than one and the first
\* is reached, or by the user.
RemoveWaypoint ==
    /\ pc = "idle" /\ Len(destinations) > 1 /\ path2 \in LegIds
    /\ destinations' = Tail(destinations)
    /\ current_dst' = destinations[2]
    /\ path2' = legs[path2].next
    /\ legs' = Release(legs, {path2}) /\ FreeSegments({path2})
    /\ Flood(destinations[2])
    /\ UNCHANGED <<pos, graph, link_path, route_status, traffic, reader,
                   rebuild>>

\* An idle event finishes the graph (route_graph_build_done).
BuildDone ==
    /\ pc = "idle" /\ graph = "busy"
    /\ graph' = "ready"
    /\ Flood(current_dst)
    /\ UNCHANGED <<routeVars, pathVars, route_status, traffic, reader, rebuild>>

\* The costs after a partial recalculation.
NotRecalculated == flooded      \* an error: the changed points are not expanded
Recalculated == [flooded EXCEPT !.traffic = traffic']

\* The traffic module changes distortions and recalculates
\* (route_recalculate_partial).  While the graph is being built, or when
\* there is none, the next one reads the new situation from the map.
TrafficUpdate ==
    /\ pc = "idle" /\ traffic < MaxTraffic
    /\ traffic' = traffic + 1
    /\ \/ /\ graph # "ready"
          /\ UNCHANGED <<flooded, route_status, callVars>>
       \/ /\ graph = "ready"
          /\ flooded' = Recalculated
          /\ route_status' = "building_graph"
          /\ pc' = "update" /\ new_graph' = FALSE /\ rebuild' = FALSE
    /\ UNCHANGED <<routeVars, graph, pathVars, reader>>

-----------------------------------------------------------------------------
(* Readers of the route map *)

\* rm_rect_new
OpenUncounted(r) ==             \* an error: in_use is not incremented
    /\ pc = "idle" /\ reader[r] = Closed
    /\ reader' = [reader EXCEPT ![r] = path2]
    /\ UNCHANGED <<routeVars, graphVars, pathVars, route_status, traffic,
                   callVars>>

OpenReader(r) ==
    /\ pc = "idle" /\ reader[r] = Closed
    /\ reader' = [reader EXCEPT ![r] = path2]
    /\ legs' = IF path2 \notin LegIds THEN legs
               ELSE [legs EXCEPT ![path2].in_use = @ + 1]
    /\ UNCHANGED <<routeVars, graphVars, path2, link_path, gone, route_status,
                   traffic, callVars>>

\* rm_get_item at the end of a leg that has a next one.  Segments that have
\* been freed while a reader is on the leg read as anything; that they are
\* at an end is one of the outcomes.
AdvanceReader(r) ==
    /\ pc = "idle" /\ reader[r] \in LegIds
    /\ legs[reader[r]].next \in LegIds
    /\ LET next == legs[reader[r]].next
       IN  /\ reader' = [reader EXCEPT ![r] = next]
           /\ legs' = Release([legs EXCEPT ![next].in_use = @ + 1],
                              {reader[r]})
    /\ FreeSegments({})
    /\ UNCHANGED <<routeVars, graphVars, path2, link_path, route_status,
                   traffic, callVars>>

\* The last reader of a leg returns it, and an update was left for that.
UpdateForgotten(leg) == FALSE   \* an error: the mark is not looked at
UpdateIsDue(leg) ==
    /\ leg.update_required > 0 /\ leg.in_use = 2
    /\ route_status \notin {"no_destination", "destination_set"}

\* rm_rect_destroy
CloseReader(r) ==
    /\ pc = "idle" /\ reader[r] \notin {Closed, FreedLeg}
    /\ reader' = [reader EXCEPT ![r] = Closed]
    /\ \/ /\ reader[r] = NoLeg
          /\ UNCHANGED <<legs, gone, callVars>>
       \/ /\ reader[r] \in LegIds
          /\ legs' = Release(legs, {reader[r]}) /\ FreeSegments({})
          /\ LET leg == legs[reader[r]]
             IN  \/ /\ UpdateIsDue(leg)
                    /\ pc' = "update" /\ new_graph' = (leg.update_required = 2)
                    /\ rebuild' = FALSE
                 \/ ~UpdateIsDue(leg) /\ UNCHANGED callVars
    /\ UNCHANGED <<routeVars, graphVars, path2, link_path, route_status,
                   traffic>>

-----------------------------------------------------------------------------
\* Lists of at most MaxDests different destinations.
DestLists ==
    {ds \in UNION {[1..n -> Dests] : n \in 0..MaxDests} :
        \A i, j \in DOMAIN ds : ds[i] = ds[j] => i = j}

UserCommand ==
    \/ \E ds \in DestLists, async \in BOOLEAN :
          \E count \in {Len(ds), MaxDests} : SetDestinations(ds, count, async)
    \/ \E d \in Dests, found, async \in BOOLEAN :
          AppendDestination(d, found, async)
    \/ \E n \in 1..MaxDests : RemoveNthWaypoint(n)
    \/ RemoveWaypoint

PositionFix ==
    \E p \in Fixes :
        \/ \E no_rebuild \in BOOLEAN : SetPosition(p, no_rebuild)
        \/ SetPositionFromTracking(p)

ReaderStep ==
    \E r \in Readers : OpenReader(r) \/ AdvanceReader(r) \/ CloseReader(r)

Next ==
    \/ UserCommand
    \/ PositionFix
    \/ ReaderStep
    \/ TrafficUpdate
    \/ BuildDone
    \/ UpdateDone

Spec == Init /\ [][Next]_vars

-----------------------------------------------------------------------------
(* Safety *)

Idle == pc = "idle"

\* A path that no reader has made wait for an update.
PathShown ==
    /\ Idle /\ route_status \in PathDone
    /\ path2 \in LegIds /\ legs[path2].update_required = 0

\* Once the status says the path is done, it has one leg for every remaining
\* destination, in order, the first one starting at the position: the legs
\* were computed from the last to the first by route_path_update_done, over
\* several floods, while destinations came and went and readers held legs.
FullItinerary ==
    PathShown =>
        \E leg \in [DOMAIN destinations -> LegIds] :
            /\ destinations # <<>> /\ path2 = leg[1]
            /\ \A i \in DOMAIN destinations :
                  /\ legs[leg[i]].to = destinations[i]
                  /\ legs[leg[i]].from = IF i = 1 THEN pos ELSE destinations[i - 1]
                  /\ legs[leg[i]].next = IF i = Len(destinations) THEN NoLeg
                                         ELSE leg[i + 1]

\* A path is shown only while the graph it was found in is complete, and the
\* graph is always flooded towards current_dst, which is still a destination:
\* route_path_new follows the graph towards the one and ends at the other.
FloodedForCurrentDestination ==
    /\ path2 # NoLeg => graph = "ready"
    /\ graph = "ready" =>
          /\ flooded.dst = current_dst
          /\ \E i \in DOMAIN destinations : destinations[i] = current_dst

\* current_dst is NULL or points into the list of destinations: it is set
\* again whenever the list changes, and a graph never outlives the list.
CurrentIsDestination ==
    /\ destinations # <<>> =>
          \E i \in DOMAIN destinations : destinations[i] = current_dst
    /\ graph # "none" => destinations # <<>>

\* route_path_update_done reads the position and the graph unchecked: whenever
\* an event or a reader's return leads to it, both are there.
UpdateIsDefined == pc = "update" /\ ~PathInUse => UpdateDefined

\* The users of a leg: the route, if it is in its path, and the readers on it.
Users(l) == Cardinality({r \in Readers : reader[r] = l})
            + (IF l \in Reach({path2}) THEN 1 ELSE 0)

\* in_use never counts less than the users of a leg, so the struct of a leg
\* (its count, its mark and its next) stays as long as anybody holds it.  The
\* segments do not: see UpdateSparesReaders.
CountsEveryUser == \A l \in LegIds : legs[l].in_use >= Users(l)

\* in_use never counts more than the users either: the last one frees the leg.
NoLegLeaks == \A l \in LegIds : legs[l].in_use <= Users(l)

\* route_path_update_done replaces and frees legs one by one while readers
\* hold any of them, and looks at the count of the first only: even so it
\* never takes the segments from under a reader.  Only new destinations and a
\* waypoint that is reached do that, which do not ask for in_use.
UpdateSparesReaders ==
    [][UpdateDone =>
          \A r \in Readers :
              reader[r] \in LegIds \ gone =>
                 reader[r] \notin gone' /\ legs'[reader[r]].in_use > 0]_vars

\* The path shown starts at the position.
PathStartsAtPosition == PathShown => legs[path2].from = pos

\* Every leg shown was computed with the current traffic.
TrafficIsReflected ==
    PathShown =>
        \A l \in Reach({path2}) : legs[l].traffic = traffic

-----------------------------------------------------------------------------
(* Liveness *)

\* The event loop runs idle events and returns from calls; every reader gets
\* to the end of the map rect and closes it.  The fairness of events is strong
\* because they wait for calls to return: pc = "update" disables them for the
\* length of another event, never for good.
Fairness ==
    /\ WF_vars(UpdateDone)
    /\ SF_vars(BuildDone)
    /\ \A r \in Readers : SF_vars(AdvanceReader(r) \/ CloseReader(r))

FairSpec == Spec /\ Fairness

\* With a position and a destination, routing comes to an end unless the user
\* takes the last destination away: a path is shown or none is found.
RoutingSettles ==
    pos # NoPos /\ destinations # <<>> ~>
        \/ Idle /\ route_status \in PathDone \cup {"not_found"}
        \/ destinations = <<>>

\* An update left for a reader is made when the path is no longer in use.
DeferredUpdateIsMade ==
    \A l \in LegIds :
        path2 = l /\ legs[l].update_required > 0 ~>
            ~(path2 = l /\ legs[l].update_required > 0)

=============================================================================
