---------------------------- MODULE Navigation ----------------------------
(***************************************************************************)
(* Guidance along a route: struct navigation of src/navit/navigation.c,    *)
(* together with the part of src/navit/route.c it calls and is called by.  *)
(*                                                                         *)
(* Each change of route.route_status calls navigation_update.  When a path *)
(* is done it opens a map rect on the path and reads the streets in idle   *)
(* events into a list; with the last one come the destination and the      *)
(* maneuvers.  When the path was only shortened, the list is kept and what *)
(* has been driven is dropped from it.                                     *)
(*                                                                         *)
(* An open map rect holds its leg of the path (in_use), and an update of   *)
(* a path in use is left to the one who closes the map rect: closing it    *)
(* calls route_path_update_done, which calls navigation_update, which may  *)
(* close and open map rects.  The calls nest, so the model has a stack of  *)
(* them: an action runs the call on top up to where it calls another.      *)
(* Events are taken when the stack is empty.                               *)
(*                                                                         *)
(* An idle event reads one street where the code reads up to 100.          *)
(***************************************************************************)
EXTENDS Integers, Sequences, FiniteSets, SequencesExt

CONSTANTS
    Ways,          \* the first leg: the streets from a position on
    WaysBetween,   \* the legs between destinations
    LegIds,        \* identities of struct route_path
    MaxDests,      \* bound: destinations in the list
    MaxEvents,     \* bound: things that happen to the route
    Arrival,       \* the item that stands for the destination, street = NULL
    NoLeg,         \* path2 = NULL, next = NULL
    FreedLeg,      \* a pointer to a leg that has been freed
    Closed         \* a map rect that is not open

Streets == UNION {Range(w) : w \in Ways \cup WaysBetween}

\* No way goes over a street twice.  The streets of a way that has no street
\* beside those of another are the end of it: both are the best way to the
\* same destination.
ASSUME NavigationAssumption ==
    /\ MaxDests \in Nat /\ MaxEvents \in Nat /\ IsFiniteSet(LegIds)
    /\ \A w \in Ways \cup WaysBetween :
         /\ w \in Seq(Streets) /\ w # <<>>
         /\ \A i, j \in DOMAIN w : w[i] = w[j] => i = j
    /\ Arrival \notin Streets
    /\ NoLeg \notin LegIds /\ FreedLeg \notin LegIds /\ Closed \notin LegIds
    /\ NoLeg # FreedLeg /\ Closed \notin {NoLeg, FreedLeg}
    /\ \A v \in Ways, w \in Ways \cup WaysBetween :
         Range(v) \subseteq Range(w) => IsSuffix(v, w)

VARIABLES
    destinations,   \* number of destinations
    current_dst,    \* the one the graph is flooded towards, counted from 1
    graph,          \* route.graph: "none", "busy" or "ready"
    legs,           \* every struct route_path
    path2,          \* route.path2
    link_path,      \* route.link_path
    route_status,   \* route.route_status
    async,          \* route_path_flag_async in route.flags
    drawn,          \* the map rect of the display list: the leg it is on
    route_mr,       \* navigation.route_mr: the leg and the next street of it
    busy,           \* status_busy in status_int
    has_sitem,      \* status_has_sitem in status_int
    idle_ev,        \* navigation.idle_ev # NULL
    idle_events,    \* the idle events that call navigation_update_idle
    itms,           \* navigation.first and what follows
    nav_status,     \* navigation.nav_status
    stack,          \* the calls that have not returned, the last on top
    overtaken,      \* history: an update ran inside the callbacks of another
    events          \* the things that have happened to the route

routeVars == <<destinations, current_dst, graph, legs, path2, link_path,
               async>>
jobVars == <<route_mr, busy, has_sitem, idle_ev, idle_events>>
listVars == <<itms, nav_status>>
vars == <<routeVars, jobVars, route_status, drawn, listVars, stack,
          overtaken, events>>

PathDone == {"path_done_new", "path_done_incremental"}
RouteStatus == {"no_destination", "destination_set", "not_found",
                "building_path", "building_graph"} \cup PathDone
NavStatus == {"no_route", "no_destination", "position_wait", "calculating",
              "recalculating", "routing"}

FreeLeg == [way |-> <<>>, live |-> FALSE, in_use |-> 0, update_required |-> 0,
            next |-> NoLeg]
Rects == [leg : LegIds \cup {NoLeg, FreedLeg, Closed}, at : Nat]
NoRect == [leg |-> Closed, at |-> 0]

\* The calls.  status: of navigation_update; new_graph: of
\* route_path_update_done; oldpath: its local variable; rebuild: whether
\* route_path_update_flags goes on to build the graph.
Calls ==
    [call : {"navigation_update"}, status : RouteStatus]
    \cup [call : {"navigation_open", "navigation_read"}]
    \cup [call : {"update_done"}, new_graph : BOOLEAN]
    \cup [call : {"path_new"}, new_graph : BOOLEAN,
          oldpath : LegIds \cup {NoLeg}]
    \cup [call : {"update_flags"}, rebuild : BOOLEAN]
    \cup [call : {"set_destinations", "graph_update", "recalculated"}]

\* Type correctness: among the rest, a leg is in use by the route and its two
\* readers at most, and the stack holds calls the code can make.
TypeOK ==
    /\ destinations \in 0..MaxDests
    /\ current_dst \in 0..MaxDests
    /\ graph \in {"none", "busy", "ready"}
    /\ DOMAIN legs = LegIds
    /\ \A l \in LegIds :
         /\ legs[l].way \in Ways \cup WaysBetween \cup {<<>>}
         /\ legs[l].live \in BOOLEAN
         /\ legs[l].in_use \in 0..3
         /\ legs[l].update_required \in 0..2
         /\ legs[l].next \in LegIds \cup {NoLeg, FreedLeg}
    /\ path2 \in LegIds \cup {NoLeg, FreedLeg}
    /\ link_path \in BOOLEAN /\ async \in BOOLEAN
    /\ route_status \in RouteStatus
    /\ drawn \in LegIds \cup {NoLeg, Closed}
    /\ route_mr \in Rects
    /\ busy \in BOOLEAN /\ has_sitem \in BOOLEAN
    /\ idle_ev \in BOOLEAN /\ idle_events \in Nat
    /\ itms \in Seq(Streets \cup {Arrival})
    /\ nav_status \in NavStatus
    /\ \A i \in DOMAIN stack : stack[i] \in Calls
    /\ overtaken \in BOOLEAN
    /\ events \in 0..MaxEvents

Init ==
    /\ destinations = 0 /\ current_dst = 0
    /\ graph = "none"
    /\ legs = [l \in LegIds |-> FreeLeg] /\ path2 = NoLeg
    /\ link_path = FALSE /\ async = TRUE
    /\ route_status = "no_destination"
    /\ drawn = Closed
    /\ route_mr = NoRect /\ busy = FALSE /\ has_sitem = FALSE
    /\ idle_ev = FALSE /\ idle_events = 0
    /\ itms = <<>> /\ nav_status = "no_destination"
    /\ stack = <<>> /\ overtaken = FALSE /\ events = 0

-----------------------------------------------------------------------------
(* Calls *)

Running(call) == stack # <<>> /\ Last(stack).call = call
Caller == Front(stack)
Then(s, call) == Append(s, [call |-> call])
UpdateDoneCall(new_graph) == [call |-> "update_done", new_graph |-> new_graph]

\* route_set_attr(route_status), which calls back only when it has changed
Set(status, s) ==
    /\ route_status' = status
    /\ stack' = IF status = route_status THEN s
                ELSE Append(s, [call |-> "navigation_update",
                                status |-> status])

-----------------------------------------------------------------------------
(* Legs *)

\* The legs that can be reached from the pointers in S through next: they are
\* in every set of legs that has those in S and leads to no other.
Encloses(T, S) ==
    /\ S \cap LegIds \subseteq T
    /\ \A l \in T : legs[l].next \in LegIds => legs[l].next \in T
Following(S) ==
    LET enclosing == {T \in SUBSET LegIds : Encloses(T, S)}
    IN  {l \in LegIds : \A T \in enclosing : l \in T}

\* The legs nobody has a pointer to: not in use, or leaked.
UnusedLegs ==
    LegIds \ Following({path2, drawn, route_mr.leg}
                      \cup {stack[i].oldpath : i \in {j \in DOMAIN stack :
                                     stack[j].call = "path_new"}})

\* in_use-- for the legs in S.  The ones that reach zero are freed.
Release(ls, S) ==
    LET F == {l \in S \cap LegIds : ls[l].in_use <= 1}
    IN  [l \in LegIds |->
           IF l \in F THEN FreeLeg
           ELSE [ls[l] EXCEPT
                   !.in_use = IF l \in S THEN @ - 1 ELSE @,
                   !.next = IF @ \in F THEN FreedLeg ELSE @]]

\* route_path_destroy: the segments are freed, whoever reads them.
Destroyed(S) ==
    Release([l \in LegIds |-> IF l \in S THEN [legs[l] EXCEPT !.live = FALSE]
                              ELSE legs[l]], S)

DestroyPath == legs' = Destroyed(Following({path2})) /\ path2' = NoLeg

\* rm_rect_new
Held(leg) ==
    IF leg \in LegIds THEN [legs EXCEPT ![leg].in_use = @ + 1] ELSE legs

UncountedClose(leg, s) ==       \* an error: in_use is not decremented
    UNCHANGED legs /\ stack' = s

\* rm_rect_destroy, called with s to return to: the last reader makes the
\* update that was left for it.
CloseRect(leg, s) ==
    /\ legs' = Release(legs, {leg})
    /\ stack' = IF /\ leg \in LegIds
                   /\ legs[leg].update_required # 0 /\ legs[leg].in_use = 2
                   /\ route_status \notin {"no_destination", "destination_set"}
                THEN Append(s, UpdateDoneCall(legs[leg].update_required = 2))
                ELSE s

-----------------------------------------------------------------------------
(* route.c *)

PathInUse == path2 \in LegIds /\ legs[path2].in_use > 1

\* route_path_update_done, up to the callbacks of building_path
UpdateDone ==
    /\ Running("update_done")
    /\ LET new_graph == Last(stack).new_graph
       IN  \/ /\ PathInUse
              /\ legs' = [legs EXCEPT ![path2].update_required =
                                          IF new_graph THEN 2 ELSE 1]
              /\ stack' = Caller
              /\ UNCHANGED route_status
           \/ /\ ~PathInUse
              /\ Set("building_path",
                     Append(Caller, [call |-> "path_new",
                                     new_graph |-> new_graph,
                                     oldpath |-> path2]))
              /\ UNCHANGED legs
    /\ UNCHANGED <<destinations, current_dst, graph, path2, link_path, async,
                   jobVars, drawn, listVars, overtaken, events>>

\* All streets of way were on the old path: the path has only been updated.
UpdatedAlways(way, oldpath) == TRUE     \* an error: new streets do not count
UpdatedFrom(way, oldpath) ==
    /\ ~link_path /\ oldpath # NoLeg
    /\ Range(way) \subseteq Range(legs[oldpath].way)

\* What the rest of route_path_update_done takes for granted: callbacks have
\* not freed the old path, and there is a graph.  Neither always holds when
\* two readers held the path; what happens then is left open.
UpdateDefined ==
    /\ graph # "none"
    /\ LET oldpath == Last(stack).oldpath
       IN  oldpath # NoLeg => oldpath \in LegIds /\ legs[oldpath].in_use > 0

\* A route goes over each street once: the list of maneuvers knows one item
\* for each (item_hash_insert).
StreetsFrom(p) == UNION {Range(legs[l].way) : l \in Following({p})}
Joins(way, next) == Range(way) \cap StreetsFrom(next) = {}

\* The rest of route_path_update_done.  route_path_new finds no leg in a
\* graph that is not ready, nor when no street leads to the destination.
PathFound ==
    /\ Running("path_new") /\ UpdateDefined /\ graph = "ready"
    /\ UnusedLegs # {}
    /\ LET c == Last(stack)
           l == CHOOSE unused \in UnusedLegs : TRUE
           next == IF link_path THEN c.oldpath
                   ELSE IF c.oldpath = NoLeg THEN NoLeg ELSE legs[c.oldpath].next
       IN  \E way \in IF current_dst > 1 THEN WaysBetween ELSE Ways :
             LET leg == [way |-> way, live |-> TRUE, in_use |-> 1,
                         update_required |-> 0, next |-> next]
                 ls == IF link_path THEN legs ELSE Destroyed({c.oldpath})
             IN  /\ Joins(way, next)
                 /\ legs' = [ls EXCEPT ![l] = leg] /\ path2' = l
                 /\ \/ /\ current_dst > 1
                       /\ link_path' = TRUE
                       /\ current_dst' = current_dst - 1
                       /\ stack' = Append(Caller, UpdateDoneCall(TRUE))
                       /\ UNCHANGED route_status
                    \/ /\ current_dst <= 1
                       /\ link_path' = FALSE
                       /\ Set(IF ~c.new_graph /\ UpdatedFrom(way, c.oldpath)
                              THEN "path_done_incremental" ELSE "path_done_new",
                              Caller)
                       /\ UNCHANGED current_dst
    /\ UNCHANGED <<destinations, graph, async, jobVars, drawn, listVars,
                   events>>
    /\ overtaken' = (overtaken \/ Last(stack).oldpath # path2)

PathNotFound ==
    /\ Running("path_new") /\ UpdateDefined
    /\ legs' = IF link_path THEN Destroyed({Last(stack).oldpath}) ELSE legs
    /\ path2' = NoLeg /\ link_path' = FALSE
    /\ Set("not_found", Caller)
    /\ UNCHANGED <<destinations, current_dst, graph, async, jobVars, drawn,
                   listVars, events>>
    /\ overtaken' = (overtaken \/ Last(stack).oldpath # path2)

\* route_path_update_flags, after route_path_update_done has returned
UpdateFlags ==
    /\ Running("update_flags")
    /\ \/ /\ path2 = NoLeg /\ Last(stack).rebuild
          /\ graph' = "none"
          /\ Set("building_graph", Then(Caller, "graph_update"))
       \/ /\ path2 # NoLeg \/ ~Last(stack).rebuild
          /\ stack' = Caller
          /\ UNCHANGED <<graph, route_status>>
    /\ UNCHANGED <<destinations, current_dst, legs, path2, link_path, async,
                   jobVars, drawn, listVars, overtaken, events>>

\* route_graph_update, after the callbacks of building_graph
GraphUpdate ==
    /\ Running("graph_update")
    /\ \/ async /\ graph' = "busy" /\ stack' = Caller
       \/ /\ ~async /\ graph' = "ready"
          /\ stack' = Append(Caller, UpdateDoneCall(TRUE))
    /\ UNCHANGED <<destinations, current_dst, legs, path2, link_path, async,
                   jobVars, route_status, drawn, listVars, overtaken, events>>

\* route_path_update with cancel, for destinations that will be n
PathUpdateCancel(n, s) ==
    /\ DestroyPath
    /\ graph' = "none"
    /\ \/ n = 0 /\ stack' = s /\ UNCHANGED route_status
       \/ n > 0 /\ Set("building_graph", Then(s, "graph_update"))

\* route_set_destinations, after the callbacks of its status
DestinationsSet ==
    /\ Running("set_destinations")
    /\ PathUpdateCancel(destinations, Caller)
    /\ UNCHANGED <<destinations, current_dst, link_path, async, jobVars, drawn,
                   listVars, overtaken, events>>

\* route_recalculate_partial, after the callbacks of building_graph
Recalculated ==
    /\ Running("recalculated")
    /\ stack' = Append(Caller, UpdateDoneCall(FALSE))
    /\ UNCHANGED <<routeVars, jobVars, route_status, drawn, listVars,
                   overtaken, events>>

-----------------------------------------------------------------------------
(* navigation.c *)

IdleEventLeft(s) ==             \* an error: the idle event is not removed
    /\ CloseRect(route_mr.leg, s)
    /\ route_mr' = NoRect /\ busy' = FALSE /\ has_sitem' = FALSE
    /\ idle_ev' = FALSE /\ UNCHANGED idle_events

\* navigation_update_done with s to return to
EndJob(s) ==
    /\ CloseRect(route_mr.leg, s)
    /\ route_mr' = NoRect /\ busy' = FALSE /\ has_sitem' = FALSE
    /\ idle_ev' = FALSE
    /\ idle_events' = IF idle_ev THEN idle_events - 1 ELSE idle_events

\* The navigation status that goes with a route status
Shown(status) ==
    CASE status = "not_found" -> "no_route"
      [] status = "no_destination" -> "no_destination"
      [] status = "destination_set" -> "position_wait"
      [] OTHER -> IF nav_status \in {"recalculating", "routing"}
                  THEN "recalculating" ELSE "calculating"

Flushing == {"no_destination", "not_found", "path_done_new"}

EndsJob(status) == status \notin PathDone

NavigationUpdate ==
    /\ Running("navigation_update")
    /\ LET status == Last(stack).status
       IN  /\ nav_status' = Shown(status)
           /\ itms' = IF status \in Flushing THEN <<>> ELSE itms
           /\ \/ /\ status \notin PathDone
                 /\ \/ busy /\ EndsJob(status) /\ EndJob(Caller)
                    \/ /\ ~(busy /\ EndsJob(status))
                       /\ stack' = Caller
                       /\ UNCHANGED <<legs, jobVars>>
              \/ /\ status \in PathDone
                 /\ CloseRect(route_mr.leg, Then(Caller, "navigation_open"))
                 /\ route_mr' = NoRect
                 /\ UNCHANGED <<busy, has_sitem, idle_ev, idle_events>>
    /\ UNCHANGED <<destinations, current_dst, graph, path2, link_path, async,
                   route_status, drawn, overtaken, events>>

\* navigation_update, after the old map rect has been closed
NavigationOpen ==
    /\ Running("navigation_open")
    /\ legs' = Held(path2) /\ route_mr' = [leg |-> path2, at |-> 1]
    /\ busy' = TRUE /\ has_sitem' = FALSE
    /\ idle_ev' = async
    /\ idle_events' = IF async THEN idle_events + 1 ELSE idle_events
    /\ stack' = IF async THEN Caller ELSE Then(Caller, "navigation_read")
    /\ UNCHANGED <<destinations, current_dst, graph, path2, link_path, async,
                   route_status, drawn, listVars, overtaken, events>>

\* Where the map rect reads next: rm_get_item goes on to the next leg.
AtEndOfLeg == route_mr.leg \in LegIds
              /\ route_mr.at > Len(legs[route_mr.leg].way)
NextRead == IF AtEndOfLeg /\ legs[route_mr.leg].next # NoLeg
            THEN [leg |-> legs[route_mr.leg].next, at |-> 1]
            ELSE route_mr

AtEndOfPath == route_mr.leg = NoLeg \/ (AtEndOfLeg /\ NextRead = route_mr)

OnFirst(street) ==              \* an error: only the first item is looked at
    itms # <<>> /\ itms[1] = street

\* item_hash_lookup: the item for a street, in the same direction
Found(street) == street \in Range(itms)

\* The list from the item of a street on
From(street) ==
    SubSeq(itms, CHOOSE i \in DOMAIN itms : itms[i] = street, Len(itms))

OnlyStreets == itms             \* an error: status_has_ritem is not cleared

\* The list when the last street has been read
Completed == IF has_sitem THEN Append(itms, Arrival) ELSE <<>>

NoGraph == graph = "none"

\* navigation_update_idle with s to return to
ReadNoGraph(s) == NoGraph /\ EndJob(s) /\ UNCHANGED listVars

ReadEnd(s) ==
    /\ ~NoGraph
    /\ AtEndOfPath
    /\ itms' = Completed
    /\ nav_status' = "routing"
    /\ EndJob(s)

ReadStreet(s) ==
    /\ ~NoGraph /\ NextRead.leg \in LegIds
    /\ NextRead.at <= Len(legs[NextRead.leg].way)
    /\ LET street == legs[NextRead.leg].way[NextRead.at]
       IN  \/ /\ ~has_sitem /\ Found(street)
              /\ itms' = From(street)
              /\ nav_status' = "routing"
              /\ EndJob(s)
           \/ /\ has_sitem \/ ~Found(street)
              /\ itms' = Append(IF has_sitem THEN itms ELSE <<>>, street)
              /\ route_mr' = [NextRead EXCEPT !.at = @ + 1]
              /\ legs' = IF NextRead.leg = route_mr.leg THEN legs
                         ELSE Release(Held(NextRead.leg), {route_mr.leg})
              /\ has_sitem' = TRUE
              /\ stack' = s
              /\ UNCHANGED <<busy, idle_ev, idle_events, nav_status>>

UpdateIdle(s) ==
    /\ ReadNoGraph(s) \/ ReadEnd(s) \/ ReadStreet(s)
    /\ UNCHANGED <<destinations, current_dst, graph, path2, link_path, async,
                   route_status, drawn, overtaken, events>>

\* The loop of a route that is not asynchronous
NavigationRead ==
    /\ Running("navigation_read")
    /\ \/ busy /\ UpdateIdle(stack)
       \/ /\ ~busy /\ stack' = Caller
          /\ UNCHANGED <<routeVars, jobVars, route_status, drawn, listVars,
                         overtaken, events>>

NavigationIdle == stack = <<>> /\ idle_events > 0 /\ UpdateIdle(<<>>)

-----------------------------------------------------------------------------
(* Events *)

Happens == stack = <<>> /\ events < MaxEvents /\ events' = events + 1

\* The graph is complete and flooded.
GraphBuilt ==
    /\ stack = <<>> /\ graph = "busy"
    /\ graph' = "ready"
    /\ stack' = <<UpdateDoneCall(TRUE)>>
    /\ UNCHANGED <<destinations, current_dst, legs, path2, link_path, async,
                   jobVars, route_status, drawn, listVars, overtaken, events>>

\* route_set_destinations: count were asked for, n have a street near them.
SetDestinations(count, n, a) ==
    /\ Happens
    /\ destinations' = n /\ current_dst' = n /\ async' = a
    /\ Set(IF count = 0 THEN "no_destination" ELSE "destination_set",
           Then(<<>>, "set_destinations"))
    /\ UNCHANGED <<graph, legs, path2, link_path, jobVars, drawn, listVars,
                   overtaken>>

\* route_append_destination, near a street, to a list that is not empty
AppendDestination(a) ==
    /\ Happens
    /\ destinations \in 1..MaxDests - 1
    /\ destinations' = destinations + 1 /\ current_dst' = destinations'
    /\ async' = a
    /\ PathUpdateCancel(destinations', <<>>)
    /\ UNCHANGED <<link_path, jobVars, drawn, listVars, overtaken>>

\* route_remove_nth_waypoint, called when it is not the only one
RemoveNthWaypoint ==
    /\ Happens
    /\ destinations > 1
    /\ destinations' = destinations - 1 /\ current_dst' = destinations'
    /\ async' = TRUE
    /\ PathUpdateCancel(destinations', <<>>)
    /\ UNCHANGED <<link_path, jobVars, drawn, listVars, overtaken>>

\* route_remove_waypoint, called when the first destination is not the last
RemoveWaypoint ==
    /\ Happens
    /\ destinations > 1 /\ path2 \in LegIds /\ graph # "none"
    /\ destinations' = destinations - 1 /\ current_dst' = 1
    /\ legs' = Destroyed({path2}) /\ path2' = legs[path2].next
    /\ stack' = <<UpdateDoneCall(TRUE)>>
    /\ UNCHANGED <<graph, link_path, async, route_status, jobVars, drawn,
                   listVars, overtaken>>

\* A new position: route_path_update_flags
SetPosition(a, rebuild) ==
    /\ Happens
    /\ destinations > 0
    /\ async' = a
    /\ stack' = IF graph = "ready"
                THEN <<[call |-> "update_flags", rebuild |-> rebuild],
                       UpdateDoneCall(FALSE)>>
                ELSE <<>>
    /\ UNCHANGED <<destinations, current_dst, graph, legs, path2, link_path,
                   jobVars, route_status, drawn, listVars, overtaken>>

\* route_recalculate_partial, when traffic has changed the costs
Recalculate ==
    /\ Happens
    /\ graph = "ready"
    /\ Set("building_graph", Then(<<>>, "recalculated"))
    /\ UNCHANGED <<routeVars, jobVars, drawn, listVars, overtaken>>

\* The display list reads the path, too.
Draw ==
    /\ Happens /\ drawn = Closed
    /\ drawn' = path2 /\ legs' = Held(path2)
    /\ UNCHANGED <<destinations, current_dst, graph, path2, link_path, async,
                   jobVars, route_status, listVars, stack, overtaken>>

DrawNextLeg ==
    /\ stack = <<>> /\ drawn \in LegIds /\ legs[drawn].next \in LegIds
    /\ drawn' = legs[drawn].next
    /\ legs' = Release(Held(legs[drawn].next), {drawn})
    /\ UNCHANGED <<destinations, current_dst, graph, path2, link_path, async,
                   jobVars, route_status, listVars, stack, overtaken, events>>

Drawn ==
    /\ stack = <<>> /\ drawn # Closed
    /\ drawn' = Closed /\ CloseRect(drawn, <<>>)
    /\ UNCHANGED <<destinations, current_dst, graph, path2, link_path, async,
                   jobVars, route_status, listVars, overtaken, events>>

-----------------------------------------------------------------------------
RouteCall == UpdateDone \/ PathFound \/ PathNotFound \/ UpdateFlags
             \/ GraphUpdate \/ DestinationsSet \/ Recalculated
NavigationCall == NavigationUpdate \/ NavigationOpen \/ NavigationRead

Next ==
    \/ RouteCall \/ NavigationCall \/ NavigationIdle \/ GraphBuilt
    \/ \E count \in 0..MaxDests, n \in 0..MaxDests, a \in BOOLEAN :
          n <= count /\ SetDestinations(count, n, a)
    \/ \E a \in BOOLEAN : AppendDestination(a)
    \/ RemoveNthWaypoint \/ RemoveWaypoint
    \/ \E a \in BOOLEAN, rebuild \in BOOLEAN : SetPosition(a, rebuild)
    \/ Recalculate \/ Draw \/ DrawNextLeg \/ Drawn

\* Calls return; the event loop runs idle events.
Fairness ==
    /\ WF_vars(RouteCall \/ NavigationCall)
    /\ WF_vars(NavigationIdle) /\ WF_vars(GraphBuilt)

Spec == Init /\ [][Next]_vars /\ Fairness

-----------------------------------------------------------------------------
(* Properties *)

AtRest == stack = <<>>

\* An update of the path has been left for the reader that returns last.
UpdateDue == path2 \in LegIds /\ legs[path2].update_required # 0

\* The streets of the path and of the legs after it, and the destination
Itinerary ==
    LET I[n \in 0..Cardinality(LegIds)] ==
            [l \in LegIds \cup {NoLeg, FreedLeg} |->
                IF l \notin LegIds \/ n = 0 THEN <<Arrival>>
                ELSE legs[l].way \o I[n - 1][legs[l].next]]
    IN  I[Cardinality(LegIds)][path2]

Whole(list) == list # <<>> /\ Last(list) = Arrival

\* The job, the map rect it reads and the idle event that reads on come and
\* go together, however deep the calls nest that end one job and start the
\* next: no idle event is left behind, none runs on a closed map rect.
OneJob ==
    /\ idle_events = IF idle_ev THEN 1 ELSE 0
    /\ AtRest => busy = (route_mr # NoRect) /\ busy = idle_ev

\* Whenever the route is settled, a list of maneuvers that leads up to the
\* destination is the one for the path of the route, street by street, over
\* all positions, detours and destinations since it was begun.
GuidanceFollowsRoute ==
    AtRest /\ ~busy /\ route_status \in PathDone /\ ~UpdateDue /\ ~overtaken
        /\ Whole(itms) => itms = Itinerary

\* Driving on does not take the maneuvers away: only a new path, or that
\* there is none, does.  (After an update inside the callbacks of another, the
\* list may be that of a path that has been replaced.)
ManeuversStay ==
    [][~overtaken /\ Whole(itms) /\ ~Whole(itms') =>
          Running("navigation_update") /\ Last(stack).status \in Flushing]_vars

\* A new path gets maneuvers up to its destination, unless something happens
\* to the route before.
NewPathGetsManeuvers ==
    route_status = "path_done_new" ~>
        \/ Whole(itms) \/ route_status # "path_done_new"
        \/ Running("path_new") /\ ~UpdateDefined

\* "It is called whenever the status of the route changes and will either
\* discard the current list of maneuvers or build a new list" (comment on
\* navigation_update): when the route is settled, the list is whole or empty.
NoPartOfAList ==
    AtRest /\ ~busy /\ route_status \in PathDone /\ ~UpdateDue =>
        itms = <<>> \/ Whole(itms)
=============================================================================
