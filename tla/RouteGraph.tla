----------------------------- MODULE RouteGraph -----------------------------
(***************************************************************************)
(* The route graph of src/navit/route.c: points joined by segments, and    *)
(* the modified LPA* that gives every point the cost of the cheapest way   *)
(* to the destination (value), a one-step lookahead (rhs) and the segment  *)
(* to take (seg).  A point whose value differs from its rhs is on the      *)
(* Fibonacci heap.  The traffic module adds, changes and removes           *)
(* distortions, which are segments of a type of their own beside the       *)
(* street; the points they touch are updated and the rest of the graph     *)
(* follows in a partial recalculation.                                     *)
(*                                                                         *)
(* One pass of the loop of route_graph_compute_shortest_path is an         *)
(* extraction followed by one step for every neighbour, in any order: the  *)
(* code takes them in the order of the lists of segments, which is the     *)
(* map's.  Turn restrictions and the penalty for through traffic are left  *)
(* out.                                                                    *)
(***************************************************************************)
EXTENDS Integers, Sequences, FiniteSets, FiniteSetsExt

CONSTANTS
    Points,       \* struct route_graph_point
    Segments,     \* struct route_graph_segment, distortions apart
    Item,         \* the street a segment is a part of
    From, To,     \* the ends of a segment: [Segments -> Points]
    Time,         \* [Segments \X Points -> Costs]: the time to leave a point
                  \* over a segment, Inf against a one-way street, never 0
    Penalty2,     \* turn_around_penalty2 of the vehicle profile
    Dests,        \* the destinations, each with the segments segs that
                  \* route_graph_get_segment finds, and percent
    Distortions,  \* items of type_traffic_distortion, each with its
    DFrom, DTo,   \* ends [Distortions -> Points] and
    OneWay,       \* direction [Distortions -> BOOLEAN]
    Delays,       \* bound: the delays reported, Inf for a closed road
    Inf,          \* INT_MAX
    NoSeg,        \* NULL
    NoKey,        \* el = NULL
    NoChange,     \* no change of a distortion is half done
    NoDest        \* the graph has not been flooded

Costs == 0..Inf

ASSUME GraphAssumption ==
    /\ Inf \in Nat \ {0}
    /\ From \in [Segments -> Points] /\ To \in [Segments -> Points]
    /\ Time \in [Segments \X Points -> Costs \ {0}]
    /\ DOMAIN Item = Segments
    /\ Penalty2 \in Nat
    /\ Dests \subseteq [segs : SUBSET Segments, percent : 0..100]
    /\ DFrom \in [Distortions -> Points] /\ DTo \in [Distortions -> Points]
    /\ OneWay \in [Distortions -> BOOLEAN]
    /\ Delays \subseteq Costs \ {0}
    /\ NoSeg \notin Segments /\ NoKey \notin Nat /\ NoDest \notin Dests
    /\ IsFiniteSet(Segments) /\ IsFiniteSet(Points)

VARIABLES
    value, rhs, seg,   \* of each point
    dst_val, dst_seg,  \* of each point
    el,        \* the key of the heap element a point knows of
    lost,      \* the keys of the heap elements of a point that it has forgotten
    flag,      \* RP_TRAFFIC_DISTORTION of each point
    delay,     \* the distortions in the graph, 0 for one that is not
    dst,       \* the destination the graph is flooded towards
    computing, \* route_graph_compute_shortest_path is running
    todo,      \* the points that are still to be updated
    readd      \* the distortion to be added again once removed

pointVars == <<value, rhs, seg, dst_val, dst_seg, el, lost>>
distortionVars == <<flag, delay>>
vars == <<pointVars, distortionVars, dst, computing, todo, readd>>

TypeOK ==
    /\ value \in [Points -> Costs] /\ rhs \in [Points -> Costs]
    /\ dst_val \in [Points -> Costs]
    /\ seg \in [Points -> Segments \cup {NoSeg}]
    /\ dst_seg \in [Points -> Segments \cup {NoSeg}]
    /\ el \in [Points -> Costs \cup {NoKey}]
    /\ lost \in [Points -> SUBSET Costs]
    /\ flag \in [Points -> BOOLEAN]
    /\ delay \in [Distortions -> Delays \cup {0}]
    /\ dst \in Dests \cup {NoDest}
    /\ computing \in BOOLEAN
    /\ todo \subseteq Points
    /\ readd \in [item : Distortions, delay : Delays] \cup {NoChange}

-----------------------------------------------------------------------------
(* Costs *)

\* Capped at Inf: the code takes sums of costs never to reach INT_MAX.
Plus(a, b) == IF a = Inf \/ b = Inf \/ a + b > Inf THEN Inf ELSE a + b

Lesser(a, b) == IF a < b THEN a ELSE b

SegsAt(p) == {s \in Segments : From[s] = p \/ To[s] = p}
Other(s, p) == IF From[s] = p THEN To[s] ELSE From[s]
Loop(s) == From[s] = To[s]

\* The distortions reported for leaving p over s; they match a segment with
\* the same ends.
Matching(s, p) ==
    {d \in Distortions :
        /\ delay[d] # 0
        /\ \/ DFrom[d] = p /\ DTo[d] = Other(s, p)
           \/ ~OneWay[d] /\ DTo[d] = p /\ DFrom[d] = Other(s, p)}

\* The greatest delay counts.
Distortion(s, p) == Max({0} \cup {delay[d] : d \in Matching(s, p)})

\* route_value_seg of s leaving p: distortions are looked for only when both
\* ends are flagged.
Cost(s, p) ==
    IF flag[From[s]] /\ flag[To[s]] THEN Plus(Time[<<s, p>>], Distortion(s, p))
    ELSE Time[<<s, p>>]

\* The way on from q, the far end of s, goes over a segment of the same street.
SameStreet(s, q) == seg[q] # NoSeg /\ Item[seg[q]] = Item[s]

\* The cost of reaching the destination from p over s: not by turning round
\* on s, not over a street that ends where it starts, and with a penalty, if
\* there is one, over two segments of a street.
CostVia(s, p, val) ==
    LET q == Other(s, p) IN
    IF Loop(s) \/ seg[q] = s \/ (SameStreet(s, q) /\ Penalty2 = 0) THEN Inf
    ELSE Plus(Plus(Cost(s, p), IF SameStreet(s, q) THEN Penalty2 ELSE 0), val[q])

Lookahead(p, val) ==
    Min({dst_val[p]} \cup {CostVia(s, p, val) : s \in SegsAt(p)})

\* A way on must be cheaper than ending the route here, and cheaper over a
\* segment that leads to p than over any that leads away from it.
AnyWayOn(p, val) ==               \* an error: seg is set for every way on
    IF Lookahead(p, val) = dst_val[p] THEN {dst_seg[p]}
    ELSE {s \in SegsAt(p) : CostVia(s, p, val) # Inf}
BestSegs(p, val) ==
    LET best == {s \in SegsAt(p) : CostVia(s, p, val) = Lookahead(p, val)}
        away == {s \in best : From[s] = p}
    IN  IF Lookahead(p, val) = dst_val[p] THEN {dst_seg[p]}
        ELSE IF away # {} THEN away ELSE best

\* A point stays on the heap exactly while it is locally inconsistent.
KeyIfCheaper(new, val) ==         \* an error: only when the cost has fallen
    IF new < val THEN new ELSE NoKey
Key(new, val) == IF new # val THEN Lesser(new, val) ELSE NoKey

\* route_graph_point_update, when the values of the points are val.
PointUpdate(p, val) ==
    /\ rhs' = [rhs EXCEPT ![p] = Lookahead(p, val)]
    /\ \E s \in BestSegs(p, val) : seg' = [seg EXCEPT ![p] = s]
    /\ el' = [el EXCEPT ![p] = Key(Lookahead(p, val), val[p])]

\* The points that are one passable segment away from p towards it.
SuccessorsOnly(p) ==              \* an error: the wrong direction
    {Other(s, p) : s \in {x \in SegsAt(p) : ~Loop(x) /\ Time[<<x, p>>] # Inf}}
Predecessors(p) ==
    {Other(s, p) : s \in {x \in SegsAt(p) :
                             ~Loop(x) /\ Time[<<x, Other(x, p)>>] # Inf}}

-----------------------------------------------------------------------------
(* Starting from a destination *)

\* Every point at Inf, at zero, or without a segment or an element.
All(v) == [p \in Points |-> v]

Part(cost, percent) == (cost * percent) \div 100

\* What route_graph_init offers a point of the destination's street: the cost
\* of going on from it over s, for the destination's share of the segment.
Offers(d) ==
    {[pt |-> To[s], seg |-> s, start |-> FALSE,
      val |-> Part(Cost(s, To[s]), 100 - d.percent)] :
        s \in {x \in d.segs : Cost(x, To[x]) # Inf}}
    \cup
    {[pt |-> From[s], seg |-> s, start |-> TRUE,
      val |-> Part(Cost(s, From[s]), d.percent)] :
        s \in {x \in d.segs : Cost(x, From[x]) # Inf}}

Offered(d) == {o.pt : o \in Offers(d)}

\* The last offer a point gets stays, that to the start coming after that to
\* the end.  Every offer puts the point on the heap, and the point forgets the
\* elements of the others.  old: rhs and seg of the points before.
InitDest(d, oldRhs, oldSeg) ==
    \E last \in [Offered(d) -> Offers(d)] :
        /\ \A p \in Offered(d) :
               /\ last[p].pt = p
               /\ Loop(last[p].seg) => last[p].start
        /\ dst_val' = [p \in Points |->
                          IF p \in Offered(d) THEN last[p].val ELSE Inf]
        /\ dst_seg' = [p \in Points |->
                          IF p \in Offered(d) THEN last[p].seg ELSE NoSeg]
        /\ rhs' = [p \in Points |->
                      IF p \in Offered(d) THEN last[p].val ELSE oldRhs[p]]
        /\ seg' = [p \in Points |->
                      IF p \in Offered(d) THEN last[p].seg ELSE oldSeg[p]]
        /\ el' = [p \in Points |->
                      IF p \in Offered(d) THEN last[p].val ELSE NoKey]
        /\ lost' = [p \in Points |->
                       {o.val : o \in {x \in Offers(d) :
                                          x.pt = p /\ x # last[p]}}]
        /\ value' = All(Inf)
        /\ dst' = d /\ computing' = TRUE

Idle == ~computing /\ todo = {} /\ readd = NoChange

\* The flags of a graph built with the distortions that there are.
FlagsOf ==
    [p \in Points |-> \E d \in Distortions :
                          delay[d] # 0 /\ p \in {DFrom[d], DTo[d]}]

\* A new graph: route_graph_point_new leaves rhs at zero.
Init ==
    /\ delay \in [Distortions -> Delays \cup {0}]
    /\ flag = FlagsOf
    /\ value = All(Inf) /\ rhs = All(0) /\ seg = All(NoSeg)
    /\ dst_val = All(Inf) /\ dst_seg = All(NoSeg)
    /\ el = All(NoKey) /\ lost = All({})
    /\ dst = NoDest
    /\ computing = FALSE /\ todo = {} /\ readd = NoChange

\* route_graph_build, from the map and the distortions of the traffic map;
\* distortions may change before the graph is complete.
Build ==
    /\ Idle
    /\ flag' = FlagsOf
    /\ value' = All(Inf) /\ rhs' = All(0) /\ seg' = All(NoSeg)
    /\ dst_val' = All(Inf) /\ dst_seg' = All(NoSeg)
    /\ el' = All(NoKey) /\ lost' = All({})
    /\ dst' = NoDest
    /\ UNCHANGED <<delay, computing, todo, readd>>

\* route_graph_update_done: the new graph is flooded.
FirstFlood(d) ==
    /\ Idle /\ dst = NoDest
    /\ InitDest(d, rhs, seg)
    /\ UNCHANGED <<distortionVars, todo, readd>>

\* route_graph_reset, route_graph_init and the computation for another, or the
\* same, destination.
Reflood(d) ==
    /\ Idle /\ dst # NoDest
    /\ InitDest(d, All(Inf), All(NoSeg))
    /\ UNCHANGED <<distortionVars, todo, readd>>

-----------------------------------------------------------------------------
(* route_graph_compute_shortest_path *)

Keys == {el[p] : p \in {q \in Points : el[q] # NoKey}}
        \cup UNION {lost[p] : p \in Points}

\* fh_extractmin returns an element of p: the one it knows of, or one it has
\* forgotten, and then it forgets the one it knows of.
ExtractMin(p, lost1) ==
    \/ /\ el[p] # NoKey /\ el[p] = Min(Keys)
       /\ lost1 = lost
    \/ /\ Min(Keys) \in lost[p]
       /\ lost1 = [lost EXCEPT ![p] = (@ \ {Min(Keys)})
                                        \cup ({el[p]} \ {NoKey})]

\* The cost has fallen.
Lower(p) ==
    /\ computing /\ todo = {} /\ Keys # {}
    /\ ExtractMin(p, lost')
    /\ value[p] > rhs[p]
    /\ value' = [value EXCEPT ![p] = rhs[p]]
    /\ el' = [el EXCEPT ![p] = NoKey]
    /\ todo' = Predecessors(p)
    /\ UNCHANGED <<rhs, seg, dst_val, dst_seg, distortionVars, dst, computing,
                   readd>>

\* The cost has risen: the point is evaluated anew.
NotRaised(p) == value             \* an error: value is not set to INT_MAX
Raised(p) == [value EXCEPT ![p] = Inf]

Raise(p) ==
    /\ computing /\ todo = {} /\ Keys # {}
    /\ ExtractMin(p, lost')
    /\ value[p] <= rhs[p]
    /\ value' = Raised(p)
    /\ PointUpdate(p, Raised(p))
    /\ todo' = Predecessors(p)
    /\ UNCHANGED <<dst_val, dst_seg, distortionVars, dst, computing, readd>>

\* The next neighbour of the extracted point, or the next end of a distortion
\* that has changed.
Update(p) ==
    /\ p \in todo
    /\ PointUpdate(p, value)
    /\ todo' = todo \ {p}
    /\ UNCHANGED <<value, dst_val, dst_seg, lost, distortionVars, dst,
                   computing, readd>>

\* The heap is empty.
Finish ==
    /\ computing /\ todo = {} /\ Keys = {}
    /\ computing' = FALSE
    /\ UNCHANGED <<pointVars, distortionVars, dst, todo, readd>>

\* route_recalculate_partial, after changes.
Recalculate ==
    /\ Idle /\ dst # NoDest /\ Keys # {}
    /\ computing' = TRUE
    /\ UNCHANGED <<pointVars, distortionVars, dst, todo, readd>>

-----------------------------------------------------------------------------
(* Changes of the distortions *)

\* The points that d, or a change of it, makes dearer or cheaper to leave.
Touched(d) == IF OneWay[d] THEN {DFrom[d]} ELSE {DFrom[d], DTo[d]}

\* route_graph_add_traffic_distortion, called with update set.
Add(d, x) ==
    /\ delay' = [delay EXCEPT ![d] = x]
    /\ flag' = [flag EXCEPT ![DFrom[d]] = TRUE, ![DTo[d]] = TRUE]
    /\ todo' = Touched(d)
    /\ readd' = NoChange
    /\ UNCHANGED <<pointVars, dst, computing>>

AddDistortion(d, x) == Idle /\ delay[d] = 0 /\ Add(d, x)

\* route_graph_remove_traffic_distortion: the flag of the start is set again
\* if another distortion starts there, that of the end if another ends there.
FlagsCleared(d) ==                \* an error: others are not looked for
    [flag EXCEPT ![DFrom[d]] = FALSE, ![DTo[d]] = FALSE]
FlagsWithout(d) ==
    LET others == {x \in Distortions : x # d /\ delay[x] # 0}
        atFrom == [flag EXCEPT ![DFrom[d]] =
                      \E x \in others : DFrom[x] = DFrom[d]]
    IN  [atFrom EXCEPT ![DTo[d]] = \E x \in others : DTo[x] = DTo[d]]

Remove(d, then) ==
    /\ delay' = [delay EXCEPT ![d] = 0]
    /\ flag' = FlagsWithout(d)
    /\ todo' = {DFrom[d], DTo[d]}
    /\ readd' = then
    /\ UNCHANGED <<pointVars, dst, computing>>

RemoveDistortion(d) == Idle /\ delay[d] # 0 /\ Remove(d, NoChange)

\* route_graph_change_traffic_distortion removes and adds.
ChangeDistortion(d, x) ==
    Idle /\ delay[d] \notin {0, x} /\ Remove(d, [item |-> d, delay |-> x])

FinishChange ==
    /\ todo = {} /\ readd # NoChange
    /\ Add(readd.item, readd.delay)

-----------------------------------------------------------------------------
TrafficChange ==
    \E d \in Distortions :
        \/ RemoveDistortion(d)
        \/ \E x \in Delays : AddDistortion(d, x) \/ ChangeDistortion(d, x)

Compute ==
    \/ \E p \in Points : Lower(p) \/ Raise(p) \/ Update(p)
    \/ FinishChange
    \/ Finish

Next ==
    \/ Build
    \/ \E d \in Dests : FirstFlood(d) \/ Reflood(d)
    \/ TrafficChange
    \/ Recalculate
    \/ Compute

Spec == Init /\ [][Next]_vars

-----------------------------------------------------------------------------
(* What the graph is for *)

\* The true cost of leaving p over s, whatever the flags.
TrueCost(s, p) == Plus(Time[<<s, p>>], Distortion(s, p))

\* The cost of ending the route at p.
EndingAt(p) ==
    Min({Inf} \cup {o.val : o \in {x \in Offers(dst) : x.pt = p}})

\* The cheapest cost from every point to the destination, relaxed once for
\* every point.
CheapestCosts ==
    FoldSet(LAMBDA n, cost :
                [p \in Points |->
                    Min({cost[p]} \cup {Plus(TrueCost(s, p), cost[Other(s, p)]) :
                                           s \in SegsAt(p)})],
            [p \in Points |-> EndingAt(p)], 1..Cardinality(Points))

\* The costs are those of the present destination and distortions.
Computed == Idle /\ dst # NoDest /\ Keys = {}

\* Before its first flood, the heap of a new graph is empty, whatever changes of
\* distortions have been applied to it: route_graph_init relies on it.
FreshHeapIsEmpty ==
    dst = NoDest =>
        \A p \in Points : /\ value[p] = Inf /\ dst_val[p] = Inf
                          /\ rhs[p] \in {0, Inf}
                          /\ el[p] = NoKey /\ lost[p] = {}

\* A point of a new graph that nothing has reached yet.
Untouched(p) == value[p] = Inf /\ rhs[p] = 0 /\ dst_val[p] = Inf

\* A point that is not locally consistent knows its element of the heap: none
\* is forgotten by the computation, whatever is on the heap twice.
InconsistentIsOnHeap ==
    \A p \in Points :
        value[p] # rhs[p] => el[p] # NoKey \/ Untouched(p)

\* Once computed, every point has the cost of the cheapest way.
Optimal == Computed => value = CheapestCosts

\* Where one distortion starts and another ends.
Meeting(p) ==
    \E d, e \in Distortions : d # e /\ DFrom[d] = p /\ DTo[e] = p

\* What leaving p over s may have been taken to cost.  Between two distortions a
\* flag may be lost: there the delay may have been left out.
ChargedFor(s, p) ==
    {TrueCost(s, p)} \cup
        {t \in {Time[<<s, p>>]} : Meeting(From[s]) \/ Meeting(To[s])}

\* What may be asked for reaching the destination from p over s.
CostsOver(s, p) ==
    {Plus(Plus(time, penalty), value[Other(s, p)]) :
        time \in ChargedFor(s, p), penalty \in {0, Penalty2}}

\* Once computed, the cost of a point is what its own way costs now, with the
\* distortions there are, however they came and went: that of ending the route
\* on the point, or that of the segment to take on top of what the far end has.
ValueIsWhatTheWayCosts ==
    Computed =>
        \A p \in Points :
            value[p] # Inf =>
                \/ value[p] = dst_val[p] /\ seg[p] = dst_seg[p]
                \/ seg[p] \in SegsAt(p) /\ value[p] \in CostsOver(seg[p], p)

\* The points on the way from p.
Way(p) ==
    LET W[n \in Nat] ==
            IF n = 0 THEN <<p>>
            ELSE LET w == W[n - 1]
                     q == w[Len(w)]
                 IN  IF seg[q] \in dst.segs \cup {NoSeg} THEN w
                     ELSE Append(w, Other(seg[q], q))
    IN  W[Cardinality(Points)]

\* From every point that has a cost, following seg leads to the destination's
\* street, and before route_path_new takes the way for a cycle: it counts one
\* segment for each point of the way and the one the vehicle is on.
WayLeadsToDestination ==
    Computed =>
        \A p \in Points :
            value[p] # Inf =>
                LET w == Way(p)
                IN  seg[w[Len(w)]] \in dst.segs /\ Len(w) <= Cardinality(Points)

\* A distortion counts only if both of its ends are flagged, and they are: one
\* that goes takes the flag of another's end with it only where one of the two
\* starts and the other ends.
FlagsCoverDistortions ==
    \A d \in Distortions :
        delay[d] # 0 =>
            \A p \in {DFrom[d], DTo[d]} : flag[p] \/ Meeting(p)

\* The computation ends.
Fairness == WF_vars(Compute)
FairSpec == Spec /\ Fairness

ComputationEnds == computing ~> ~computing
=============================================================================
