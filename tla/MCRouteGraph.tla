---------------------------- MODULE MCRouteGraph ----------------------------
\* Small instances of RouteGraph for TLC.
EXTENDS RouteGraph, TLC

CONSTANTS a, b, c, x,           \* points
          ab, bc, ac, cx,       \* segments
          t1, t2                \* traffic distortions

FourPoints == {a, b, c, x}
FourSegments == {ab, bc, ac, cx}

\* A triangle of streets, and one that leads out of it.
TriangleFrom == ab :> a @@ bc :> b @@ ac :> a @@ cx :> c
TriangleTo == ab :> b @@ bc :> c @@ ac :> c @@ cx :> x

EachItsOwn == [s \in Segments |-> s]

\* ab and bc are two segments of a street.
OneStreet == [EachItsOwn EXCEPT ![bc] = ab]

\* The times of the segments, the same in both directions.
TwoWay(time) ==
    [e \in Segments \X Points |->
        IF e[2] \in {From[e[1]], To[e[1]]} THEN time[e[1]] ELSE Inf]

\* No two ways cost the same, whatever is reported.
Uneven == TwoWay(ab :> 1 @@ bc :> 2 @@ ac :> 5 @@ cx :> 10)

\* The same, ab being one-way.
OneWayAb == [Uneven EXCEPT ![<<ab, b>>] = Inf]

\* The street out of the triangle leads back to where it starts.
ThreePoints == {a, b, c}
LoopFrom == TriangleFrom
LoopTo == [TriangleTo EXCEPT ![cx] = c]

Half(s) == [segs |-> {s}, percent |-> 50]
AtExit == {Half(cx)}
AtExitOrHill == AtExit \cup {[segs |-> {ab}, percent |-> 0]}
OnLoop == {[segs |-> {cx}, percent |-> 30]}

\* Two distortions that end at the same point.
MeetFrom == t1 :> b @@ t2 :> a
MeetTo == t1 :> c @@ t2 :> c
BothWays == [d \in Distortions |-> FALSE]
SecondOneWay == [d \in Distortions |-> d = t2]

\* Two that follow on one another: a message about a street of two segments.
RowFrom == t1 :> a @@ t2 :> b
RowTo == t1 :> b @@ t2 :> c
=============================================================================
